------------------------------ MODULE OpalTPer ------------------------------
(***************************************************************************)
(* The Opal drive, as far as the handlers of DtaDevOpal can tell: who may  *)
(* open a session, what each method they call changes, and when the drive  *)
(* refuses it.  The drive is not part of the repository; every definition  *)
(* here says what DtaDevOpal.cpp relies on.                                *)
(***************************************************************************)
EXTENDS Naturals

CONSTANTS
  MaxRange,   \* the highest locking range; range 0 is the global range
  Passwords,  \* what a user may type; includes the three that follow
  Empty,      \* "", never hashed: the default PIN of a user in single user mode
  MSID,       \* the text of the drive's default password
  PSID,       \* the text printed on the drive's label
  Places,     \* where a range may lie: its start and length
  Nowhere,    \* the factory place: start 0, length 0
  Features    \* what Discovery 0 reports of the drive: a subset of
              \* {"Locking", "SingleUser"}

ASSUME RangeAssumption == MaxRange \in Nat
ASSUME PasswordAssumption ==
  /\ {Empty, MSID, PSID} \subseteq Passwords
  /\ Empty # MSID /\ Empty # PSID /\ MSID # PSID
ASSUME PlaceAssumption == Nowhere \in Places
ASSUME FeatureAssumption == Features \subseteq {"Locking", "SingleUser"}

Ranges == 0..MaxRange

(* A PIN is the password itself or its PBKDF2 hash.                        *)
Pins == [pw : Passwords, hashed : BOOLEAN]
Raw(pw) == [pw |-> pw, hashed |-> FALSE]

(* Authorities.  In single user mode range r belongs to User(r + 1).       *)
Anybody   == <<"Anybody", 0>>
SID       == <<"SID", 0>>
PSIDOwner == <<"PSID", 0>>
Admin1    == <<"Admin", 1>>
User(n)   == <<"User", n>>
Users     == {User(r + 1) : r \in Ranges}
(* The handlers compute the user from the range in the same way.           *)
Owner_OffByOne(r) == User(r + 2)  \* a faulty variant, for the properties to notice
Owner(r)  == User(r + 1)
Authorities == {SID, PSIDOwner, Admin1} \cup Users

Modes == {"read", "write"}

Drives ==
  [pin     : [Authorities -> Pins],  \* C_PIN
   active  : BOOLEAN,                \* LockingSP: activated, or Manufactured-Inactive
   sum     : SUBSET Ranges,          \* ranges in single user mode
   enabled : SUBSET Users,           \* authorities that may log in
   mbrEnable : BOOLEAN,
   mbrDone : BOOLEAN,
   place   : [Ranges -> Places],
   guard   : [Ranges -> SUBSET Modes],  \* Read- and WriteLockEnabled
   locked  : [Ranges -> SUBSET Modes],  \* Read- and WriteLocked
   stale   : SUBSET Ranges]          \* history: the key is older than the place

(* RevertSP: the LockingSP is as the factory left it.                      *)
LockingReverted(d) ==
  [d EXCEPT !.pin = [a \in Authorities |->
                       IF a \in {SID, PSIDOwner} THEN d.pin[a] ELSE Raw(Empty)],
            !.active = FALSE, !.sum = {}, !.enabled = {},
            !.mbrEnable = FALSE, !.mbrDone = FALSE,
            !.place = [r \in Ranges |-> Nowhere],
            !.guard = [r \in Ranges |-> {}],
            !.locked = [r \in Ranges |-> {}],
            !.stale = {}]

(* A LockingSP that is not active is as RevertSP leaves it: nothing is     *)
(* locked, guarded, placed, stale or in single user mode, no user may log  *)
(* in or has a PIN, and the shadow MBR is off.                             *)
Sane(d) == d \in Drives /\ (~d.active => d = LockingReverted(d))

Factory ==
  [pin |-> [a \in Authorities |-> IF a = SID THEN Raw(MSID)
                                  ELSE IF a = PSIDOwner THEN Raw(PSID)
                                  ELSE Raw(Empty)],
   active |-> FALSE, sum |-> {}, enabled |-> {},
   mbrEnable |-> FALSE, mbrDone |-> FALSE,
   place |-> [r \in Ranges |-> Nowhere],
   guard |-> [r \in Ranges |-> {}],
   locked |-> [r \in Ranges |-> {}],
   stale |-> {}]

(* Power is lost: MBRDone is cleared and every range that can lock, locks. *)
PoweredUp(d) ==
  [d EXCEPT !.mbrDone = FALSE,
            !.locked = [r \in Ranges |-> IF d.guard[r] # {} THEN Modes ELSE d.locked[r]]]

(* StartSession: the LockingSP must be active, and the PIN right.          *)
Admits(d, s) ==
  /\ s.sp = "Locking" => d.active
  /\ s.auth # Anybody => s.auth \in Authorities /\ d.pin[s.auth] = s.pin
  /\ s.auth \in Users => s.auth \in d.enabled

(* Who may call a method: a range in single user mode, and its user's PIN, *)
(* are out of Admin1's hands, except that Admin1 may erase the range.  The *)
(* key of the global range is not kept if it is locked for all access.     *)
Permits(d, auth, m) ==
  CASE m.op = "read"      -> TRUE
    [] m.op = "isRange"   -> TRUE
    [] m.op = "inactive"  -> ~d.active
    [] m.op = "activate"  -> /\ auth = SID /\ ~d.active /\ "Locking" \in Features
                             /\ m.sum # {} => "SingleUser" \in Features
    [] m.op = "revert"    -> auth \in {SID, PSIDOwner}
    [] m.op = "revertSP"  -> auth = Admin1 /\ (m.keep => d.guard[0] \cap d.locked[0] # Modes)
    [] m.op = "setPIN"    ->
         \/ auth = m.auth
         \/ auth = Admin1 /\ m.auth \in Users \ {Owner(r) : r \in d.sum}
    [] m.op = "enable"    -> auth = Admin1 /\ m.auth \notin {Owner(r) : r \in d.sum}
    [] m.op = "setMBR"    -> auth = Admin1
    [] m.op = "erase"     -> auth = Admin1 /\ m.range \in d.sum
    [] m.op \in {"setRange", "genKey"} ->
         auth = IF m.range \in d.sum THEN Owner(m.range) ELSE Admin1

(* What the method changes.  Activate copies the SID's PIN to Admin1.      *)
Performed(d, m) ==
  CASE m.op \in {"read", "isRange", "inactive"} -> d
    [] m.op = "activate" ->
         [d EXCEPT !.active = TRUE, !.sum = m.sum, !.pin[Admin1] = d.pin[SID],
                   !.enabled = {Owner(r) : r \in m.sum}]
    [] m.op = "revert"   -> Factory
    [] m.op = "revertSP" -> LockingReverted(d)
    [] m.op = "setPIN"   -> [d EXCEPT !.pin[m.auth] = m.pin]
    [] m.op = "enable"   -> [d EXCEPT !.enabled = @ \cup {m.auth}]
    [] m.op = "setMBR"   -> IF m.name = "Enable" THEN [d EXCEPT !.mbrEnable = m.value]
                                                 ELSE [d EXCEPT !.mbrDone = m.value]
    [] m.op = "setRange" ->
         [d EXCEPT !.place[m.range]  = IF m.place = {} THEN @ ELSE CHOOSE x \in m.place : TRUE,
                   !.stale           = IF m.place = {} THEN @ ELSE @ \cup {m.range},
                   !.guard[m.range]  = (@ \ m.guardOf) \cup m.guard,
                   !.locked[m.range] = (@ \ m.lockOf) \cup m.lock]
    [] m.op = "genKey"   -> [d EXCEPT !.stale = @ \ {m.range}]
    [] m.op = "erase"    ->
         [d EXCEPT !.stale = @ \ {m.range}, !.guard[m.range] = {}, !.locked[m.range] = {},
                   !.pin[Owner(m.range)] = Raw(Empty)]
=============================================================================
