---------------------------- MODULE EnterpriseTPer ----------------------------
(***************************************************************************)
(* The Enterprise drive, as far as the handlers of DtaDevEnterprise can    *)
(* tell.  A band is a locking range; each band has a master of its own,    *)
(* and the EraseMaster may erase any of them.  The drive is not part of    *)
(* the repository; every definition here says what DtaDevEnterprise.cpp    *)
(* relies on.                                                              *)
(***************************************************************************)
EXTENDS Integers, Sequences

CONSTANTS
  BandSeq,    \* the bands the drive has, in ascending order
  Passwords,  \* what a user may type; includes the three that follow
  Empty,      \* "": stands for the default password where a handler says so
  MSID,       \* the text of the drive's default password
  PSID,       \* the text printed on the drive's label
  Places,     \* where a band may lie: its start and length
  Nowhere,    \* the factory place: start 0, length 0
  Plain,      \* the bands without a media key (ActiveKey is the null UID)
  Enabled     \* the bands whose masters may log in to a factory drive

Bands == {BandSeq[i] : i \in 1..Len(BandSeq)}
MaxRanges == BandSeq[Len(BandSeq)]

ASSUME BandAssumption ==
  /\ BandSeq \in Seq(Nat) /\ Len(BandSeq) > 0 /\ BandSeq[1] = 0
  /\ \A i, j \in 1..Len(BandSeq) : i < j => BandSeq[i] < BandSeq[j]
ASSUME PasswordAssumption ==
  /\ {Empty, MSID, PSID} \subseteq Passwords
  /\ Empty # MSID /\ Empty # PSID /\ MSID # PSID
ASSUME PlaceAssumption == Nowhere \in Places
ASSUME FactoryAssumption == Plain \subseteq Bands /\ Enabled \subseteq Bands

(* A PIN is the password itself or its PBKDF2 hash.                        *)
Pins == [pw : Passwords, hashed : BOOLEAN]
Raw(pw) == [pw |-> pw, hashed |-> FALSE]

Anybody       == <<"Anybody", 0>>
SID           == <<"SID", 0>>
PSIDOwner     == <<"PSID", 0>>
EraseMaster   == <<"EraseMaster", 0>>
BandMaster(n) == <<"BandMaster", n>>
Authorities   == {SID, PSIDOwner, EraseMaster} \cup {BandMaster(b) : b \in Bands}

Modes == {"read", "write"}

Drives ==
  [pin     : [Authorities -> Pins],  \* C_PIN
   enabled : SUBSET Bands,           \* BandMasters that may log in
   place   : [Bands -> Places],
   guard   : [Bands -> SUBSET Modes],  \* Read- and WriteLockEnabled
   locked  : [Bands -> SUBSET Modes],  \* Read- and WriteLocked
   reset   : SUBSET Bands,           \* LockOnReset names the power cycle
   stale   : SUBSET Bands,           \* history: the key is older than the place
   info    : {"enterprise", "opal", "none"}]  \* where LockingInfo can be read

Factory(info) ==
  [pin |-> [a \in Authorities |-> IF a = PSIDOwner THEN Raw(PSID) ELSE Raw(MSID)],
   enabled |-> Enabled,
   place |-> [b \in Bands |-> Nowhere],
   guard |-> [b \in Bands |-> {}],
   locked |-> [b \in Bands |-> {}],
   reset |-> {}, stale |-> {}, info |-> info]

(* Power is lost: a band locks if LockOnReset says so.                     *)
PoweredUp(d) ==
  [d EXCEPT !.locked = [b \in Bands |->
                          d.locked[b] \cup IF b \in d.reset THEN d.guard[b] ELSE {}]]

(* StartSession and Authenticate: the authority exists, may log in, and    *)
(* the PIN is right.                                                       *)
Admits(d, s) ==
  s.auth # Anybody =>
    /\ s.auth \in Authorities /\ d.pin[s.auth] = s.pin
    /\ s.auth[1] = "BandMaster" => s.auth[2] \in d.enabled

(* A band is in the hands of its master, except that only the EraseMaster  *)
(* erases it and lets its master log in.                                   *)
Permits(d, auth, m) ==
  CASE m.op = "read"     -> TRUE
    [] m.op = "info"     -> d.info = "enterprise"
    [] m.op = "infoOpal" -> d.info # "none"
    [] m.op = "setPIN"   -> auth = m.auth
    [] m.op \in {"setBand", "genKey"} -> m.band \in Bands /\ auth = BandMaster(m.band)
    [] m.op \in {"erase", "enable"}   -> m.band \in Bands /\ auth = EraseMaster
    [] m.op = "revert"   -> auth \in {SID, PSIDOwner}

(* What the method changes.  Erase gives the band a new key and its master *)
(* the default password.                                                   *)
Performed(d, m) ==
  CASE m.op \in {"read", "info", "infoOpal"} -> d
    [] m.op = "setPIN"  -> [d EXCEPT !.pin[m.auth] = m.pin]
    [] m.op = "setBand" ->
         [d EXCEPT !.place[m.band]  = IF m.place = {} THEN @ ELSE CHOOSE x \in m.place : TRUE,
                   !.stale          = IF m.place = {} THEN @ ELSE @ \cup {m.band},
                   !.guard[m.band]  = (@ \ m.guardOf) \cup m.guard,
                   !.locked[m.band] = (@ \ m.lockOf) \cup m.lock,
                   !.reset          = IF TRUE \in m.reset THEN @ \cup {m.band}
                                      ELSE IF FALSE \in m.reset THEN @ \ {m.band} ELSE @]
    [] m.op = "genKey"  -> [d EXCEPT !.stale = @ \ {m.band}]
    [] m.op = "erase"   ->
         [d EXCEPT !.stale = @ \ {m.band}, !.guard[m.band] = {}, !.locked[m.band] = {},
                   !.pin[BandMaster(m.band)] = Raw(MSID)]
    [] m.op = "enable"  -> [d EXCEPT !.enabled = @ \cup {m.band}]
    [] m.op = "revert"  -> Factory(d.info)
=============================================================================
