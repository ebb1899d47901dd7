-------------------------- MODULE EnterpriseHandlers --------------------------
(***************************************************************************)
(* The handlers of DtaDevEnterprise, as sedutil.cpp calls them.            *)
(*                                                                         *)
(* A handler is the sequence of the sessions it opens, each with the       *)
(* methods called in it and with what the handler does about an error:     *)
(*   return  it deletes the session and returns the error;                 *)
(*   skip    it goes on with the next session (initLSPUsers);              *)
(*   opal    it asks again, in another session, for the LockingInfo of an  *)
(*           Opal drive (getMaxRanges);                                    *)
(*   list    it goes on and notes that a session failed.                   *)
(***************************************************************************)
EXTENDS EnterpriseTPer

CONSTANT Named  \* the bands that commands name, whether or not there are such

ASSUME NamedAssumption == Named \subseteq 0..1023

Session(sp, auth, pin, methods, err) ==
  <<[sp |-> sp, auth |-> auth, pin |-> pin, methods |-> methods, err |-> err]>>
Locking(auth, pin, methods) == Session("Locking", auth, pin, methods, "return")
(* A handler that returns an error before it opens a session.              *)
Invalid == Session("none", Anybody, Raw(Empty), <<>>, "return")

HashPwd(j, pw) == [pw |-> pw, hashed |-> pw # Empty /\ ~j.n]
(* Where the empty password stands for the MSID, it is sent as it is.      *)
OrMSID(j, pw) == IF pw = Empty THEN Raw(MSID) ELSE HashPwd(j, pw)

Read           == [op |-> "read"]
SetPIN(a, pin) == [op |-> "setPIN", auth |-> a, pin |-> pin]
SetBand(b, place, guardOf, guard, lockOf, lock, reset) ==
  [op |-> "setBand", band |-> b, place |-> place, guardOf |-> guardOf, guard |-> guard,
   lockOf |-> lockOf, lock |-> lock, reset |-> reset]

(* The number n of the band whose UID setband writes for band b: the UID   *)
(* ends in n + 1, of which the masking with F0 leaves the low byte only.   *)
(* -1 stands for the UID that ends in 00, which nobody has.                *)
setband(b) == ((b + 1) % 256) - 1
Master(b)  == BandMaster(setband(b))

-----------------------------------------------------------------------------
(* Definitions whose names end in an underscore and a word are faulty      *)
(* variants of the definition that follows them, kept to show that the     *)
(* properties notice the fault (_SUM is the code's own suffix).            *)

getDefaultPassword == Session("Admin", Anybody, Raw(Empty), <<Read>>, "return")
(* The MSID is read if it stands in for one of the passwords.              *)
DefaultFor(pws) == IF Empty \in pws THEN getDefaultPassword ELSE <<>>

(* LockingInfo is asked for as on Enterprise drives, then as on Opal ones. *)
getMaxRangesOpal == Locking(Anybody, Raw(Empty), <<[op |-> "infoOpal"]>>)
getMaxRanges     == Session("Locking", Anybody, Raw(Empty), <<[op |-> "info"]>>, "opal")
InBounds(b)      == MaxRanges \in 1..1023 /\ b <= MaxRanges
(* getMaxRanges, and what follows it if the band is in bounds.             *)
Within(b, sessions) == getMaxRanges \o IF InBounds(b) THEN sessions ELSE Invalid

setSIDPassword(j, old, new) ==
  DefaultFor({old.pw})
  \o Session("Admin", SID, IF old.pw = Empty THEN Raw(MSID) ELSE old,
             <<SetPIN(SID, HashPwd(j, new))>>, "return")

(* The EraseMaster, then the master of every band: only an error with the  *)
(* first is one.                                                           *)
Initialised_Firm(j, b) ==
  Session("Locking", Master(b), Raw(MSID), <<SetPIN(Master(b), HashPwd(j, j.pw))>>, "return")
Initialised(j, b) ==
  Session("Locking", Master(b), Raw(MSID), <<SetPIN(Master(b), HashPwd(j, j.pw))>>,
          IF b = 0 THEN "return" ELSE "skip")
initLSPUsers(j) ==
  Locking(EraseMaster, Raw(MSID), <<SetPIN(EraseMaster, HashPwd(j, j.pw))>>)
  \o Within(0, [i \in 1..Len(BandSeq) |-> Head(Initialised(j, BandSeq[i]))])

takeOwnership(j) ==
  getDefaultPassword \o setSIDPassword(j, Raw(MSID), j.pw) \o initLSPUsers(j)

(* Both halves of Read- and WriteLockEnabled, and LockOnReset with them.   *)
configureLockingRange(j, b, guard) ==
  Locking(Master(b), HashPwd(j, j.pw),
          <<SetBand(setband(b), {}, Modes, guard, {}, {}, {TRUE})>>)

(* RW and LK: an Enterprise band is not read-only.                         *)
setLockingRange(j, b, lockingstate) ==
  IF lockingstate \in {"RW", "LK"}
  THEN Within(b, Locking(Master(b), HashPwd(j, j.pw),
                   <<SetBand(setband(b), {}, {}, {}, Modes,
                             IF lockingstate = "LK" THEN Modes ELSE {}, {})>>))
  ELSE Invalid

initialSetup(j) ==
  takeOwnership(j) \o setLockingRange(j, 0, "RW") \o configureLockingRange(j, 0, Modes)

(* The new place, unlocked, locking disabled; the key is not changed.      *)
setupLockingRange_KeepsGuard(j) ==
  Within(j.band, Locking(Master(j.band), HashPwd(j, j.pw),
    <<SetBand(setband(j.band), {j.place}, {}, {}, Modes, {}, {FALSE})>>))
setupLockingRange(j) ==
  Within(j.band, Locking(Master(j.band), HashPwd(j, j.pw),
    <<SetBand(setband(j.band), {j.place}, Modes, {}, Modes, {}, {FALSE})>>))

(* A band without a key "remains in plaintext", and that is no error.      *)
rekeyLockingRange(j) ==
  Locking(Master(j.band), HashPwd(j, j.pw),
          IF setband(j.band) \in Plain THEN <<Read>>
          ELSE <<Read, [op |-> "genKey", band |-> setband(j.band)]>>)

setPassword_Hashed(j) ==
  DefaultFor({j.pw, j.new})
  \o Locking(j.user, HashPwd(j, j.pw), <<SetPIN(j.user, OrMSID(j, j.new))>>)
setPassword(j) ==
  DefaultFor({j.pw, j.new})
  \o Locking(j.user, OrMSID(j, j.pw), <<SetPIN(j.user, OrMSID(j, j.new))>>)

eraseLockingRange(j) ==
  DefaultFor({j.pw})
  \o Within(j.band, Locking(EraseMaster, OrMSID(j, j.pw),
                            <<[op |-> "erase", band |-> setband(j.band)]>>))

(* One band, or all of them (-1).                                          *)
Chosen_One(rangeid) == <<rangeid>>
Chosen(rangeid) == IF rangeid = -1 THEN BandSeq ELSE <<rangeid>>

(* One session for each, up to the first that fails.                       *)
setBandsEnabled(j, rangeid) ==
  LET enable(b) == Locking(EraseMaster, OrMSID(j, j.pw),
                           <<[op |-> "enable", band |-> setband(b)]>>)
      bands == Chosen(rangeid)
  IN  getMaxRanges
      \o IF MaxRanges >= 1024 \/ rangeid > MaxRanges THEN Invalid
         ELSE DefaultFor({j.pw}) \o [i \in 1..Len(bands) |-> Head(enable(bands[i]))]

(* Each band is read by its own master; j.pw is tried with all of them.    *)
listLockingRanges(j, rangeid) ==
  LET list(b) == Session("Locking", Master(b), OrMSID(j, j.pw), <<Read>>, "list")
      bands == Chosen(rangeid)
  IN  DefaultFor({j.pw})
      \o (IF rangeid = -1 THEN getMaxRanges ELSE <<>>)
      \o IF rangeid = -1 /\ MaxRanges >= 1024 THEN Invalid
         ELSE [i \in 1..Len(bands) |-> Head(list(bands[i]))]

(* The SID's password is hashed, the PSID is sent as entered.  RevertSP of *)
(* ThisSP in a session of the AdminSP reverts the drive, like Revert.  The *)
(* AdminSP has no global range, whose key revertNoErase asks it to keep.   *)
revertLockingSP(j) ==
  Session("Admin", SID, HashPwd(j, j.pw), <<[op |-> "revert"]>>, "return")
revertTPer_Hashed(j, psid) ==
  Session("Admin", IF psid THEN PSIDOwner ELSE SID, HashPwd(j, j.pw),
          <<[op |-> "revert"]>>, "return")
revertTPer(j, psid) ==
  Session("Admin", IF psid THEN PSIDOwner ELSE SID,
          IF psid THEN Raw(j.pw) ELSE HashPwd(j, j.pw), <<[op |-> "revert"]>>, "return")

(* Not part of the SSC.  These report success without doing anything ...   *)
Ignored == {"setMBREnable", "setMBRDone", "setNewPassword_SUM", "setupLockingRange_SUM"}
(* ... and these an error.                                                 *)
Rejected == {"setup_SUM", "printLockingRangeStatus", "setLockingRange_SUM", "enableUser",
             "loadPBA", "activateLockingSP", "activateLockingSP_SUM", "eraseLockingRange_SUM"}

-----------------------------------------------------------------------------
(* The commands of sedutil.cpp                                             *)

NoJob == [cmd |-> "none", n |-> FALSE, pw |-> Empty, new |-> Empty, user |-> Anybody,
          band |-> 0, place |-> Nowhere, guard |-> {}, lock |-> "RW"]

CommandNames ==
  {"initialSetup", "takeOwnership", "revertLockingSP", "revertNoErase", "revertTPer",
   "PSIDrevert", "setBandsEnabled", "setBandEnabled", "listLockingRanges", "listLockingRange",
   "setSIDPassword", "setPassword", "rekeyLockingRange", "eraseLockingRange",
   "configureLockingRange", "setLockingRange", "setupLockingRange"}
  \cup Ignored \cup Rejected

(* A command with its password, and what else it is given.                 *)
Typed(c, pw)             == [NoJob EXCEPT !.cmd = c, !.pw = pw]
NewPIN(c, pw, new)       == [Typed(c, pw) EXCEPT !.new = new]
ForUser(c, pw, new, a)   == [NewPIN(c, pw, new) EXCEPT !.user = a]
OnBand(c, pw, b)         == [Typed(c, pw) EXCEPT !.band = b]
ForMaster(c, pw, new, b) == [ForUser(c, pw, new, Master(b)) EXCEPT !.band = b]
Guarding(c, pw, b, g)    == [OnBand(c, pw, b) EXCEPT !.guard = g]
Setting(c, pw, b, l)     == [OnBand(c, pw, b) EXCEPT !.lock = l]
Placing(c, pw, b, x)     == [OnBand(c, pw, b) EXCEPT !.place = x]

(* The arguments of a command; the rest of the record keeps its default.   *)
(* DtaOptions wants a password, but "" will do.  setPassword takes the     *)
(* number of a BandMaster from its name, which need not be in bounds.      *)
Arguments(c) ==
  CASE c \in {"initialSetup", "takeOwnership", "revertLockingSP", "revertNoErase", "revertTPer",
              "PSIDrevert", "setBandsEnabled", "listLockingRanges"} ->
         {Typed(c, pw) : pw \in Passwords}
    [] c = "setSIDPassword" -> {NewPIN(c, pw, new) : pw, new \in Passwords}
    [] c = "setPassword" ->
         {ForUser(c, pw, new, EraseMaster) : pw, new \in Passwords}
         \cup {ForMaster(c, pw, new, b) : pw, new \in Passwords, b \in Named}
    [] c \in {"rekeyLockingRange", "eraseLockingRange", "setBandEnabled",
              "listLockingRange"} -> {OnBand(c, pw, b) : pw \in Passwords, b \in Named}
    [] c = "configureLockingRange" ->
         {Guarding(c, pw, b, g) : pw \in Passwords, b \in Named, g \in {{}, {"write"}, Modes}}
    [] c = "setLockingRange" ->
         {Setting(c, pw, b, l) : pw \in Passwords, b \in Named, l \in {"RW", "RO", "LK"}}
    [] c = "setupLockingRange" ->
         {Placing(c, pw, b, x) : pw \in Passwords, b \in Named, x \in Places}
    [] c \in Ignored \cup Rejected -> {[NoJob EXCEPT !.cmd = c]}

(* main: the handler that runs the command.                                *)
Handler(j) ==
  CASE j.cmd = "initialSetup"          -> initialSetup(j)
    [] j.cmd = "takeOwnership"         -> takeOwnership(j)
    [] j.cmd = "setSIDPassword"        -> setSIDPassword(j, HashPwd(j, j.pw), j.new)
    [] j.cmd = "configureLockingRange" -> configureLockingRange(j, j.band, j.guard)
    [] j.cmd = "setLockingRange"       -> setLockingRange(j, j.band, j.lock)
    [] j.cmd = "setupLockingRange"     -> setupLockingRange(j)
    [] j.cmd = "rekeyLockingRange"     -> rekeyLockingRange(j)
    [] j.cmd = "setPassword"           -> setPassword(j)
    [] j.cmd = "eraseLockingRange"     -> eraseLockingRange(j)
    [] j.cmd = "setBandsEnabled"       -> setBandsEnabled(j, -1)
    [] j.cmd = "setBandEnabled"        -> setBandsEnabled(j, j.band)
    [] j.cmd = "listLockingRanges"     -> listLockingRanges(j, -1)
    [] j.cmd = "listLockingRange"      -> listLockingRanges(j, j.band)
    [] j.cmd \in {"revertLockingSP", "revertNoErase"} -> revertLockingSP(j)
    [] j.cmd = "revertTPer"            -> revertTPer(j, FALSE)
    [] j.cmd = "PSIDrevert"            -> revertTPer(j, TRUE)
    [] j.cmd \in Ignored               -> <<>>
    [] j.cmd \in Rejected              -> Invalid
=============================================================================
