---------------------------- MODULE OpalHandlers ----------------------------
(***************************************************************************)
(* The handlers of DtaDevOpal, as sedutil.cpp and LinuxPBA call them.      *)
(*                                                                         *)
(* A handler is the sequence of the sessions it opens, each with the       *)
(* methods called in it.  Every handler returns at the first error, so a   *)
(* composite one (initialSetup, setup_SUM) is the concatenation of those   *)
(* it calls.                                                               *)
(***************************************************************************)
EXTENDS OpalTPer, Sequences

-----------------------------------------------------------------------------
(* Sessions and methods                                                    *)

Session(sp, auth, pin, methods) ==
  <<[sp |-> sp, auth |-> auth, pin |-> pin, methods |-> methods]>>
(* A handler that returns an error before it opens a session.              *)
Invalid == Session("none", Anybody, Raw(Empty), <<>>)

(* The methods that handlers call, and the sessions they call them in.     *)
Methods ==
  [op : {"read", "inactive", "isRange", "revert"}]
  \cup [op : {"revertSP"}, keep : BOOLEAN]
  \cup [op : {"activate"}, sum : SUBSET Ranges]
  \cup [op : {"setPIN"}, auth : Authorities, pin : Pins]
  \cup [op : {"enable"}, auth : Users]
  \cup [op : {"setMBR"}, name : {"Done", "Enable"}, value : BOOLEAN]
  \cup [op : {"genKey", "erase"}, range : Ranges]
  \cup [op : {"setRange"}, range : Ranges, place : SUBSET Places, guardOf : SUBSET Modes,
        guard : SUBSET Modes, lockOf : SUBSET Modes, lock : SUBSET Modes]

Sessions == [sp : {"Admin", "Locking", "none"}, auth : Authorities \cup {Anybody},
             pin : Pins, methods : Seq(Methods)]

(* DtaHashPwd: the empty password is never hashed, none is with -n.        *)
HashPwd(j, pw) == [pw |-> pw, hashed |-> pw # Empty /\ ~j.n]

Read            == [op |-> "read"]
Inactive        == [op |-> "inactive"]
Activate(rs)    == [op |-> "activate", sum |-> rs]
SetPIN(a, pin)  == [op |-> "setPIN", auth |-> a, pin |-> pin]
SetMBR(name, v) == [op |-> "setMBR", name |-> name, value |-> v]
GenKey(r)       == [op |-> "genKey", range |-> r]
RevertSP(keep)  == [op |-> "revertSP", keep |-> keep]
SetRange(r, place, guardOf, guard, lockOf, lock) ==
  [op |-> "setRange", range |-> r, place |-> place, guardOf |-> guardOf,
   guard |-> guard, lockOf |-> lockOf, lock |-> lock]

(* A session of the LockingSP, with Admin1's password.                     *)
ByAdmin1(j, methods) == Session("Locking", Admin1, HashPwd(j, j.pw), methods)

-----------------------------------------------------------------------------
(* The handlers                                                            *)

(* Definitions whose names end in an underscore and a word are faulty      *)
(* variants of the definition that follows them, kept to show that the     *)
(* properties notice the fault (_SUM is the code's own suffix).            *)

setSIDPassword(j, old, new) ==
  Session("Admin", SID, old, <<SetPIN(SID, HashPwd(j, new))>>)

(* The MSID is read in an anonymous session, and sent back unhashed.       *)
takeOwnership(j) ==
  Session("Admin", Anybody, Raw(Empty), <<Read>>)
  \o setSIDPassword(j, Raw(MSID), j.pw)

activateLockingSP_Unhashed(j) ==
  Session("Admin", SID, Raw(j.pw), <<Inactive, Activate({})>>)
activateLockingSP(j) ==
  Session("Admin", SID, HashPwd(j, j.pw), <<Inactive, Activate({})>>)

activateLockingSP_SUM_Unhashed(j) ==
  Session("Admin", SID, Raw(j.pw), <<Inactive, Activate({j.range})>>)
activateLockingSP_SUM(j) ==
  Session("Admin", SID, HashPwd(j, j.pw), <<Inactive, Activate({j.range})>>)

configureLockingRange(j, r, guard) ==
  ByAdmin1(j, <<SetRange(r, {}, Modes, guard, {}, {})>>)

(* ARCHIVELOCKED and ARCHIVEUNLOCKED leave WriteLocked alone.              *)
LockOf(ls) == IF ls \in {"ARCHIVELOCKED", "ARCHIVEUNLOCKED"} THEN {"read"} ELSE Modes
Lock(ls)   == IF ls \in {"LK", "ARCHIVELOCKED"} THEN Modes
                  ELSE IF ls = "RW" THEN {} ELSE {"write"}

setLockingRange(j, r, lockingstate) ==
  ByAdmin1(j, <<SetRange(r, {}, {}, {}, LockOf(lockingstate),
                         Lock(lockingstate) \cap LockOf(lockingstate))>>)

(* In single user mode the range's user does it, and enables locking, too. *)
setLockingRange_SUM(j, pw, lockingstate) ==
  IF lockingstate \in {"RW", "RO", "LK"}
  THEN Session("Locking", Owner(j.range), HashPwd(j, pw),
               <<SetRange(j.range, {}, Modes, Modes, Modes, Lock(lockingstate))>>)
  ELSE Invalid

setMBRDone(j, on) == ByAdmin1(j, <<SetMBR("Done", on)>>)

setMBREnable_Bare(j, on) == ByAdmin1(j, <<SetMBR("Enable", on)>>)
setMBREnable(j, on) ==
  setMBRDone(j, TRUE) \o ByAdmin1(j, <<SetMBR("Enable", on)>>)

(* getTable of ActiveKey, then GenKey of the key it named.                 *)
rekeyLockingRange_AsUser(j) ==
  Session("Locking", Owner(j.range), HashPwd(j, j.pw), <<Read, GenKey(j.range)>>)
rekeyLockingRange(j) == ByAdmin1(j, <<Read, GenKey(j.range)>>)

setupLockingRange_Unkeyed(j) ==
  IF j.range < 1 THEN Invalid
  ELSE ByAdmin1(j, <<SetRange(j.range, {j.place}, Modes, {}, Modes, {})>>)
setupLockingRange(j) ==
  IF j.range < 1 THEN Invalid
  ELSE ByAdmin1(j, <<SetRange(j.range, {j.place}, Modes, {}, Modes, {})>>)
       \o rekeyLockingRange(j)

(* The same in single user mode, locking enabled, and with the rekeying of *)
(* rekeyLockingRange_SUM.                                                  *)
setupLockingRange_SUM(j, pw) ==
  IF j.range < 1 THEN Invalid
  ELSE Session("Locking", Owner(j.range), HashPwd(j, pw),
               <<SetRange(j.range, {j.place}, Modes, Modes, Modes, {})>>)
       \o Session("Locking", Owner(j.range), HashPwd(j, pw),
                  <<Read, GenKey(j.range)>>)

eraseLockingRange_SUM(j) == ByAdmin1(j, <<[op |-> "erase", range |-> j.range]>>)

(* A method on the user that the command names.  getAuth4User knows only   *)
(* names that begin with User or Admin, and looks once Admin1 is in.       *)
OnUser(j, m) ==
  IF j.user = Anybody THEN ByAdmin1(j, <<>>) \o Invalid ELSE ByAdmin1(j, <<m>>)

setPassword(j) == OnUser(j, SetPIN(j.user, HashPwd(j, j.new)))

(* setNewPassword_SUM: the user changes its own password.  An unknown name *)
(* is found out before the session is started.                             *)
setNewPassword_SUM_Rekeyed(j, user, pw) ==
  IF user = Anybody THEN Invalid
  ELSE Session("Locking", user, HashPwd(j, pw), <<SetPIN(user, HashPwd(j, pw))>>)
setNewPassword_SUM(j, user, pw) ==
  IF user = Anybody THEN Invalid
  ELSE Session("Locking", user, HashPwd(j, pw), <<SetPIN(user, HashPwd(j, j.new))>>)

enableUser(j) == OnUser(j, [op |-> "enable", auth |-> j.user])

(* keep asks the drive to keep the key of the global range.                *)
revertLockingSP(j, keep) == ByAdmin1(j, <<RevertSP(keep)>>)

(* The PSID is sent as entered, the SID's password is hashed.              *)
revertTPer_Hashed(j, psid) ==
  Session("Admin", IF psid THEN PSIDOwner ELSE SID, HashPwd(j, j.pw),
          <<[op |-> "revert"]>>)
revertTPer(j, psid) ==
  Session("Admin", IF psid THEN PSIDOwner ELSE SID,
          IF psid THEN Raw(j.pw) ELSE HashPwd(j, j.pw), <<[op |-> "revert"]>>)

initialSetup_Unshadowed(j) ==
  takeOwnership(j) \o activateLockingSP(j)
  \o configureLockingRange(j, 0, {}) \o setLockingRange(j, 0, "RW")
  \o setMBRDone(j, TRUE)
initialSetup(j) ==
  takeOwnership(j) \o activateLockingSP(j)
  \o configureLockingRange(j, 0, {}) \o setLockingRange(j, 0, "RW")
  \o setMBRDone(j, TRUE) \o setMBREnable(j, TRUE)

(* getLockingRange_status, whose answer setup_SUM compares with what it    *)
(* was asked for: if it differs, the range is set up again.                *)
getLockingRange_status(j) == ByAdmin1(j, <<[op |-> "isRange"]>>)

(* d is what Discovery 0 reported when the process started (disk_info): no *)
(* single user mode, or a LockingSP that was activated without it.         *)
SumRefused(d) == ~({"Locking", "SingleUser"} \subseteq Features) \/ (d.active /\ d.sum = {})

setup_SUM_Unerased(j, d) ==
  IF SumRefused(d) THEN Invalid
  ELSE (IF d.active THEN <<>>
        ELSE takeOwnership(j) \o activateLockingSP_SUM(j) \o setupLockingRange_SUM(j, Empty))
       \o getLockingRange_status(j)
       \o setLockingRange_SUM(j, Empty, "RW") \o setNewPassword_SUM(j, Owner(j.range), Empty)
setup_SUM(j, d) ==
  IF SumRefused(d) THEN Invalid
  ELSE (IF d.active THEN <<>>
        ELSE takeOwnership(j) \o activateLockingSP_SUM(j) \o setupLockingRange_SUM(j, Empty))
       \o eraseLockingRange_SUM(j) \o getLockingRange_status(j)
       \o setLockingRange_SUM(j, Empty, "RW") \o setNewPassword_SUM(j, Owner(j.range), Empty)

-----------------------------------------------------------------------------
(* The commands of sedutil.cpp                                             *)

NoJob == [cmd |-> "none", n |-> FALSE, pw |-> Empty, new |-> Empty, user |-> Anybody,
          range |-> 0, place |-> Nowhere, on |-> FALSE, guard |-> {}, lock |-> "RW"]

CommandNames ==
  {"initialSetup", "takeOwnership", "setSIDPassword", "activateLockingSP",
   "activateLockingSP_SUM", "configureLockingRange", "setLockingRange", "setLockingRange_SUM",
   "setMBRDone", "setMBREnable", "rekeyLockingRange", "setupLockingRange",
   "setupLockingRange_SUM", "eraseLockingRange_SUM", "setPassword", "setNewPassword_SUM",
   "enableUser", "revertLockingSP", "revertNoErase", "revertTPer", "PSIDrevert", "setup_SUM"}

LockingStates == {"RW", "RO", "LK", "ARCHIVELOCKED", "ARCHIVEUNLOCKED"}
Guards == {{}, {"write"}, Modes}  \* disable-, readonly- and enableLockingRange

(* A command with its password, and what else it is given.                 *)
Given(c, pw)            == [NoJob EXCEPT !.cmd = c, !.pw = pw]
Renewing(c, pw, new)    == [Given(c, pw) EXCEPT !.new = new]
ForUser(c, pw, new, u)  == [Renewing(c, pw, new) EXCEPT !.user = u]
Switching(c, pw, b)     == [Given(c, pw) EXCEPT !.on = b]
OnRange(c, pw, r)       == [Given(c, pw) EXCEPT !.range = r]
Guarding(c, pw, r, g)   == [OnRange(c, pw, r) EXCEPT !.guard = g]
Setting(c, pw, r, l)    == [OnRange(c, pw, r) EXCEPT !.lock = l]
Placing(c, pw, r, x)    == [OnRange(c, pw, r) EXCEPT !.place = x]
SettingUp(c, pw, new, r, x) == [Placing(c, pw, r, x) EXCEPT !.new = new]

(* The arguments of a command; the rest of the record keeps its default.   *)
(* Anybody is a user whose name begins with neither User nor Admin.        *)
Arguments(c) ==
  CASE c \in {"initialSetup", "takeOwnership", "activateLockingSP", "revertLockingSP",
              "revertNoErase", "revertTPer", "PSIDrevert"} -> {Given(c, pw) : pw \in Passwords}
    [] c = "setSIDPassword" -> {Renewing(c, pw, new) : pw, new \in Passwords}
    [] c \in {"activateLockingSP_SUM", "eraseLockingRange_SUM", "rekeyLockingRange"} ->
         {OnRange(c, pw, r) : pw \in Passwords, r \in Ranges}
    [] c \in {"setMBRDone", "setMBREnable"} ->
         {Switching(c, pw, b) : pw \in Passwords, b \in BOOLEAN}
    [] c = "configureLockingRange" ->
         {Guarding(c, pw, r, g) : pw \in Passwords, r \in Ranges, g \in Guards}
    [] c \in {"setLockingRange", "setLockingRange_SUM"} ->
         {Setting(c, pw, r, l) : pw \in Passwords, r \in Ranges, l \in LockingStates}
    [] c \in {"setupLockingRange", "setupLockingRange_SUM"} ->
         {Placing(c, pw, r, x) : pw \in Passwords, r \in Ranges, x \in Places}
    [] c = "enableUser" ->
         {ForUser(c, pw, Empty, u) : pw \in Passwords, u \in Users \cup {Anybody}}
    [] c \in {"setPassword", "setNewPassword_SUM"} ->
         {ForUser(c, pw, new, u) : pw, new \in Passwords, u \in Users \cup {Admin1, Anybody}}
    [] c = "setup_SUM" ->
         {SettingUp(c, pw, new, r, x) :
            pw, new \in Passwords, r \in Ranges, x \in Places}

(* main: the handler that runs the command.                                *)
Handler(j, d) ==
  CASE j.cmd = "initialSetup"          -> initialSetup(j)
    [] j.cmd = "takeOwnership"         -> takeOwnership(j)
    [] j.cmd = "setSIDPassword"        -> setSIDPassword(j, HashPwd(j, j.pw), j.new)
    [] j.cmd = "activateLockingSP"     -> activateLockingSP(j)
    [] j.cmd = "activateLockingSP_SUM" -> activateLockingSP_SUM(j)
    [] j.cmd = "configureLockingRange" -> configureLockingRange(j, j.range, j.guard)
    [] j.cmd = "setLockingRange"       -> setLockingRange(j, j.range, j.lock)
    [] j.cmd = "setLockingRange_SUM"   -> setLockingRange_SUM(j, j.pw, j.lock)
    [] j.cmd = "setMBRDone"            -> setMBRDone(j, j.on)
    [] j.cmd = "setMBREnable"          -> setMBREnable(j, j.on)
    [] j.cmd = "rekeyLockingRange"     -> rekeyLockingRange(j)
    [] j.cmd = "setupLockingRange"     -> setupLockingRange(j)
    [] j.cmd = "setupLockingRange_SUM" -> setupLockingRange_SUM(j, j.pw)
    [] j.cmd = "eraseLockingRange_SUM" -> eraseLockingRange_SUM(j)
    [] j.cmd = "setPassword"           -> setPassword(j)
    [] j.cmd = "setNewPassword_SUM"    -> setNewPassword_SUM(j, j.user, j.pw)
    [] j.cmd = "enableUser"            -> enableUser(j)
    [] j.cmd = "revertLockingSP"       -> revertLockingSP(j, FALSE)
    [] j.cmd = "revertNoErase"         -> revertLockingSP(j, TRUE)
    [] j.cmd = "revertTPer"            -> revertTPer(j, FALSE)
    [] j.cmd = "PSIDrevert"            -> revertTPer(j, TRUE)
    [] j.cmd = "setup_SUM"             -> setup_SUM(j, d)
=============================================================================
