----------------------------- MODULE UnlockSEDs -----------------------------
(***************************************************************************)
(* The pre-boot authorisation (LinuxPBA): power comes on, the user types a *)
(* pass-phrase, and every drive found in /dev is tried with it.  A drive   *)
(* is opened with two handlers of DtaDevOpal, each of one session with one *)
(* method, so a handler is one step: it succeeds, is refused, or fails.    *)
(***************************************************************************)
EXTENDS OpalHandlers

CONSTANTS
  Devices,      \* how many sd and nvme names /dev has; they are tried in order
  Typed,        \* the pass-phrases a user types
  Provisioned   \* the drives a user may have at home, as the commands of
                \* DtaDevOpal have left them; Factory is one of them

ASSUME DeviceAssumption == Devices \in Nat
ASSUME TypedAssumption  == Typed \subseteq Passwords
ASSUME ProvisionedAssumption == Factory \in Provisioned /\ \A d \in Provisioned : Sane(d)

VARIABLES
  kind,    \* what is behind each name: opal, another device, or absent:
           \* a name that cannot be opened (a card reader without a card)
  drive,   \* the Opal drive behind it
  taken,   \* drives with a session nobody will end
  phase,   \* off; scan; unlock; os: the reboot; gone: the process aborted
  typed,   \* the pass-phrase
  at,      \* the device of this turn of the loop
  todo,    \* the handlers still to be called for it
  failed,  \* the flag of the loop
  report,  \* what was printed about each device
  fault    \* history: devices with which an exchange failed

loopVars == <<typed, at, todo, failed, report>>
vars     == <<kind, drive, taken, phase, loopVars, fault>>

-----------------------------------------------------------------------------
(* The drives                                                              *)

(* LockingFeature of Discovery 0: some range is locked.                    *)
Locked(d) == \E r \in Ranges : d.guard[r] \cap d.locked[r] # {}

Init ==
  /\ kind \in [1..Devices -> {"opal", "other", "absent"}]
  /\ drive \in [1..Devices -> {PoweredUp(d) : d \in Provisioned}]
  /\ \A i \in 1..Devices : kind[i] # "opal" => drive[i] = Factory
  /\ taken = {}
  /\ phase = "off"
  /\ typed = Empty /\ at = 1 /\ todo = <<>> /\ failed = FALSE
  /\ report = [i \in 1..Devices |-> "none"]
  /\ fault = {}

-----------------------------------------------------------------------------
(* The loop                                                                *)

Boot ==
  /\ phase = "off"
  /\ phase' = "scan"
  /\ typed' \in Typed
  /\ UNCHANGED <<kind, drive, taken, at, todo, failed, report, fault>>

(* The loop ends after the last device, and at one that is not present.    *)
LoopEnds_AtOther == at <= Devices => kind[at] # "opal"
LoopEnds == at <= Devices => kind[at] = "absent"

StartOS ==
  /\ phase = "scan" /\ LoopEnds
  /\ phase' = "os"
  /\ UNCHANGED <<kind, drive, taken, loopVars, fault>>

(* One line is printed, and the loop goes on.                              *)
Prints(line) ==
  /\ report' = [report EXCEPT ![at] = line]
  /\ at' = at + 1
  /\ phase' = "scan"
  /\ UNCHANGED <<kind, drive, taken, typed, todo, failed>>

Tries == phase = "scan" /\ ~LoopEnds

NotOpal == Tries /\ kind[at] = "other" /\ Prints("not OPAL") /\ UNCHANGED fault

(* A failed Discovery 0 leaves disk_info zero, as if there were no Opal.   *)
DiscoveryFails ==
  /\ Tries /\ kind[at] = "opal"
  /\ Prints("not OPAL") /\ fault' = fault \cup {at}

(* Discovery 0 is repeated for the object that unlocks, and must succeed:  *)
(* assert(isOpal2()).                                                      *)
Aborts ==
  /\ Tries /\ kind[at] = "opal"
  /\ phase' = "gone" /\ fault' = fault \cup {at}
  /\ UNCHANGED <<kind, drive, taken, loopVars>>

NotLocked ==
  /\ Tries /\ kind[at] = "opal" /\ ~Locked(drive[at])
  /\ Prints("NOT LOCKED") /\ UNCHANGED fault

(* The pass-phrase is always hashed (no_hash_passwords = false).           *)
Unlocking(d) ==
  LET j == [NoJob EXCEPT !.pw = typed] IN
  (IF d.mbrEnable THEN setMBRDone(j, TRUE) ELSE <<>>) \o setLockingRange(j, 0, "RW")

(* failed when the next drive is tried.                                    *)
Fresh_Kept == failed
Fresh == FALSE

Unlock ==
  /\ Tries /\ kind[at] = "opal" /\ Locked(drive[at])
  /\ phase' = "unlock"
  /\ todo' = Unlocking(drive[at])
  /\ failed' = Fresh
  /\ UNCHANGED <<kind, drive, taken, typed, at, report, fault>>

(* failed after a handler has returned rc: the loop body goes on.          *)
Failed_Last(rc) == rc # 0
Failed(rc) == failed \/ rc # 0

Method == Head(Head(todo).methods)
Accepts ==
  /\ at \notin taken /\ Admits(drive[at], Head(todo))
  /\ Permits(drive[at], Head(todo).auth, Method)

Returns(rc) ==
  /\ phase = "unlock" /\ todo # <<>>
  /\ todo' = Tail(todo)
  /\ failed' = Failed(rc)
  /\ UNCHANGED <<kind, phase, typed, at, report>>

Acted == drive' = [drive EXCEPT ![at] = Performed(@, Method)]

Succeeds == Returns(0) /\ Accepts /\ Acted /\ UNCHANGED <<taken, fault>>

Refused == Returns(1) /\ ~Accepts /\ UNCHANGED <<drive, taken, fault>>

(* The transport fails: the drive may have acted, and may keep the session.*)
CallFails ==
  /\ Returns(1)
  /\ UNCHANGED drive \/ (Accepts /\ Acted)
  /\ taken' \in {taken, taken \cup {at}}
  /\ fault' = fault \cup {at}

(* Only EndSession fails, which the destructor ignores.                    *)
CloseFails ==
  /\ Returns(0) /\ Accepts /\ Acted
  /\ taken' = taken \cup {at}
  /\ fault' = fault \cup {at}

Reports ==
  /\ phase = "unlock" /\ todo = <<>>
  /\ Prints(IF failed THEN "Failed" ELSE "Unlocked")
  /\ UNCHANGED fault

(* The power goes, at any moment.                                          *)
PowerOff ==
  /\ phase # "off"
  /\ phase' = "off"
  /\ drive' = [i \in 1..Devices |-> PoweredUp(drive[i])]
  /\ taken' = {}
  /\ typed' = Empty /\ at' = 1 /\ todo' = <<>> /\ failed' = FALSE
  /\ report' = [i \in 1..Devices |-> "none"]
  /\ fault' = {}
  /\ UNCHANGED kind

Next ==
  \/ Boot \/ StartOS \/ NotOpal \/ DiscoveryFails \/ Aborts \/ NotLocked
  \/ Unlock \/ Succeeds \/ Refused \/ CallFails \/ CloseFails \/ Reports
  \/ PowerOff

Spec == Init /\ [][Next]_vars

-----------------------------------------------------------------------------
(* Properties                                                              *)

Shadowed(d) == d.mbrEnable /\ ~d.mbrDone
Opens(pw, d) == d.pin[Admin1] = [pw |-> pw, hashed |-> pw # Empty]

(* "is OPAL Unlocked" (UnlockSEDs.cpp:88) is true of the drive it names: a *)
(* failure of either handler is remembered past the success of the other.  *)
(* It says nothing of the ranges but the global one, which stay locked.    *)
UnlockedIsOpen ==
  \A i \in 1..Devices : report[i] = "Unlocked" =>
    drive[i].locked[0] = {} /\ ~Shadowed(drive[i])

(* "is OPAL Failed", with no exchange with the drive failing, is due to    *)
(* the drive it names and not to one before it: it does not have this      *)
(* password (set up with -n, it has none), or Admin1 may not unlock the    *)
(* global range because it is in single user mode.                         *)
FailedIsShut ==
  \A i \in 1..Devices : report[i] = "Failed" /\ i \notin fault =>
    ~Opens(typed, drive[i]) \/ 0 \in drive[i].sum

(* When "Starting OS" is printed, what the pass-phrase can open is open:   *)
(* whatever the other drives are and whatever went wrong with them.  There *)
(* are two exceptions in the loop.  Drives after a name that cannot be     *)
(* opened are not tried, and a drive with no range locked keeps its shadow *)
(* MBR, so that it will boot into the pre-boot system again.               *)
PassPhraseOpens ==
  phase = "os" =>
    \A i \in 1..Devices :
      /\ kind[i] = "opal" /\ i \notin fault
      /\ \A k \in 1..i : kind[k] # "absent"
      /\ Opens(typed, drive[i]) /\ 0 \notin drive[i].sum
      => /\ drive[i].guard[0] \cap drive[i].locked[0] = {}
         /\ Shadowed(drive[i]) => ~Locked(drive[i]) /\ report[i] = "NOT LOCKED"
=============================================================================
