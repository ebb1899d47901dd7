--------------------------- MODULE DtaDevEnterprise ---------------------------
(***************************************************************************)
(* The provisioning commands of an Enterprise drive.  One command of       *)
(* sedutil runs after another; its steps are the exchanges of the sessions *)
(* its handler opens (EnterpriseHandlers), so that an error, a ^C or a     *)
(* power cut may come between any two of them.  Unlike those of DtaDevOpal *)
(* the handlers do not all stop at the first error.                        *)
(***************************************************************************)
EXTENDS EnterpriseHandlers

CONSTANTS
  Commands,  \* the commands that are run: the names of the handlers
  Entered,   \* the passwords given to them
  NoHash     \* whether option -n may be given: a subset of BOOLEAN

ASSUME CommandAssumption == Commands \subseteq CommandNames
ASSUME HashAssumption    == NoHash \subseteq BOOLEAN
ASSUME EnteredAssumption == Empty \in Entered /\ Entered \subseteq Passwords

VARIABLES
  drive,  \* the drive
  taken,  \* the drive has a session open
  job,    \* the command that runs
  state,  \* idle; running; session (one is open); ok, err or killed
  todo,   \* the sessions the command has still to open or to finish
  seen,   \* listLockingRanges: "one" band was listed, or one has "failed"
  was,    \* history: the drive when the command was launched
  fault   \* history: an exchange of the command failed for another reason
          \* than the drive refusing it

vars == <<drive, taken, job, state, todo, seen, was, fault>>

-----------------------------------------------------------------------------
(* Types                                                                   *)

Jobs == {[j EXCEPT !.n = n] :
           j \in {k \in UNION {Arguments(c) : c \in Commands} : {k.pw, k.new} \subseteq Entered},
           n \in NoHash}

(* The authorities a command may name, whether or not the drive has them.  *)
Claimed == Authorities \cup {Anybody} \cup {Master(b) : b \in Bands \cup Named}

Methods ==
  [op : {"read", "info", "infoOpal", "revert"}]
  \cup [op : {"setPIN"}, auth : Claimed, pin : Pins]
  \cup [op : {"genKey", "erase", "enable"}, band : Int]
  \cup [op : {"setBand"}, band : Int, place : SUBSET Places, guardOf : SUBSET Modes,
        guard : SUBSET Modes, lockOf : SUBSET Modes, lock : SUBSET Modes,
        reset : SUBSET BOOLEAN]

Sessions == [sp : {"Admin", "Locking", "none"},
             auth : Claimed, pin : Pins, methods : Seq(Methods),
             err : {"return", "skip", "opal", "list"}]

TypeOK ==
  /\ drive \in Drives
  /\ taken \in BOOLEAN
  /\ job \in Jobs \cup {NoJob}
  /\ state \in {"idle", "running", "session", "ok", "err", "killed"}
  /\ todo \in Seq(Sessions)
  /\ seen \in {"none", "one", "failed"}
  /\ was \in Drives
  /\ fault \in BOOLEAN

Init ==
  /\ drive \in {Factory(i) : i \in {"enterprise", "opal", "none"}}
  /\ taken = FALSE
  /\ job = NoJob
  /\ state = "idle"
  /\ todo = <<>>
  /\ seen = "none"
  /\ was = drive
  /\ fault = FALSE

-----------------------------------------------------------------------------
(* The steps of a command                                                  *)

Runs == state \in {"running", "session"}
Here == Head(todo)

(* The process is gone, and its arguments with it.                         *)
Ends(result) ==
  /\ state' = result
  /\ job' = NoJob
  /\ todo' = <<>>
  /\ seen' = "none"
  /\ was' = drive'

(* sedutil starts, and the command is dispatched.                          *)
Launch ==
  /\ ~Runs
  /\ \E j \in Jobs : job' = j /\ todo' = Handler(j)
  /\ state' = "running"
  /\ was' = drive
  /\ fault' = FALSE
  /\ UNCHANGED <<drive, taken, seen>>

(* All sessions are done.  listLockingRanges returns an error if no band   *)
(* was listed and a session could not be opened.                           *)
Return ==
  /\ state = "running" /\ todo = <<>>
  /\ UNCHANGED <<drive, taken, fault>>
  /\ Ends(IF seen = "failed" THEN "err" ELSE "ok")

(* The rest of the handler, after the session.                             *)
GoesOn(rest) ==
  /\ state' = "running"
  /\ todo' = rest
  /\ UNCHANGED <<job, was>>

(* An error: what follows depends on where it happened.                    *)
StartError_Unnoted ==
  IF Here.err \in {"skip", "list"}
  THEN GoesOn(Tail(todo)) /\ UNCHANGED seen
  ELSE Ends("err")
StartError ==
  IF Here.err \in {"skip", "list"}
  THEN /\ GoesOn(Tail(todo))
       /\ seen' = IF Here.err = "list" /\ seen = "none" THEN "failed" ELSE seen
  ELSE Ends("err")

CallError ==
  IF Here.err = "return" THEN Ends("err")
  ELSE /\ GoesOn((IF Here.err = "opal" THEN getMaxRangesOpal ELSE <<>>) \o Tail(todo))
       /\ UNCHANGED seen

(* session->start succeeds.                                                *)
Start ==
  /\ state = "running" /\ todo # <<>> /\ Here.sp # "none"
  /\ ~taken /\ Admits(drive, Here)
  /\ taken' = TRUE
  /\ state' = "session"
  /\ UNCHANGED <<drive, job, todo, seen, was, fault>>

(* The handler refuses its arguments, or the drive the session.            *)
Refused ==
  /\ state = "running" /\ todo # <<>>
  /\ Here.sp = "none" \/ (~taken /\ ~Admits(drive, Here))
  /\ UNCHANGED <<drive, taken, fault>>
  /\ StartError

(* A session that was never ended has the drive's only slot.               *)
Busy ==
  /\ state = "running" /\ todo # <<>> /\ Here.sp # "none" /\ taken
  /\ fault' = TRUE
  /\ UNCHANGED <<drive, taken>>
  /\ StartError

(* A method succeeds.  A revert ends the session, and the command with it. *)
Call ==
  /\ state = "session" /\ Here.methods # <<>>
  /\ LET m == Head(Here.methods) IN
       /\ Permits(drive, Here.auth, m)
       /\ drive' = Performed(drive, m)
       /\ IF m.op = "revert"
          THEN Ends("ok") /\ taken' = FALSE
          ELSE /\ todo' = <<[Here EXCEPT !.methods = Tail(@)]>> \o Tail(todo)
               /\ seen' = IF Here.err = "list" THEN "one" ELSE seen
               /\ UNCHANGED <<state, job, was, taken>>
  /\ UNCHANGED fault

(* A method is refused; the handler deletes the session.                   *)
CallRefused ==
  /\ state = "session" /\ Here.methods # <<>>
  /\ ~Permits(drive, Here.auth, Head(Here.methods))
  /\ taken' = FALSE
  /\ UNCHANGED <<drive, fault>>
  /\ CallError

(* delete session: the next session follows.                               *)
Close ==
  /\ state = "session" /\ Here.methods = <<>>
  /\ taken' = FALSE
  /\ GoesOn(Tail(todo))
  /\ UNCHANGED <<drive, seen, fault>>

(* The destructor ignores an error of EndSession; the session may stay.    *)
CloseFails ==
  /\ state = "session" /\ Here.methods = <<>>
  /\ GoesOn(Tail(todo))
  /\ fault' = TRUE
  /\ UNCHANGED <<drive, taken, seen>>

(* The transport fails: the drive may or may not have opened the session.  *)
StartFails ==
  /\ state = "running" /\ todo # <<>> /\ Here.sp # "none"
  /\ taken' \in {taken, taken \/ Admits(drive, Here)}
  /\ fault' = TRUE
  /\ UNCHANGED drive
  /\ StartError

(* The transport fails, before the drive has done it or after.             *)
CallFails ==
  /\ state = "session" /\ Here.methods # <<>>
  /\ LET m == Head(Here.methods) IN
       drive' \in {drive} \cup
         IF Permits(drive, Here.auth, m) THEN {Performed(drive, m)} ELSE {}
  /\ taken' \in BOOLEAN
  /\ fault' = TRUE
  /\ CallError

(* ^C, or the exit() of a DtaResponse getter: the session is not ended.    *)
Interrupt ==
  /\ Runs
  /\ fault' = TRUE
  /\ UNCHANGED <<drive, taken>>
  /\ Ends("killed")

(* The drive ends a session that nobody uses: start() asks it to.          *)
SessionTimeout ==
  /\ taken /\ state # "session"
  /\ taken' = FALSE
  /\ UNCHANGED <<drive, job, state, todo, seen, was, fault>>

PowerCycle ==
  /\ drive' = PoweredUp(drive)
  /\ taken' = FALSE
  /\ fault' = (fault \/ Runs)
  /\ Ends(IF Runs THEN "killed" ELSE state)

Next ==
  \/ Launch \/ Return
  \/ Start \/ Refused \/ Busy \/ StartFails
  \/ Call \/ CallRefused \/ CallFails
  \/ Close \/ CloseFails
  \/ Interrupt \/ SessionTimeout \/ PowerCycle

Spec == Init /\ [][Next]_vars

-----------------------------------------------------------------------------
(* Properties                                                              *)

Returns(result) == Runs /\ state' = result

(* takeOwnership has given its password to the SID, the EraseMaster and    *)
(* BandMaster0.  The other masters that may log in with the MSID have it,  *)
(* too, unless an exchange has failed: then initLSPUsers has passed over   *)
(* them, and it returns 0 all the same.                                    *)
Owned(d0, d, pin, faulty) ==
  /\ \A a \in {SID, EraseMaster, BandMaster(0)} : d.pin[a] = pin
  /\ \A b \in d0.enabled :
       d0.pin[BandMaster(b)] = Raw(MSID) => faulty \/ d.pin[BandMaster(b)] = pin

(* What the command promises of the drive d it leaves; d0 is what it found.*)
Done(j, d0, d, faulty) ==
  LET pin == HashPwd(j, j.pw) IN
  CASE j.cmd = "initialSetup" ->
         /\ Owned(d0, d, pin, faulty)
         /\ d.guard[0] = Modes /\ d.locked[0] = {} /\ 0 \in d.reset
    [] j.cmd = "takeOwnership" ->
         Owned(d0, d, pin, faulty) /\ d = [d0 EXCEPT !.pin = d.pin]
    [] j.cmd = "setSIDPassword" -> d = [d0 EXCEPT !.pin[SID] = HashPwd(j, j.new)]
    [] j.cmd = "setPassword" -> d = [d0 EXCEPT !.pin[j.user] = OrMSID(j, j.new)]
    [] j.cmd = "configureLockingRange" -> d.guard[j.band] = j.guard
    [] j.cmd = "setLockingRange" -> d.locked[j.band] = IF j.lock = "LK" THEN Modes ELSE {}
    [] j.cmd = "setupLockingRange" ->
         d.place[j.band] = j.place /\ d.guard[j.band] = {} /\ d.locked[j.band] = {}
    [] j.cmd = "rekeyLockingRange" -> j.band \notin d.stale \ Plain
    [] j.cmd = "eraseLockingRange" ->
         /\ d.guard[j.band] = {} /\ j.band \notin d.stale
         /\ d.pin[BandMaster(j.band)] = Raw(MSID)
    [] j.cmd = "setBandsEnabled" -> d = [d0 EXCEPT !.enabled = Bands]
    [] j.cmd = "setBandEnabled"  -> d = [d0 EXCEPT !.enabled = @ \cup {j.band}]
    [] j.cmd \in {"listLockingRanges", "listLockingRange"} -> d = d0 /\ (faulty \/ seen = "one")
    [] j.cmd \in {"revertLockingSP", "revertNoErase", "revertTPer", "PSIDrevert"} ->
         d = Factory(d0.info)
    [] j.cmd \in Ignored -> d = d0

(* A command that returns 0 has done all it promises, although some errors *)
(* are passed over on the way, and whatever state the commands, errors, ^C *)
(* and power cuts before it have left the drive in.  (Handlers the SSC has *)
(* no use for return 0, too; all one can say of them is that the drive is  *)
(* as it was.)                                                             *)
SuccessMeansDone == [][Returns("ok") => Done(job, was, drive', fault)]_vars

(* A factory-fresh set of masters: takeOwnership cannot stop half-way.     *)
Fresh(d) ==
  d.info # "none" /\ \A a \in {SID, EraseMaster, BandMaster(0)} : d.pin[a] = Raw(MSID)

(* Every command that fails although no exchange failed has left the drive *)
(* as it found it.  The exception is the taking of ownership on a drive on *)
(* which another master than the SID has its own password already, or      *)
(* which does not tell its MaxRanges: it changes the SID's before it finds *)
(* out.                                                                    *)
CleanFailureIsAtomic ==
  [][Returns("err") /\ ~fault'
     /\ (job.cmd \in {"initialSetup", "takeOwnership"} =>
           Fresh(was) /\ 0 \in was.enabled /\ MaxRanges > 0)
     => drive' = was]_vars

(* A takeOwnership that was interrupted cannot be run again, but each      *)
(* master it has not reached can be given its password: setPassword with   *)
(* the empty old password is refused to no master that has the MSID and    *)
(* may log in.                                                             *)
MSIDFinishes ==
  [][Returns("err") /\ ~fault' /\ job.cmd = "setPassword" /\ job.pw = Empty
     /\ job.user \in Authorities
     /\ (job.user[1] = "BandMaster" => job.user[2] \in was.enabled)
     => was.pin[job.user] # Raw(MSID)]_vars

(* The text on the drive's label brings it back whatever happened before.  *)
PSIDRecovers ==
  [][Returns("err") /\ ~fault' /\ job.cmd = "PSIDrevert" => job.pw # PSID]_vars

(* LockOnReset is written by two handlers, Read- and WriteLockEnabled by   *)
(* the same two, and Erase by the drive: a band whose locking is enabled   *)
(* always has LockOnReset, so that it is shut after a power cycle.         *)
GuardedBandLocks == \A b \in Bands : drive.guard[b] # {} => b \in drive.reset

(* '"EraseMaster" or "BandMaster<n>", 0 <= n <= 1023' (DtaOptions.cpp:77): *)
(* setPassword changes the PIN of the master it was given and no other.    *)
OnlyNamedMaster ==
  [][\A b \in Bands :
       job.cmd = "setPassword" /\ job.user[1] = "BandMaster"
       /\ drive'.pin[BandMaster(b)] # drive.pin[BandMaster(b)] => b = job.band]_vars
=============================================================================
