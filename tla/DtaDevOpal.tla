----------------------------- MODULE DtaDevOpal -----------------------------
(***************************************************************************)
(* The provisioning commands of an Opal drive.  A process runs one command *)
(* of sedutil after another; its steps are the exchanges of the sessions   *)
(* its handler opens (OpalHandlers), so that an error, a ^C, a power cut   *)
(* or another process may come between any two of them.  DtaSession models *)
(* an exchange; here it succeeds, is refused by the drive, or fails.       *)
(***************************************************************************)
EXTENDS OpalHandlers

CONSTANTS
  Procs,     \* sedutil processes; each runs one command after another
  NoOne,     \* no process has a session open
  Commands,  \* the commands that are run: the names of DtaDevOpal's handlers
  Entered,   \* the passwords given to them
  NoHash     \* whether option -n may be given: a subset of BOOLEAN

ASSUME NoOneAssumption == NoOne \notin Procs
ASSUME EnteredAssumption == Empty \in Entered /\ Entered \subseteq Passwords
ASSUME CommandAssumption == Commands \subseteq CommandNames
ASSUME HashAssumption  == NoHash \subseteq BOOLEAN

VARIABLES
  drive,   \* the drive
  holder,  \* the process whose session the drive has open
  job,     \* the command each process runs, or ran last
  state,   \* idle; running; session (one is open); ok, err or killed
  todo,    \* the sessions the command has still to open or to finish
  was,     \* history: the drive when the command was launched
  fault    \* history: an exchange of the command failed for another reason
           \* than the drive refusing it

hostVars == <<job, state, todo, was, fault>>
vars     == <<drive, holder, hostVars>>

-----------------------------------------------------------------------------
(* Types                                                                   *)

Jobs == {[j EXCEPT !.n = n] :
           j \in {k \in UNION {Arguments(c) : c \in Commands} : {k.pw, k.new} \subseteq Entered},
           n \in NoHash}

TypeOK ==
  /\ drive \in Drives
  /\ holder \in Procs \cup {NoOne}
  /\ job \in [Procs -> Jobs \cup {NoJob}]
  /\ state \in [Procs -> {"idle", "running", "session", "ok", "err", "killed"}]
  /\ todo \in [Procs -> Seq(Sessions)]
  /\ was \in [Procs -> Drives]
  /\ fault \in [Procs -> BOOLEAN]

Init ==
  /\ drive = Factory
  /\ holder = NoOne
  /\ job = [p \in Procs |-> NoJob]
  /\ state = [p \in Procs |-> "idle"]
  /\ todo = [p \in Procs |-> <<>>]
  /\ was = [p \in Procs |-> Factory]
  /\ fault = [p \in Procs |-> FALSE]

-----------------------------------------------------------------------------
(* The steps of a command                                                  *)

Runs(p) == state[p] \in {"running", "session"}
Here(p) == Head(todo[p])

(* The process is gone, and its arguments with it.                         *)
Ends(p, result) ==
  /\ state' = [state EXCEPT ![p] = result]
  /\ job' = [job EXCEPT ![p] = NoJob]
  /\ todo' = [todo EXCEPT ![p] = <<>>]
  /\ was' = [was EXCEPT ![p] = Factory]

Faulty(p) == fault' = [fault EXCEPT ![p] = TRUE]

(* sedutil starts: Discovery 0 is read, the command is dispatched.         *)
Launch(p) ==
  /\ ~Runs(p)
  /\ \E j \in Jobs :
       /\ job' = [job EXCEPT ![p] = j]
       /\ todo' = [todo EXCEPT ![p] = Handler(j, drive)]
  /\ state' = [state EXCEPT ![p] = "running"]
  /\ was' = [was EXCEPT ![p] = drive]
  /\ fault' = [fault EXCEPT ![p] = FALSE]
  /\ UNCHANGED <<drive, holder>>

(* session->start succeeds.                                                *)
Start(p) ==
  /\ state[p] = "running" /\ Here(p).sp # "none"
  /\ holder = NoOne /\ Admits(drive, Here(p))
  /\ holder' = p
  /\ state' = [state EXCEPT ![p] = "session"]
  /\ UNCHANGED <<drive, job, todo, was, fault>>

(* The handler refuses its arguments, or the drive the session: the error  *)
(* is returned by every handler up to main.                                *)
Refused(p) ==
  /\ state[p] = "running"
  /\ Here(p).sp = "none" \/ (holder = NoOne /\ ~Admits(drive, Here(p)))
  /\ Ends(p, "err")
  /\ UNCHANGED <<drive, holder, fault>>

(* Another process, or one that is gone, has the drive's only session.     *)
Busy(p) ==
  /\ state[p] = "running" /\ Here(p).sp # "none" /\ holder # NoOne
  /\ Ends(p, "err") /\ Faulty(p)
  /\ UNCHANGED <<drive, holder>>

(* What setup_SUM does when the range is not where it should be.           *)
Correction(p, m) ==
  IF m.op = "isRange" /\ drive.place[job[p].range] # job[p].place
  THEN setupLockingRange_SUM(job[p], Empty) ELSE <<>>

Drops(m) == m.op \in {"revert", "revertSP"}

(* A method succeeds.  A revert ends the session, and the command with it. *)
Call(p) ==
  /\ state[p] = "session" /\ Here(p).methods # <<>>
  /\ LET m == Head(Here(p).methods) IN
       /\ Permits(drive, Here(p).auth, m)
       /\ drive' = Performed(drive, m)
       /\ IF Drops(m)
          THEN Ends(p, "ok") /\ holder' = NoOne
          ELSE /\ todo' = [todo EXCEPT ![p] =
                             <<[Here(p) EXCEPT !.methods = Tail(@)]>>
                             \o Correction(p, m) \o Tail(todo[p])]
               /\ UNCHANGED <<state, job, was, holder>>
  /\ UNCHANGED fault

(* A method is refused: the handler deletes the session and returns.       *)
CallRefused(p) ==
  /\ state[p] = "session" /\ Here(p).methods # <<>>
  /\ ~Permits(drive, Here(p).auth, Head(Here(p).methods))
  /\ holder' = NoOne
  /\ Ends(p, "err")
  /\ UNCHANGED <<drive, fault>>

(* delete session: the next session follows, or the command returns 0.     *)
Proceed(p) ==
  IF Len(todo[p]) = 1 THEN Ends(p, "ok")
  ELSE /\ state' = [state EXCEPT ![p] = "running"]
       /\ todo' = [todo EXCEPT ![p] = Tail(@)]
       /\ UNCHANGED <<job, was>>

Close(p) ==
  /\ state[p] = "session" /\ Here(p).methods = <<>>
  /\ holder' = NoOne
  /\ Proceed(p)
  /\ UNCHANGED <<drive, fault>>

(* The destructor ignores an error of EndSession; the session may stay.    *)
CloseFails(p) ==
  /\ state[p] = "session" /\ Here(p).methods = <<>>
  /\ Proceed(p)
  /\ Faulty(p)
  /\ UNCHANGED <<drive, holder>>

(* The transport fails: the drive may or may not have opened the session.  *)
StartFails(p) ==
  /\ state[p] = "running" /\ Here(p).sp # "none"
  /\ holder' \in {holder} \cup
       IF holder = NoOne /\ Admits(drive, Here(p)) THEN {p} ELSE {}
  /\ Ends(p, "err") /\ Faulty(p)
  /\ UNCHANGED drive

(* The transport fails, before the drive has done it or after.             *)
CallFails(p) ==
  /\ state[p] = "session" /\ Here(p).methods # <<>>
  /\ LET m == Head(Here(p).methods) IN
       drive' \in {drive} \cup
         IF Permits(drive, Here(p).auth, m) THEN {Performed(drive, m)} ELSE {}
  /\ holder' \in {NoOne, p}
  /\ Ends(p, "err") /\ Faulty(p)

(* ^C, or the exit() of a DtaResponse getter: the session is not ended.    *)
Interrupt(p) ==
  /\ Runs(p)
  /\ Ends(p, "killed") /\ Faulty(p)
  /\ UNCHANGED <<drive, holder>>

PowerCycle ==
  /\ drive' = PoweredUp(drive)
  /\ holder' = NoOne
  /\ state' = [p \in Procs |-> IF Runs(p) THEN "killed" ELSE state[p]]
  /\ job' = [p \in Procs |-> NoJob]
  /\ todo' = [p \in Procs |-> <<>>]
  /\ was' = [p \in Procs |-> Factory]
  /\ fault' = [p \in Procs |-> fault[p] \/ Runs(p)]

Step(p) ==
  \/ Launch(p)
  \/ Start(p) \/ Refused(p) \/ Busy(p) \/ StartFails(p)
  \/ Call(p) \/ CallRefused(p) \/ CallFails(p)
  \/ Close(p) \/ CloseFails(p)
  \/ Interrupt(p)

Next == PowerCycle \/ \E p \in Procs : Step(p)

Spec == Init /\ [][Next]_vars

-----------------------------------------------------------------------------
(* Properties                                                              *)

Returns(p, result) == Runs(p) /\ state'[p] = result

(* What the command promises of the drive d it leaves; d0 is what it found.*)
Done(j, d0, d) ==
  LET pin == HashPwd(j, j.pw) IN
  CASE j.cmd = "initialSetup" ->
         /\ d.pin[SID] = pin /\ d.active /\ d.sum = {} /\ d.pin[Admin1] = pin
         /\ d.guard[0] = {} /\ d.locked[0] = {} /\ d.mbrDone /\ d.mbrEnable
    [] j.cmd = "takeOwnership"         -> d = [d0 EXCEPT !.pin[SID] = pin]
    [] j.cmd = "setSIDPassword"        -> d = [d0 EXCEPT !.pin[SID] = HashPwd(j, j.new)]
    [] j.cmd = "activateLockingSP"     -> d.active /\ d.sum = {} /\ d.pin[Admin1] = pin
    [] j.cmd = "activateLockingSP_SUM" -> d.active /\ d.sum = {j.range} /\ d.pin[Admin1] = pin
    [] j.cmd = "configureLockingRange" -> d.guard[j.range] = j.guard
    [] j.cmd = "setLockingRange"       ->
         /\ ("read" \in d.locked[j.range]) = (j.lock \in {"LK", "ARCHIVELOCKED"})
         /\ j.lock \in {"RW", "RO", "LK"} =>
              ("write" \in d.locked[j.range]) = (j.lock # "RW")
    [] j.cmd = "setLockingRange_SUM"   ->
         /\ d.guard[j.range] = Modes
         /\ ("read" \in d.locked[j.range]) = (j.lock = "LK")
         /\ ("write" \in d.locked[j.range]) = (j.lock # "RW")
    [] j.cmd = "setMBRDone"            -> d.mbrDone = j.on
    [] j.cmd = "setMBREnable"          -> d.mbrEnable = j.on /\ d.mbrDone
    [] j.cmd = "rekeyLockingRange"     -> j.range \notin d.stale
    [] j.cmd \in {"setupLockingRange", "setupLockingRange_SUM"} ->
         /\ d.place[j.range] = j.place /\ j.range \notin d.stale
         /\ d.guard[j.range] = IF j.cmd = "setupLockingRange" THEN {} ELSE Modes
         /\ d.locked[j.range] = {}
    [] j.cmd = "eraseLockingRange_SUM" -> d.guard[j.range] = {} /\ j.range \notin d.stale
    [] j.cmd \in {"setPassword", "setNewPassword_SUM"} ->
         d = [d0 EXCEPT !.pin[j.user] = HashPwd(j, j.new)]
    [] j.cmd = "enableUser"            -> j.user \in d.enabled
    [] j.cmd \in {"revertLockingSP", "revertNoErase"} -> d = LockingReverted(d0)
    [] j.cmd \in {"revertTPer", "PSIDrevert"} -> d = Factory
    [] j.cmd = "setup_SUM" ->
         /\ d.active /\ j.range \in d.sum /\ d.pin[Admin1] = pin
         /\ d.place[j.range] = j.place /\ j.range \notin d.stale
         /\ d.guard[j.range] = Modes /\ d.locked[j.range] = {}
         /\ d.pin[Owner(j.range)] = HashPwd(j, j.new)

(* A command that returns 0 has done all it promises, whatever state the   *)
(* drive was left in by the commands, errors, ^C and power cuts before it: *)
(* no step of a composite command undoes or skips what an earlier one did. *)
SuccessMeansDone ==
  [][\A p \in Procs : Returns(p, "ok") => Done(job[p], was[p], drive')]_vars

(* Every command that fails although no exchange failed has left the drive *)
(* as it found it: in a composite command only the first session can be    *)
(* refused.  The exception is setup_SUM of the global range.               *)
CleanFailureIsAtomic ==
  [][\A p \in Procs :
       Returns(p, "err") /\ ~fault'[p]
       /\ ~(job[p].cmd = "setup_SUM" /\ job[p].range = 0)
       => drive' = was[p]]_vars

(* "Invalid Locking Range (0-15)" (DtaOptions.cpp:171) rejects a range the *)
(* command cannot handle before anything is done: a setup_SUM it has let   *)
(* through, and which meets no failed exchange, does not stop half-way.    *)
SetupSUMRunsThrough ==
  [][\A p \in Procs :
       Returns(p, "err") /\ ~fault'[p] /\ job[p].cmd = "setup_SUM" => drive' = was[p]]_vars

(* setup_SUM that was interrupted at any point after the activation can be *)
(* run again, with any new place and password, and goes through: the erase *)
(* brings back the default password that the rest of it relies on.         *)
SetupSUMResumes ==
  [][\A p \in Procs :
       LET j == job[p] d == was[p] IN
       /\ Returns(p, "err") /\ ~fault'[p] /\ j.cmd = "setup_SUM"
       /\ j.range > 0 \/ j.place = d.place[0]
       => ~(d.active /\ j.range \in d.sum /\ d.pin[Admin1] = HashPwd(j, j.pw))]_vars

(* Whatever happened to the drive before, the text on its label brings it  *)
(* back: revertTPer with the PSID is refused to nobody who enters it.      *)
PSIDRecovers ==
  [][\A p \in Procs :
       Returns(p, "err") /\ ~fault'[p] /\ job[p].cmd = "PSIDrevert" => job[p].pw # PSID]_vars

(* "set MBRDone before changing MBREnable so the PBA isn't presented"      *)
(* (DtaDevOpal.cpp:779): shadowing is never switched on while the drive    *)
(* would show the shadow at once.  One process at a time.                  *)
ShadowStaysDown ==
  [][drive'.mbrEnable /\ ~drive.mbrEnable => drive'.mbrDone]_vars

(* The owner's view of the two PINs that matter.                           *)
NoPin == [none |-> TRUE]
Ownership == INSTANCE OpalOwnership WITH
  NoPin  <- NoPin,
  sid    <- IF drive.pin[SID] = Raw(MSID) THEN NoPin ELSE drive.pin[SID],
  admin1 <- IF drive.active THEN drive.pin[Admin1] ELSE NoPin

(* With hashed passwords, commands in any interleaving and with any fault  *)
(* treat the PINs as OpalOwnership says.                                   *)
OwnershipKept == Ownership!Spec
=============================================================================
