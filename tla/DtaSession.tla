----------------------------- MODULE DtaSession -----------------------------
(***************************************************************************)
(* How one sedutil command talks to a drive: DtaSession (start,            *)
(* authenticate, sendCommand, the destructor) over exec() of DtaDevOpal    *)
(* and DtaDevEnterprise.                                                   *)
(*                                                                         *)
(* A process runs one command with one session.  Every exchange is an      *)
(* IF_SEND followed, after a sleep, by IF_RECVs until the drive reports    *)
(* that nothing is outstanding; the two halves are separate steps here,    *)
(* because a transport error, a ^C or another process may come between     *)
(* them.  All processes use the base ComID of the drive, which the code    *)
(* neither reserves nor resets, and nothing in a response says which       *)
(* request it answers.                                                     *)
(*                                                                         *)
(* The drive (the TPer) is not part of the repository.  It is modelled     *)
(* from what the code relies on: it answers one request at a time, has     *)
(* one session slot, and drops a packet of a session it does not know.     *)
(* A session is named by the process whose StartSession opened it, which   *)
(* is what a TSN unique to that session identifies.                        *)
(***************************************************************************)
EXTENDS Naturals

CONSTANTS
  Procs,      \* the sedutil processes; each runs one command
  NoOne,      \* "no process": a free slot, the TSN 0 of a new DtaSession
  Eprise,     \* the drive is an Enterprise SSC drive (DtaDev::isEprise)
  Serial,     \* commands are run one after the other, as the scripts of
              \* the repository do, and not several at a time
  WhenBusy,   \* what the TPer does with an IF_SEND that finds an answer
              \* still unread: a subset of {"refuse", "replace"}
  MaxMethods  \* bound: methods a command calls in its session

ASSUME NoOneAssumption == NoOne \notin Procs
ASSUME ModeAssumption  == Eprise \in BOOLEAN /\ Serial \in BOOLEAN
ASSUME BusyAssumption  == WhenBusy \subseteq {"refuse", "replace"}
ASSUME MethodsAssumption == MaxMethods \in Nat \ {0}

VARIABLES
  phase,      \* where each process is in its command
  io,         \* "sent" between a process's IF_SEND and its last IF_RECV
  cmd,        \* the kind of command each process runs
  left,       \* methods the command has still to call
  tsn,        \* DtaSession::TSN of each process
  willAbort,  \* DtaSession::willAbort of each process
  rc,         \* the command's return code
  lost,       \* history: an IF_SEND or IF_RECV of the process failed
  ended,      \* history: how the process ended
  com,        \* the ComID: the exchange the TPer is busy with
  slot        \* the session the TPer has open

hostVars == <<phase, io, cmd, left, tsn, willAbort, rc, lost, ended>>
vars     == <<hostVars, com, slot>>

-----------------------------------------------------------------------------
(* Types                                                                   *)

Phases  == {"new", "props", "start", "auth", "method", "end", "gone"}
(* anonymous: start(SP); ordinary: an authenticated session; revertTPer    *)
(* and revertSP call a method that makes the TPer drop the session.        *)
Kinds   == {"anonymous", "ordinary", "revertTPer", "revertSP"}
Reverts == {"revertTPer", "revertSP"}
What    == {"props", "start", "auth", "method", "revert", "end"}
Sessions == Procs \cup {NoOne}

Com == [state : {"idle", "busy", "ready"}, from : Sessions, what : What,
        tsn : Sessions, ok : BOOLEAN]
Quiet == [state |-> "idle", from |-> NoOne, what |-> "props",
          tsn |-> NoOne, ok |-> FALSE]

TypeOK ==
  /\ phase \in [Procs -> Phases]
  /\ io \in [Procs -> {"ready", "sent"}]
  /\ cmd \in [Procs -> Kinds]
  /\ left \in [Procs -> 0..MaxMethods]
  /\ tsn \in [Procs -> Sessions]
  /\ willAbort \in [Procs -> BOOLEAN]
  /\ rc \in [Procs -> {"ok", "err"}]
  /\ lost \in [Procs -> BOOLEAN]
  /\ ended \in [Procs -> {"no", "returned", "exited", "killed"}]
  /\ com \in Com
  /\ slot \in Sessions

Init ==
  /\ phase = [p \in Procs |-> "new"]
  /\ io = [p \in Procs |-> "ready"]
  /\ cmd = [p \in Procs |-> "ordinary"]
  /\ left = [p \in Procs |-> 0]
  /\ tsn = [p \in Procs |-> NoOne]
  /\ willAbort = [p \in Procs |-> FALSE]
  /\ rc = [p \in Procs |-> "ok"]
  /\ lost = [p \in Procs |-> FALSE]
  /\ ended = [p \in Procs |-> "no"]
  /\ com = Quiet
  /\ slot = NoOne

Live(p) == phase[p] \notin {"new", "gone"}

-----------------------------------------------------------------------------
(* The host                                                                *)

(* Definitions whose names end in an underscore and a word are faulty      *)
(* variants of the definition that follows them, kept to show that the     *)
(* properties notice the fault.                                            *)

(* A request ends in an error: properties() of init() is logged and        *)
(* forgotten; start, authenticate and a method return at once and delete   *)
(* the session, whose destructor sends EndSession unless willAbort; the    *)
(* destructor itself ignores errors.                                       *)
AfterError_Retried(ph, abort) ==
  IF ph \in {"start", "auth", "method"} /\ ~abort THEN "end"
  ELSE IF ph = "props" THEN "props" ELSE "gone"
AfterError(ph, abort) ==
  IF ph = "props" THEN "start"
  ELSE IF ph \in {"start", "auth", "method"} /\ ~abort THEN "end" ELSE "gone"

(* Whether the session is told before the method is sent that the TPer     *)
(* will drop it: revertTPer does, revertLockingSP only on Enterprise.      *)
AbortsEarly_Always(k) == k \in Reverts
AbortsEarly(k) == k = "revertTPer" \/ (k = "revertSP" /\ Eprise)

(* start() on Enterprise opens an anonymous session and authenticates in   *)
(* a second exchange; on Opal the credentials are in StartSession.         *)
AfterStart(k) == IF Eprise /\ k # "anonymous" THEN "auth" ELSE "method"

(* willAbort once a request of p other than StartSession has succeeded.    *)
AbortsNow_Forgotten(p) == willAbort[p]
AbortsNow(p) ==
  \/ willAbort[p]
  \/ phase[p] = "auth" /\ AbortsEarly(cmd[p])
  \/ phase[p] = "method" /\ cmd[p] \in Reverts

(* What follows such a success: the next method of the command, or the     *)
(* destructor, which sends nothing when willAbort is set.                  *)
AfterOk(p) ==
  IF phase[p] = "props" THEN "start"
  ELSE IF phase[p] = "auth" \/ (phase[p] = "method" /\ left[p] > 1) THEN "method"
  ELSE IF phase[p] = "method" /\ ~AbortsNow(p) THEN "end" ELSE "gone"

MethodsLeft_EveryAnswer(p) == [left EXCEPT ![p] = @ - 1]
MethodsLeft(p) == IF phase[p] = "method" THEN [left EXCEPT ![p] = @ - 1] ELSE left

Leave(p, ph) == IF ph = "gone" THEN "returned" ELSE ended[p]

(* One command is run: the device object is built (init calls              *)
(* properties() on a session object that is never started).                *)
Launch(p) ==
  /\ phase[p] = "new"
  /\ Serial => \A q \in Procs : ~Live(q)
  /\ \E k \in Kinds, n \in 1..MaxMethods :
       /\ k \in Reverts => n = 1
       /\ cmd' = [cmd EXCEPT ![p] = k]
       /\ left' = [left EXCEPT ![p] = n]
  /\ phase' = [phase EXCEPT ![p] = "props"]
  /\ UNCHANGED <<io, tsn, willAbort, rc, lost, ended, com, slot>>

(* The request fails: the return code is kept, the rest follows.           *)
Fails(p) ==
  /\ phase' = [phase EXCEPT ![p] = AfterError(phase[p], willAbort[p])]
  /\ ended' = [ended EXCEPT ![p] = Leave(p, phase'[p])]
  /\ rc' = IF phase[p] \in {"start", "auth", "method"}
           THEN [rc EXCEPT ![p] = "err"] ELSE rc
  /\ io' = [io EXCEPT ![p] = "ready"]

Request(p) ==
  [state |-> "busy", from |-> p, tsn |-> tsn[p], ok |-> FALSE,
   what |-> IF phase[p] = "method" /\ cmd[p] \in Reverts
            THEN "revert" ELSE phase[p]]

(* exec: IF_SEND is accepted.                                              *)
Send(p) ==
  /\ Live(p) /\ io[p] = "ready"
  /\ com.state = "idle" \/ "replace" \in WhenBusy
  /\ com' = Request(p)
  /\ io' = [io EXCEPT ![p] = "sent"]
  /\ UNCHANGED <<phase, cmd, left, tsn, willAbort, rc, lost, ended, slot>>

(* exec: IF_SEND returns an error, and so does exec, without an IF_RECV.   *)
(* The transport may always fail; the TPer may refuse a second request.    *)
SendFails_Ignored(p) ==
  /\ Live(p) /\ io[p] = "ready"
  /\ com.state # "idle" => "refuse" \in WhenBusy
  /\ io' = [io EXCEPT ![p] = "sent"]
  /\ lost' = [lost EXCEPT ![p] = TRUE]
  /\ UNCHANGED <<phase, cmd, left, tsn, willAbort, rc, ended, com, slot>>
SendFails(p) ==
  /\ Live(p) /\ io[p] = "ready"
  /\ Fails(p)
  /\ lost' = [lost EXCEPT ![p] = TRUE]
  /\ UNCHANGED <<cmd, left, tsn, willAbort, com, slot>>

(* exec: the last IF_RECV returns an error; the drive may or may not have  *)
(* handed the answer out.  While the TPer is busy the loop polls on.       *)
RecvFails(p) ==
  /\ Live(p) /\ io[p] = "sent"
  /\ Fails(p)
  /\ lost' = [lost EXCEPT ![p] = TRUE]
  /\ com' \in {com, Quiet}
  /\ UNCHANGED <<cmd, left, tsn, willAbort, slot>>

(* exec polls on, without a limit, while the TPer reports that it is busy  *)
(* with a request; it does not poll on until there is an answer.           *)
PollEnds_Answered == com.state = "ready"
PollEnds == com.state # "busy"

(* sendCommand: the packet has a zero length, there is no answer.          *)
RecvNothing(p) ==
  /\ Live(p) /\ io[p] = "sent" /\ PollEnds /\ com.state = "idle"
  /\ Fails(p)
  /\ UNCHANGED <<cmd, left, tsn, willAbort, lost, com, slot>>

(* sendCommand: an error status, or Authenticate answering false.          *)
RecvError(p) ==
  /\ Live(p) /\ io[p] = "sent" /\ PollEnds /\ com.state = "ready" /\ ~com.ok
  /\ Fails(p)
  /\ com' = Quiet
  /\ UNCHANGED <<cmd, left, tsn, willAbort, lost, slot>>

(* start: StartSession has succeeded, HSN and TSN are taken from it.       *)
RecvStart(p) ==
  /\ Live(p) /\ io[p] = "sent" /\ PollEnds /\ com.state = "ready" /\ com.ok
  /\ phase[p] = "start"
  /\ tsn' = [tsn EXCEPT ![p] = com.tsn]
  /\ phase' = [phase EXCEPT ![p] = AfterStart(cmd[p])]
  /\ willAbort' = [willAbort EXCEPT ![p] =
                     phase'[p] = "method" /\ AbortsEarly(cmd[p])]
  /\ io' = [io EXCEPT ![p] = "ready"]
  /\ com' = Quiet
  /\ UNCHANGED <<cmd, left, rc, lost, ended, slot>>

(* Any other request has succeeded.  The last method of a command is       *)
(* followed by the destructor, or by nothing when the session is gone.     *)
RecvOk(p) ==
  /\ Live(p) /\ io[p] = "sent" /\ PollEnds /\ com.state = "ready" /\ com.ok
  /\ phase[p] # "start"
  /\ phase' = [phase EXCEPT ![p] = AfterOk(p)]
  /\ willAbort' = [willAbort EXCEPT ![p] = AbortsNow(p)]
  /\ ended' = [ended EXCEPT ![p] = Leave(p, AfterOk(p))]
  /\ left' = MethodsLeft(p)
  /\ io' = [io EXCEPT ![p] = "ready"]
  /\ com' = Quiet
  /\ UNCHANGED <<cmd, tsn, rc, lost, slot>>

(* The getters of DtaResponse exit() on a token of another type: from a    *)
(* handler or start() that reads the answer, from authenticate(), and from *)
(* sendCommand() where it reads the status of whatever answer it got.      *)
Exit(p) ==
  /\ Live(p) /\ io[p] = "sent" /\ PollEnds /\ com.state = "ready"
  /\ phase' = [phase EXCEPT ![p] = "gone"]
  /\ ended' = [ended EXCEPT ![p] = "exited"]
  /\ io' = [io EXCEPT ![p] = "ready"]
  /\ com' = Quiet
  /\ UNCHANGED <<cmd, left, tsn, willAbort, rc, lost, slot>>

(* ^C, as the comment in start() has it.                                   *)
Interrupt(p) ==
  /\ Live(p)
  /\ phase' = [phase EXCEPT ![p] = "gone"]
  /\ ended' = [ended EXCEPT ![p] = "killed"]
  /\ io' = [io EXCEPT ![p] = "ready"]
  /\ UNCHANGED <<cmd, left, tsn, willAbort, rc, lost, com, slot>>

-----------------------------------------------------------------------------
(* The drive                                                               *)

Answers(ok, t) ==
  com' = [state |-> "ready", from |-> com.from, what |-> com.what,
          tsn |-> t, ok |-> ok]

(* StartSession and Properties go to the session manager.                  *)
TPerManager ==
  /\ com.state = "busy"
  /\ \/ com.what = "props" /\ Answers(TRUE, NoOne) /\ UNCHANGED slot
     \/ com.what = "start" /\ slot = NoOne
        /\ Answers(TRUE, com.from) /\ slot' = com.from
     \/ com.what = "start" /\ Answers(FALSE, NoOne) /\ UNCHANGED slot
  /\ UNCHANGED hostVars

(* A packet of the open session.  A successful revert drops the session.   *)
TPerSession ==
  /\ com.state = "busy" /\ com.what \notin {"props", "start"}
  /\ com.tsn = slot /\ slot # NoOne
  /\ \/ com.what = "end" /\ Answers(TRUE, com.tsn) /\ slot' = NoOne
     \/ com.what = "revert" /\ Answers(TRUE, com.tsn) /\ slot' = NoOne
     \/ com.what \in {"auth", "method"} /\ Answers(TRUE, com.tsn) /\ UNCHANGED slot
     \/ com.what # "end" /\ Answers(FALSE, com.tsn) /\ UNCHANGED slot
  /\ UNCHANGED hostVars

(* A packet of a session that is not open is dropped.                      *)
TPerDrops ==
  /\ com.state = "busy" /\ com.what \notin {"props", "start"}
  /\ com.tsn # slot \/ slot = NoOne
  /\ com' = Quiet
  /\ UNCHANGED <<hostVars, slot>>

(* The SessionTimeout the host asked for in StartSession: only on          *)
(* Enterprise does start() add it.                                         *)
AsksTimeout_Never == FALSE
AsksTimeout == Eprise

TPerTimeout ==
  /\ AsksTimeout /\ slot # NoOne /\ com.state # "busy"
  /\ slot' = NoOne
  /\ UNCHANGED <<hostVars, com>>

(* The machine loses power, the drive and the processes with it.           *)
PowerCycle ==
  /\ phase' = [p \in Procs |-> IF Live(p) THEN "gone" ELSE phase[p]]
  /\ ended' = [p \in Procs |-> IF Live(p) THEN "killed" ELSE ended[p]]
  /\ io' = [p \in Procs |-> "ready"]
  /\ com' = Quiet
  /\ slot' = NoOne
  /\ UNCHANGED <<cmd, left, tsn, willAbort, rc, lost>>

-----------------------------------------------------------------------------
(* What the process does of itself: no failing IF_RECV, no exit().         *)
Progress(p) ==
  \/ Send(p) \/ SendFails(p)
  \/ RecvNothing(p) \/ RecvError(p) \/ RecvStart(p) \/ RecvOk(p)

Step(p) == Progress(p) \/ RecvFails(p) \/ Exit(p)

TPer == TPerManager \/ TPerSession \/ TPerDrops

Next ==
  \/ \E p \in Procs : Launch(p) \/ Step(p) \/ Interrupt(p)
  \/ TPer \/ TPerTimeout \/ PowerCycle

Spec == Init /\ [][Next]_vars

(* A process that runs is scheduled, the TPer answers what it has taken    *)
(* and drops a session it was asked to time out.  Nobody has to start a    *)
(* command, press ^C or cut the power; and no IF_RECV has to fail, so that *)
(* a poll ends only because there is nothing more to wait for.             *)
Fairness ==
  /\ \A p \in Procs : WF_vars(Progress(p))
  /\ WF_vars(TPer)
  /\ WF_vars(TPerTimeout)

FairSpec == Spec /\ Fairness

-----------------------------------------------------------------------------
(* Properties                                                              *)

(* exec() takes whatever the ComID holds as the answer to its request.     *)
(* With one command at a time, what it finds there is the answer to that   *)
(* very request: never one left behind by a killed process or by an        *)
(* exchange whose IF_RECV failed.  (With two it may be the other's: a      *)
(* packet of a session that is not open, such as the EndSession that       *)
(* follows a failed start, gets no answer, and the IF_RECV polling for one *)
(* takes the next answer the drive has for anybody.)                       *)
OwnAnswer ==
  \A p \in Procs : io[p] = "sent" /\ com.state # "idle" =>
    com.from = p /\ com.what = Request(p).what

(* start() copies the TSN from the answer without looking at anything      *)
(* else.  Still, one command at a time, no process ever calls a method in  *)
(* a session, with the authority, that another process has opened.         *)
OwnSession == \A p \in Procs : tsn[p] \in {p, NoOne}

(* Between two exchanges of a command that has met no transport error, the *)
(* session it will use next, or will end, is open in the drive: no path    *)
(* sends EndSession into a session a revert has already dropped, and none  *)
(* goes on after its own EndSession.  Enterprise drives may time it out.   *)
HostViewIsTrue ==
  \A p \in Procs :
    /\ phase[p] \in {"auth", "method", "end"}
    /\ tsn[p] # NoOne /\ io[p] = "ready" /\ ~lost[p] /\ ~Eprise
    => slot = tsn[p]

ReturnedClean(p) == phase[p] = "gone" /\ ended[p] = "returned" /\ ~lost[p]

(* "Destructor ends the session if required" (DtaSession.h:38): a command  *)
(* that has returned, without a transport error, holds no session.         *)
DestructorEndsSession == \A p \in Procs : ReturnedClean(p) => slot # p

(* The one way a command that returns without a transport error may leave  *)
(* the drive's session slot taken: a revert that fails after expectAbort() *)
(* was called (revertTPer; on Enterprise revertLockingSP, too).  Failed    *)
(* starts, failed authentications, failed methods in the middle of a       *)
(* command and successful reverts all leave it free.                       *)
OnlyAbortedRevertLeaks ==
  \A p \in Procs :
    ReturnedClean(p) /\ slot = p =>
      /\ rc[p] = "err"
      /\ cmd[p] = "revertTPer" \/ (Eprise /\ cmd[p] = "revertSP")

(* The polling loop of exec(), which has no limit, and the error returns   *)
(* bring every command to its end, whatever other processes, the transport *)
(* and ^C do: also where a request of the command is never answered, as an *)
(* EndSession of no session, or where another process took the answer.     *)
Terminates == \A p \in Procs : Live(p) ~> phase[p] = "gone"

(* "w/o the timeout the session may wedge and require a power-cycle, e.g., *)
(* when interrupted by ^C" (DtaSession.cpp:136): on Enterprise the slot    *)
(* a dead process has kept is eventually free without a power cycle.       *)
TimeoutFreesSlot ==
  \A p \in Procs : (phase[p] = "gone" /\ slot = p) ~> slot # p
=============================================================================
