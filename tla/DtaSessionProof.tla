--------------------------- MODULE DtaSessionProof ---------------------------
(***************************************************************************)
(* Proofs about DtaSession, for every set of processes and either kind of  *)
(* drive.  The inductive invariant has three layers: types, the ownership  *)
(* of the ComID and of the TSN, and what an open session slot says about   *)
(* the process that opened it.                                             *)
(***************************************************************************)
EXTENDS DtaSession, TLAPS

(* A command that still has to call a method has one left to call, and a   *)
(* revert calls one.                                                       *)
LeftInv ==
  \A p \in Procs :
    /\ phase[p] \in {"props", "start", "auth", "method"} => left[p] > 0
    /\ cmd[p] \in Reverts => left[p] <= 1

TypeInv == TypeOK /\ LeftInv

(* One command at a time; only a running one waits for an answer, and only *)
(* one that has not ended is running.                                      *)
Turns ==
  /\ \A p, q \in Procs : Live(p) /\ Live(q) => p = q
  /\ \A p \in Procs : io[p] = "sent" => Live(p)
  /\ \A p \in Procs : phase[p] # "gone" => ended[p] = "no"

(* An unread answer to a StartSession names the session of its sender.     *)
StartAnswer ==
  com.state = "ready" /\ com.what = "start" /\ com.ok => com.tsn = com.from

(* A packet being answered carries the TSN of its sender, or none.         *)
PacketTSN ==
  /\ \A p \in Procs : io[p] = "sent" /\ com.state = "busy" => com.tsn = tsn[p]
  /\ com.state = "busy" => com.tsn \in {com.from, NoOne}

OwnInv == Turns /\ OwnAnswer /\ OwnSession /\ StartAnswer /\ PacketTSN

(* Whoever sent the exchange the ComID holds still waits for it, or is     *)
(* excused: it was killed, has exited or has met a transport error.        *)
Excused(p) == lost[p] \/ ended[p] \in {"killed", "exited"}
SenderWaits ==
  com.state # "idle" =>
    com.from \in Procs /\ (Excused(com.from) \/ io[com.from] = "sent")

(* What the answers to EndSession and to a revert say about the slot.      *)
ClosingAnswer ==
  /\ com.state = "ready" /\ com.what \in {"end", "revert"} /\ com.ok => slot = NoOne
  /\ com.state = "ready" /\ com.what = "end" => com.ok

(* A process that waits while the ComID is idle has no session.            *)
DroppedPacket ==
  \A p \in Procs : io[p] = "sent" /\ com.state = "idle" => slot # p \/ lost[p]

EarlyAbort ==
  \A p \in Procs : willAbort[p] /\ phase[p] # "gone" =>
                      Live(p) /\ AbortsEarly(cmd[p])

AbortedRevert(p) ==
  /\ phase[p] = "gone" /\ rc[p] = "err"
  /\ cmd[p] = "revertTPer" \/ (Eprise /\ cmd[p] = "revertSP")

(* Why the slot may be taken by p: p is excused; its revert has failed; it *)
(* is about to read the answer to its StartSession; or it knows the TSN    *)
(* and has yet to end the session.                                         *)
SlotInv ==
  \A p \in Procs : slot = p =>
    \/ Excused(p)
    \/ AbortedRevert(p)
    \/ /\ phase[p] = "start" /\ io[p] = "sent"
       /\ com.state = "ready" /\ com.from = p /\ com.ok
    \/ phase[p] \in {"auth", "method", "end"} /\ tsn[p] = p

IInv == /\ TypeInv
        /\ OwnInv
        /\ SenderWaits /\ ClosingAnswer /\ DroppedPacket /\ EarlyAbort /\ SlotInv

-----------------------------------------------------------------------------
(* Types.                                                                  *)

LEMMA InitTypeInv == Init => TypeInv
  BY MethodsAssumption, NoOneAssumption
  DEF Init, TypeInv, TypeOK, LeftInv, Reverts, Phases, Kinds, Com, Quiet, Sessions, What

(* What every error path writes is well typed.                             *)
LEMMA FailsTypeInv ==
  ASSUME TypeInv, NEW p \in Procs, Live(p), Fails(p), left' = left, cmd' = cmd
  PROVE  /\ phase' \in [Procs -> Phases]
         /\ io' \in [Procs -> {"ready", "sent"}]
         /\ rc' \in [Procs -> {"ok", "err"}]
         /\ ended' \in [Procs -> {"no", "returned", "exited", "killed"}]
         /\ LeftInv'
  BY DEF TypeInv, TypeOK, LeftInv, Fails, AfterError, Leave, Phases, Live

(* An answer keeps the packet it answers.                                  *)
LEMMA AnswersTypeInv ==
  ASSUME com \in Com, NEW ok \in BOOLEAN, NEW t \in Sessions, Answers(ok, t)
  PROVE  com' \in Com
<1>1. com.from \in Sessions /\ com.what \in What
  BY DEF Com
<1> QED
  BY <1>1 DEF Answers, Com

LEMMA NextTypeInv == TypeInv /\ [Next]_vars => TypeInv'
<1> SUFFICES ASSUME TypeInv, [Next]_vars PROVE TypeInv'
  OBVIOUS
<1> USE DEF TypeInv, TypeOK
<1> Quiet \in Com
  BY DEF Quiet, Com, Sessions, What
<1>1. ASSUME NEW p \in Procs, Launch(p) PROVE TypeInv'
  BY <1>1, MethodsAssumption DEF Launch, LeftInv, Phases
<1>2. ASSUME NEW p \in Procs, Send(p) PROVE TypeInv'
  <2>1. Request(p) \in Com
    BY <1>2 DEF Send, Request, Com, What, Sessions, Phases, Live
  <2> QED
    BY <1>2, <2>1 DEF Send, LeftInv
<1>3. ASSUME NEW p \in Procs, SendFails(p) PROVE TypeInv'
  BY <1>3, FailsTypeInv DEF SendFails
<1>4. ASSUME NEW p \in Procs, RecvFails(p) PROVE TypeInv'
  BY <1>4, FailsTypeInv DEF RecvFails
<1>5. ASSUME NEW p \in Procs, RecvNothing(p) PROVE TypeInv'
  BY <1>5, FailsTypeInv DEF RecvNothing
<1>6. ASSUME NEW p \in Procs, RecvError(p) PROVE TypeInv'
  BY <1>6, FailsTypeInv DEF RecvError
<1>7. ASSUME NEW p \in Procs, RecvStart(p) PROVE TypeInv'
  BY <1>7 DEF RecvStart, LeftInv, Phases, AfterStart, AbortsEarly, Com
<1>8. ASSUME NEW p \in Procs, RecvOk(p) PROVE TypeInv'
  <2>1. left' \in [Procs -> 0..MaxMethods]
    BY <1>8, MethodsAssumption DEF RecvOk, MethodsLeft, LeftInv
  <2>2. LeftInv'
    BY <1>8, MethodsAssumption DEF RecvOk, MethodsLeft, LeftInv, AfterOk, Phases, Live
  <2>3. willAbort' \in [Procs -> BOOLEAN]
    BY <1>8 DEF RecvOk, AbortsNow, AbortsEarly
  <2>4. /\ phase' \in [Procs -> Phases]
        /\ ended' \in [Procs -> {"no", "returned", "exited", "killed"}]
    BY <1>8 DEF RecvOk, AfterOk, Leave, Phases
  <2> QED
    BY <1>8, <2>1, <2>2, <2>3, <2>4 DEF RecvOk
<1>9. ASSUME NEW p \in Procs, Exit(p) PROVE TypeInv'
  BY <1>9 DEF Exit, LeftInv, Phases
<1>10. ASSUME NEW p \in Procs, Interrupt(p) PROVE TypeInv'
  BY <1>10 DEF Interrupt, LeftInv, Phases
<1>11. CASE TPerManager
  <2>1. com' \in Com
    <3>1. com.from \in Sessions /\ NoOne \in Sessions
      BY DEF Com, Sessions
    <3>2. \E ok \in BOOLEAN, t \in Sessions : Answers(ok, t)
      BY <1>11, <3>1, Zenon DEF TPerManager
    <3> QED
      BY <3>2, AnswersTypeInv
  <2>2. slot' \in Sessions
    BY <1>11 DEF TPerManager, Com
  <2> QED
    BY <1>11, <2>1, <2>2 DEF TPerManager, hostVars, LeftInv
<1>12. CASE TPerSession
  <2>1. com' \in Com
    <3>1. com.tsn \in Sessions
      BY DEF Com
    <3>2. \E ok \in BOOLEAN, t \in Sessions : Answers(ok, t)
      BY <1>12, <3>1, Zenon DEF TPerSession
    <3> QED
      BY <3>2, AnswersTypeInv
  <2>2. slot' \in Sessions
    BY <1>12 DEF TPerSession, Sessions
  <2> QED
    BY <1>12, <2>1, <2>2 DEF TPerSession, hostVars, LeftInv
<1>13. CASE TPerDrops
  BY <1>13 DEF TPerDrops, hostVars, LeftInv
<1>14. CASE TPerTimeout
  BY <1>14 DEF TPerTimeout, hostVars, LeftInv, Sessions
<1>15. CASE PowerCycle
  BY <1>15 DEF PowerCycle, LeftInv, Sessions, Phases
<1>16. CASE UNCHANGED vars
  BY <1>16 DEF vars, hostVars, LeftInv
<1> QED
  BY <1>1, <1>2, <1>3, <1>4, <1>5, <1>6, <1>7, <1>8, <1>9, <1>10, <1>11,
     <1>12, <1>13, <1>14, <1>15, <1>16 DEF Next, Step, Progress, TPer

(* The type invariant of DtaSession holds: in particular a command never   *)
(* calls more methods than it has, and the ComID never carries anything    *)
(* but one of the six kinds of packet.                                     *)
THEOREM TypeCorrect == Spec => []TypeOK
<1>1. Spec => []TypeInv
  BY InitTypeInv, NextTypeInv, PTL DEF Spec
<1>2. TypeInv => TypeOK
  BY DEF TypeInv
<1> QED
  BY <1>1, <1>2, PTL

-----------------------------------------------------------------------------
(* Ownership of the ComID and of the TSN, when commands do not overlap.    *)

LEMMA InitOwnInv == Init => OwnInv
  BY DEF Init, OwnInv, Turns, Live, OwnAnswer, OwnSession, StartAnswer,
         PacketTSN, Quiet

(* A step of the running command p touches no other process: it is enough  *)
(* to look at p itself.                                                    *)
LEMMA TurnsStep ==
  ASSUME TypeInv, Turns, NEW p \in Procs, Live(p),
         NEW x \in Phases, phase' = [phase EXCEPT ![p] = x],
         NEW i \in {"ready", "sent"}, io' = [io EXCEPT ![p] = i],
         i = "sent" => x = phase[p],
         x # "gone" => ended'[p] = "no",
         \A q \in Procs \ {p} : ended'[q] = ended[q]
  PROVE  /\ Turns'
         /\ \A q \in Procs : io'[q] = "sent" => q = p /\ i = "sent"
  BY DEF TypeInv, TypeOK, Turns, Live

LEMMA FailsTurns ==
  ASSUME TypeInv, Turns, NEW p \in Procs, Live(p), Fails(p)
  PROVE  /\ Turns'
         /\ \A q \in Procs : io'[q] = "ready"
<1> DEFINE x == AfterError(phase[p], willAbort[p])
<1>1. x \in Phases /\ (x # "gone" => Leave(p, x) = ended[p])
  BY DEF AfterError, Phases, Leave
<1>2. phase' = [phase EXCEPT ![p] = x] /\ io' = [io EXCEPT ![p] = "ready"]
  BY DEF Fails
<1>3. phase'[p] = x
  BY <1>2 DEF TypeInv, TypeOK
<1>4. ended' = [ended EXCEPT ![p] = Leave(p, x)]
  BY <1>3 DEF Fails
<1>5. ended[p] = "no"
  BY DEF Turns, Live
<1>6. x # "gone" => ended'[p] = "no"
  BY <1>1, <1>4, <1>5 DEF TypeInv, TypeOK
<1>7. \A q \in Procs \ {p} : ended'[q] = ended[q]
  BY <1>4 DEF TypeInv, TypeOK
<1>8. /\ Turns'
      /\ \A q \in Procs : io'[q] = "sent" => q = p /\ "ready" = "sent"
  <2> HIDE DEF x
  <2> QED
    BY <1>1, <1>2, <1>6, <1>7, TurnsStep
<1> QED
  BY <1>2, <1>8 DEF TypeInv, TypeOK

LEMMA NextOwnInv ==
  ASSUME Serial, TypeInv, OwnInv, [Next]_vars
  PROVE  OwnInv'
<1> USE DEF OwnInv
<1>1. ASSUME NEW p \in Procs, Launch(p) PROVE OwnInv'
  <2>1. \A q \in Procs : io[q] = "ready"
    BY <1>1 DEF Launch, Turns, TypeInv, TypeOK
  <2>2. Turns'
    <3>1. \A q \in Procs : Live(q)' => q = p
      BY <1>1 DEF Launch, Live, TypeInv, TypeOK
    <3> QED
      BY <1>1, <2>1, <3>1 DEF Launch, Turns, Live, TypeInv, TypeOK
  <2>3. OwnAnswer' /\ OwnSession' /\ StartAnswer' /\ PacketTSN'
    BY <1>1, <2>1 DEF Launch, OwnAnswer, OwnSession, StartAnswer, PacketTSN
  <2> QED
    BY <2>2, <2>3
<1>2. ASSUME NEW p \in Procs, Send(p) PROVE OwnInv'
  <2>1. Turns' /\ \A q \in Procs : io'[q] = "sent" => q = p
    <3>1. phase' = [phase EXCEPT ![p] = phase[p]] /\ phase[p] \in Phases
      BY <1>2 DEF Send, TypeInv, TypeOK
    <3> QED
      BY <1>2, <3>1, TurnsStep DEF Send, Turns
  <2>2. OwnAnswer'
    BY <1>2, <2>1 DEF Send, OwnAnswer, Request
  <2>3. StartAnswer' /\ OwnSession'
    BY <1>2 DEF Send, OwnSession, StartAnswer, Request
  <2>4. PacketTSN'
    BY <1>2, <2>1 DEF Send, PacketTSN, Request, OwnSession
  <2> QED
    BY <2>1, <2>2, <2>3, <2>4
<1>3. ASSUME NEW p \in Procs, SendFails(p) PROVE OwnInv'
  BY <1>3, FailsTurns
  DEF SendFails, OwnAnswer, OwnSession, StartAnswer, PacketTSN
<1>4. ASSUME NEW p \in Procs, RecvFails(p) PROVE OwnInv'
  BY <1>4, FailsTurns
  DEF RecvFails, OwnAnswer, OwnSession, StartAnswer, PacketTSN, Quiet
<1>5. ASSUME NEW p \in Procs, RecvNothing(p) PROVE OwnInv'
  BY <1>5, FailsTurns
  DEF RecvNothing, OwnAnswer, OwnSession, StartAnswer, PacketTSN
<1>6. ASSUME NEW p \in Procs, RecvError(p) PROVE OwnInv'
  BY <1>6, FailsTurns
  DEF RecvError, OwnAnswer, OwnSession, StartAnswer, PacketTSN, Quiet
<1>7. ASSUME NEW p \in Procs, RecvStart(p) PROVE OwnInv'
  <2>1. Turns' /\ \A q \in Procs : io'[q] # "sent"
    <3>1. AfterStart(cmd[p]) \in Phases
      BY DEF AfterStart, Phases
    <3> QED
      BY <1>7, <3>1, TurnsStep DEF RecvStart, Turns
  <2>2. com.tsn = p
    BY <1>7 DEF RecvStart, OwnAnswer, StartAnswer, Request
  <2>3. OwnSession'
    BY <1>7, <2>2 DEF RecvStart, OwnSession, TypeInv, TypeOK
  <2> QED
    BY <1>7, <2>1, <2>3 DEF RecvStart, OwnAnswer, StartAnswer, PacketTSN, Quiet
<1>8. ASSUME NEW p \in Procs, RecvOk(p) PROVE OwnInv'
  <2>1. Turns' /\ \A q \in Procs : io'[q] # "sent"
    <3>1. AfterOk(p) \in Phases
      BY DEF AfterOk, Phases
    <3>2. AfterOk(p) # "gone" => ended'[p] = "no"
      BY <1>8 DEF RecvOk, Leave, Live, Turns, TypeInv, TypeOK
    <3>3. \A q \in Procs \ {p} : ended'[q] = ended[q]
      BY <1>8 DEF RecvOk, TypeInv, TypeOK
    <3> QED
      BY <1>8, <3>1, <3>2, <3>3, TurnsStep DEF RecvOk
  <2> QED
    BY <1>8, <2>1
    DEF RecvOk, OwnAnswer, OwnSession, StartAnswer, PacketTSN, Quiet
<1>9. ASSUME NEW p \in Procs, Exit(p) PROVE OwnInv'
  <2>1. Turns' /\ \A q \in Procs : io'[q] # "sent"
    BY <1>9 DEF Exit, Turns, Live, TypeInv, TypeOK
  <2> QED
    BY <1>9, <2>1
    DEF Exit, OwnAnswer, OwnSession, StartAnswer, PacketTSN, Quiet
<1>10. ASSUME NEW p \in Procs, Interrupt(p) PROVE OwnInv'
  <2>1. Turns' /\ \A q \in Procs : io'[q] # "sent"
    BY <1>10 DEF Interrupt, Turns, Live, TypeInv, TypeOK
  <2> QED
    BY <1>10, <2>1
    DEF Interrupt, OwnAnswer, OwnSession, StartAnswer, PacketTSN
<1>11. CASE TPerManager
  <2>1. Turns' /\ OwnSession'
    BY <1>11 DEF TPerManager, hostVars, Turns, Live, OwnSession
  <2>2. OwnAnswer' /\ PacketTSN' /\ StartAnswer'
    BY <1>11 DEF TPerManager, Answers, hostVars, OwnAnswer, PacketTSN,
                 StartAnswer, Request
  <2> QED
    BY <2>1, <2>2
<1>12. CASE TPerSession
  <2>1. Turns' /\ OwnSession'
    BY <1>12 DEF TPerSession, hostVars, Turns, Live, OwnSession
  <2>2. OwnAnswer' /\ PacketTSN' /\ StartAnswer'
    BY <1>12 DEF TPerSession, Answers, hostVars, OwnAnswer, PacketTSN,
                 StartAnswer, Request
  <2> QED
    BY <2>1, <2>2
<1>13. CASE TPerDrops
  BY <1>13 DEF TPerDrops, hostVars, Turns, Live, OwnAnswer, OwnSession,
               StartAnswer, PacketTSN, Quiet
<1>14. CASE TPerTimeout
  BY <1>14 DEF TPerTimeout, hostVars, Turns, Live, OwnAnswer, OwnSession,
               StartAnswer, PacketTSN, Request
<1>15. CASE PowerCycle
  <2>1. Turns'
    BY <1>15 DEF PowerCycle, Turns, Live
  <2> QED
    BY <1>15, <2>1 DEF PowerCycle, OwnAnswer, OwnSession, StartAnswer,
                       PacketTSN, Quiet
<1>16. CASE UNCHANGED vars
  BY <1>16 DEF vars, hostVars, Turns, Live, OwnAnswer, OwnSession,
               StartAnswer, PacketTSN, Request
<1> QED
  BY <1>1, <1>2, <1>3, <1>4, <1>5, <1>6, <1>7, <1>8, <1>9, <1>10, <1>11,
     <1>12, <1>13, <1>14, <1>15, <1>16 DEF Next, Step, Progress, TPer

(* When commands run one at a time, what exec() reads is the answer to the *)
(* request it sent, whatever a killed process, a failed IF_RECV or a power *)
(* cycle left behind, and whether the drive refuses or replaces.           *)
THEOREM AnswerIsOwn == ASSUME Serial PROVE Spec => []OwnAnswer
<1>1. TypeInv /\ OwnInv /\ [Next]_vars => TypeInv' /\ OwnInv'
  BY NextTypeInv, NextOwnInv
<1>2. Spec => [](TypeInv /\ OwnInv)
  BY <1>1, InitTypeInv, InitOwnInv, PTL DEF Spec
<1>3. OwnInv => OwnAnswer
  BY DEF OwnInv
<1> QED
  BY <1>2, <1>3, PTL

(* Under the same condition no command ever works in a session, with the   *)
(* authority, that another command has opened.                             *)
THEOREM SessionIsOwn == ASSUME Serial PROVE Spec => []OwnSession
<1>1. TypeInv /\ OwnInv /\ [Next]_vars => TypeInv' /\ OwnInv'
  BY NextTypeInv, NextOwnInv
<1>2. Spec => [](TypeInv /\ OwnInv)
  BY <1>1, InitTypeInv, InitOwnInv, PTL DEF Spec
<1>3. OwnInv => OwnSession
  BY DEF OwnInv
<1> QED
  BY <1>2, <1>3, PTL

-----------------------------------------------------------------------------
(* The session slot.                                                       *)

LEMMA InitSlotInv == Init => SenderWaits /\ ClosingAnswer /\ DroppedPacket
                              /\ EarlyAbort /\ SlotInv
  BY NoOneAssumption
  DEF Init, SenderWaits, ClosingAnswer, DroppedPacket, EarlyAbort, SlotInv,
      Quiet, Live

(* How an error moves a process that is not excused afterwards.            *)
LEMMA FailsMoves ==
  ASSUME TypeInv, NEW p \in Procs, Live(p), Fails(p)
  PROVE  /\ phase[p] = "props" => phase'[p] = "start"
         /\ phase[p] \in {"start", "auth", "method"} =>
              /\ rc'[p] = "err"
              /\ phase'[p] = IF willAbort[p] THEN "gone" ELSE "end"
         /\ phase[p] = "end" => phase'[p] = "gone"
         /\ io'[p] = "ready"
         /\ Live(p)' => phase'[p] \in {"start", "end"}
         /\ \A q \in Procs \ {p} : /\ phase'[q] = phase[q] /\ rc'[q] = rc[q]
                                   /\ ended'[q] = ended[q] /\ io'[q] = io[q]
         /\ \A q \in Procs : ended[q] \in {"killed", "exited"}
                             => ended'[q] \in {"killed", "exited"} \/ q = p
<1>1. /\ phase' = [phase EXCEPT ![p] = AfterError(phase[p], willAbort[p])]
      /\ io' = [io EXCEPT ![p] = "ready"]
      /\ \A q \in Procs \ {p} : ended'[q] = ended[q]
  BY DEF Fails, TypeInv, TypeOK
<1>2. phase'[p] = AfterError(phase[p], willAbort[p])
  BY <1>1 DEF TypeInv, TypeOK
<1> QED
  BY <1>1, <1>2 DEF Fails, TypeInv, TypeOK, AfterError, Live, Phases

LEMMA FailsSlotInv ==
  ASSUME IInv, NEW p \in Procs, Live(p), Fails(p),
         UNCHANGED <<cmd, tsn, slot>>,
         \A q \in Procs : lost[q] => lost'[q],
         slot = p => lost'[p] \/ (phase[p] \in {"auth", "method"} /\ tsn[p] = p)
  PROVE  SlotInv'
<1> USE DEF IInv, OwnInv
<1>1. SUFFICES ASSUME NEW q \in Procs, slot = q
               PROVE  \/ lost'[q] \/ ended'[q] \in {"killed", "exited"}
                      \/ phase'[q] = "gone" /\ rc'[q] = "err"
                         /\ (cmd[q] = "revertTPer" \/ (Eprise /\ cmd[q] = "revertSP"))
                      \/ phase'[q] \in {"auth", "method", "end"} /\ tsn[q] = q
  BY DEF SlotInv, Excused, AbortedRevert
<1>2. CASE q = p
  <2>1. CASE lost'[p]
    BY <1>2, <2>1
  <2>2. CASE phase[p] \in {"auth", "method"} /\ tsn[p] = p /\ ~willAbort[p]
    BY <1>2, <2>2, FailsMoves
  <2>3. CASE phase[p] \in {"auth", "method"} /\ tsn[p] = p /\ willAbort[p]
    BY <1>2, <2>3, FailsMoves DEF EarlyAbort, AbortsEarly
  <2> QED
    BY <1>1, <1>2, <2>1, <2>2, <2>3
<1>3. CASE q # p
  <2>1. ~(phase[q] = "start" /\ io[q] = "sent")
    BY <1>3 DEF Turns
  <2>2. /\ phase'[q] = phase[q] /\ rc'[q] = rc[q] /\ ended'[q] = ended[q]
    BY <1>3, FailsMoves
  <2> QED
    BY <1>1, <2>1, <2>2 DEF SlotInv, Excused, AbortedRevert
<1> QED
  BY <1>2, <1>3

LEMMA NextSlotInv ==
  ASSUME Serial, IInv, [Next]_vars
  PROVE  SlotInv'
<1> USE DEF IInv, OwnInv
<1> USE NoOneAssumption
<1>1. ASSUME NEW p \in Procs, Launch(p) PROVE SlotInv'
  <2>1. ASSUME NEW q \in Procs, q # p PROVE phase'[q] = phase[q]
    BY <1>1, <2>1 DEF Launch, TypeInv, TypeOK
  <2>2. cmd'[p] \in Kinds /\ \A q \in Procs \ {p} : cmd'[q] = cmd[q]
    BY <1>1 DEF Launch, TypeInv, TypeOK
  <2>3. io[p] = "ready"
    BY <1>1 DEF Launch, Turns, Live, TypeInv, TypeOK
  <2> QED
    BY <1>1, <2>1, <2>2, <2>3 DEF Launch, SlotInv, Excused, AbortedRevert
<1>2. ASSUME NEW p \in Procs, Send(p) PROVE SlotInv'
  <2>1. ASSUME NEW q \in Procs, phase[q] = "start", io[q] = "sent"
        PROVE  FALSE
    BY <1>2, <2>1 DEF Send, Turns, Live
  <2> QED
    BY <1>2, <2>1 DEF Send, SlotInv, Excused, AbortedRevert
<1>3. ASSUME NEW p \in Procs, SendFails(p) PROVE SlotInv'
  <2>1. lost'[p] /\ \A q \in Procs : lost[q] => lost'[q]
    BY <1>3 DEF SendFails, TypeInv, TypeOK
  <2> QED
    BY <1>3, <2>1, FailsSlotInv DEF SendFails
<1>4. ASSUME NEW p \in Procs, RecvFails(p) PROVE SlotInv'
  <2>1. lost'[p] /\ \A q \in Procs : lost[q] => lost'[q]
    BY <1>4 DEF RecvFails, TypeInv, TypeOK
  <2> QED
    BY <1>4, <2>1, FailsSlotInv DEF RecvFails
<1>5. ASSUME NEW p \in Procs, RecvNothing(p) PROVE SlotInv'
  BY <1>5, FailsSlotInv DEF RecvNothing, DroppedPacket
<1>6. ASSUME NEW p \in Procs, RecvError(p) PROVE SlotInv'
  <2>1. com.from = p /\ com.what = Request(p).what
    BY <1>6 DEF RecvError, OwnAnswer
  <2>2. phase[p] # "end"
    BY <1>6, <2>1 DEF RecvError, ClosingAnswer, Request
  <2>3. ended[p] = "no"
    BY <1>6 DEF RecvError, Turns, Live
  <2>4. slot = p => lost[p] \/ (phase[p] \in {"auth", "method"} /\ tsn[p] = p)
    BY <1>6, <2>2, <2>3 DEF RecvError, SlotInv, Excused, AbortedRevert, Live
  <2> QED
    BY <1>6, <2>4, FailsSlotInv DEF RecvError
<1>7. ASSUME NEW p \in Procs, RecvStart(p) PROVE SlotInv'
  <2>1. com.tsn = p
    BY <1>7 DEF RecvStart, OwnAnswer, StartAnswer, Request
  <2>2. tsn'[p] = p /\ phase'[p] \in {"auth", "method"}
    BY <1>7, <2>1 DEF RecvStart, AfterStart, TypeInv, TypeOK
  <2>3. ASSUME NEW q \in Procs, q # p
        PROVE  /\ phase'[q] = phase[q] /\ tsn'[q] = tsn[q] /\ io'[q] = io[q]
               /\ io[q] = "ready"
    BY <1>7, <2>3 DEF RecvStart, Turns, TypeInv, TypeOK
  <2> QED
    BY <1>7, <2>2, <2>3 DEF RecvStart, SlotInv, Excused, AbortedRevert
<1>8. ASSUME NEW p \in Procs, RecvOk(p) PROVE SlotInv'
  <2>1. com.from = p /\ com.what = Request(p).what
    BY <1>8 DEF RecvOk, OwnAnswer
  <2>2. ASSUME NEW q \in Procs, q # p
        PROVE  /\ phase'[q] = phase[q] /\ io'[q] = io[q] /\ ended'[q] = ended[q]
               /\ io[q] = "ready"
    BY <1>8, <2>2 DEF RecvOk, Turns, TypeInv, TypeOK
  <2>3. ended[p] = "no" /\ phase[p] # "gone"
    BY <1>8 DEF RecvOk, Turns, Live
  <2>4. slot = p => lost[p] \/ (phase[p] \in {"auth", "method"} /\ tsn[p] = p)
    <3>1. phase[p] = "end" => slot = NoOne
      BY <1>8, <2>1 DEF RecvOk, ClosingAnswer, Request
    <3> QED
      BY <1>8, <2>3, <3>1 DEF RecvOk, SlotInv, Excused, AbortedRevert
  <2>5. slot = p /\ phase[p] \in {"auth", "method"} => phase'[p] \in {"method", "end"}
    <3>1. phase'[p] = AfterOk(p)
      BY <1>8 DEF RecvOk, TypeInv, TypeOK
    <3>2. phase[p] = "method" /\ cmd[p] \in Reverts => slot = NoOne
      BY <1>8, <2>1 DEF RecvOk, ClosingAnswer, Request
    <3>3. slot = p /\ phase[p] = "method" => ~AbortsNow(p)
      BY <1>8, <3>2 DEF RecvOk, AbortsNow, EarlyAbort, AbortsEarly, Reverts
    <3> QED
      BY <3>1, <3>3 DEF AfterOk
  <2>6. \A q \in Procs : slot = q /\ q # p =>
          \/ Excused(q)' \/ AbortedRevert(q)'
          \/ phase'[q] \in {"auth", "method", "end"} /\ tsn'[q] = q
    BY <1>8, <2>2 DEF RecvOk, SlotInv, Excused, AbortedRevert
  <2> QED
    BY <1>8, <2>4, <2>5, <2>6 DEF RecvOk, SlotInv, Excused
<1>9. ASSUME NEW p \in Procs, Exit(p) PROVE SlotInv'
  BY <1>9 DEF Exit, SlotInv, Excused, AbortedRevert, Turns, TypeInv, TypeOK
<1>10. ASSUME NEW p \in Procs, Interrupt(p) PROVE SlotInv'
  BY <1>10 DEF Interrupt, SlotInv, Excused, AbortedRevert, Turns, TypeInv, TypeOK
<1>11. CASE TPerManager
  <2>1. CASE slot' = slot
    BY <1>11, <2>1
    DEF TPerManager, hostVars, SlotInv, Excused, AbortedRevert
  <2>2. CASE slot' # slot
    <3>1. /\ com.state = "busy" /\ com.what = "start" /\ slot' = com.from
          /\ com'.state = "ready" /\ com'.from = com.from /\ com'.ok
      BY <1>11, <2>2 DEF TPerManager, Answers
    <3>2. Excused(com.from) \/ (io[com.from] = "sent" /\ phase[com.from] = "start")
      BY <3>1 DEF SenderWaits, OwnAnswer, Request
    <3> QED
      BY <1>11, <3>1, <3>2 DEF TPerManager, hostVars, SlotInv, Excused
  <2> QED
    BY <2>1, <2>2
<1>12. CASE TPerSession
  BY <1>12
  DEF TPerSession, hostVars, SlotInv, Excused, AbortedRevert
<1>13. CASE TPerDrops
  BY <1>13 DEF TPerDrops, hostVars, SlotInv, Excused, AbortedRevert
<1>14. CASE TPerTimeout
  BY <1>14 DEF TPerTimeout, SlotInv
<1>15. CASE PowerCycle
  BY <1>15 DEF PowerCycle, SlotInv
<1>16. CASE UNCHANGED vars
  BY <1>16 DEF vars, hostVars, SlotInv, Excused, AbortedRevert
<1> QED
  BY <1>1, <1>2, <1>3, <1>4, <1>5, <1>6, <1>7, <1>8, <1>9, <1>10, <1>11,
     <1>12, <1>13, <1>14, <1>15, <1>16 DEF Next, Step, Progress, TPer

LEMMA NextSenderWaits ==
  ASSUME Serial, IInv, [Next]_vars
  PROVE  SenderWaits'
<1> USE DEF IInv, OwnInv
<1> USE NoOneAssumption
<1>1. ASSUME NEW p \in Procs, Launch(p) PROVE SenderWaits'
  BY <1>1 DEF Launch, SenderWaits, Excused
<1>2. ASSUME NEW p \in Procs, Send(p) PROVE SenderWaits'
  BY <1>2 DEF Send, SenderWaits, Request, TypeInv, TypeOK
<1>3. ASSUME NEW p \in Procs, SendFails(p) PROVE SenderWaits'
  <2>1. lost'[p] /\ \A q \in Procs : lost[q] => lost'[q]
    BY <1>3 DEF SendFails, TypeInv, TypeOK
  <2> QED
    BY <1>3, <2>1, FailsMoves DEF SendFails, SenderWaits, Excused
<1>4. ASSUME NEW p \in Procs, RecvFails(p) PROVE SenderWaits'
  <2>1. lost'[p] /\ \A q \in Procs : lost[q] => lost'[q]
    BY <1>4 DEF RecvFails, TypeInv, TypeOK
  <2> QED
    BY <1>4, <2>1, FailsMoves DEF RecvFails, SenderWaits, Excused, Quiet
<1>5. ASSUME NEW p \in Procs, RecvNothing(p) PROVE SenderWaits'
  BY <1>5 DEF RecvNothing, SenderWaits
<1>6. ASSUME NEW p \in Procs, Interrupt(p) PROVE SenderWaits'
  BY <1>6 DEF Interrupt, SenderWaits, Excused, TypeInv, TypeOK
<1>7. ASSUME NEW p \in Procs,
             RecvError(p) \/ RecvStart(p) \/ RecvOk(p) \/ Exit(p)
      PROVE  SenderWaits'
  BY <1>7 DEF RecvError, RecvStart, RecvOk, Exit, SenderWaits, Quiet
<1>8. CASE TPerManager
  BY <1>8 DEF TPerManager, Answers, hostVars, SenderWaits, Excused
<1>9. CASE TPerSession
  BY <1>9 DEF TPerSession, Answers, hostVars, SenderWaits, Excused
<1>10. CASE TPerDrops \/ PowerCycle
  BY <1>10 DEF TPerDrops, PowerCycle, SenderWaits, Quiet
<1>11. CASE TPerTimeout \/ UNCHANGED vars
  BY <1>11 DEF TPerTimeout, vars, hostVars, SenderWaits, Excused
<1> QED
  BY <1>1, <1>2, <1>3, <1>4, <1>5, <1>6, <1>7, <1>8, <1>9, <1>10, <1>11
  DEF Next, Step, Progress, TPer

LEMMA NextClosingAnswer ==
  ASSUME IInv, [Next]_vars
  PROVE  ClosingAnswer'
<1> USE DEF IInv
<1>1. ASSUME NEW p \in Procs, Launch(p) \/ SendFails(p) \/ RecvNothing(p) \/ Interrupt(p)
      PROVE  ClosingAnswer'
  BY <1>1 DEF Launch, SendFails, RecvNothing, Interrupt, ClosingAnswer
<1>2. ASSUME NEW p \in Procs, Send(p) PROVE ClosingAnswer'
  BY <1>2 DEF Send, ClosingAnswer, Request
<1>3. ASSUME NEW p \in Procs,
             RecvFails(p) \/ RecvError(p) \/ RecvStart(p) \/ RecvOk(p) \/ Exit(p)
      PROVE  ClosingAnswer'
  BY <1>3 DEF RecvFails, RecvError, RecvStart, RecvOk, Exit, ClosingAnswer, Quiet
<1>4. CASE TPerManager
  BY <1>4 DEF TPerManager, Answers, ClosingAnswer
<1>5. CASE TPerSession
  BY <1>5 DEF TPerSession, Answers, ClosingAnswer
<1>6. CASE TPerDrops \/ PowerCycle
  BY <1>6 DEF TPerDrops, PowerCycle, ClosingAnswer, Quiet
<1>7. CASE TPerTimeout \/ UNCHANGED vars
  BY <1>7 DEF TPerTimeout, vars, ClosingAnswer
<1> QED
  BY <1>1, <1>2, <1>3, <1>4, <1>5, <1>6, <1>7 DEF Next, Step, Progress, TPer

LEMMA NextDroppedPacket ==
  ASSUME Serial, IInv, [Next]_vars
  PROVE  DroppedPacket'
<1> USE DEF IInv, OwnInv
<1> USE NoOneAssumption
<1>1. ASSUME NEW p \in Procs, Launch(p) \/ Interrupt(p) PROVE DroppedPacket'
  BY <1>1 DEF Launch, Interrupt, DroppedPacket, TypeInv, TypeOK
<1>2. ASSUME NEW p \in Procs, Send(p) PROVE DroppedPacket'
  BY <1>2 DEF Send, DroppedPacket, Request
<1>3. ASSUME NEW p \in Procs,
             SendFails(p) \/ RecvFails(p) \/ RecvNothing(p) \/ RecvError(p)
      PROVE  DroppedPacket'
  <2>1. \A q \in Procs : io'[q] = "ready"
    BY <1>3, FailsTurns DEF SendFails, RecvFails, RecvNothing, RecvError
  <2> QED
    BY <2>1 DEF DroppedPacket
<1>4. ASSUME NEW p \in Procs, RecvStart(p) \/ RecvOk(p) \/ Exit(p)
      PROVE  DroppedPacket'
  <2>1. \A q \in Procs : io'[q] = "ready"
    BY <1>4 DEF RecvStart, RecvOk, Exit, Turns, TypeInv, TypeOK
  <2> QED
    BY <2>1 DEF DroppedPacket
<1>5. CASE TPerManager
  BY <1>5 DEF TPerManager, Answers, DroppedPacket
<1>6. CASE TPerSession
  BY <1>6 DEF TPerSession, Answers, DroppedPacket
<1>7. CASE TPerDrops
  <2>1. SUFFICES ASSUME NEW p \in Procs, io[p] = "sent", slot = p
                 PROVE  lost[p]
    BY <1>7 DEF TPerDrops, hostVars, DroppedPacket
  <2>2. com.tsn = tsn[p] /\ com.tsn # p
    BY <1>7, <2>1 DEF TPerDrops, PacketTSN
  <2>3. ended[p] = "no" /\ phase[p] # "gone"
    BY <2>1 DEF Turns, Live
  <2> QED
    BY <1>7, <2>1, <2>2, <2>3
    DEF TPerDrops, SlotInv, Excused, AbortedRevert
<1>8. CASE TPerTimeout
  BY <1>8 DEF TPerTimeout, DroppedPacket
<1>9. CASE PowerCycle
  BY <1>9 DEF PowerCycle, DroppedPacket
<1>10. CASE UNCHANGED vars
  BY <1>10 DEF vars, hostVars, DroppedPacket
<1> QED
  BY <1>1, <1>2, <1>3, <1>4, <1>5, <1>6, <1>7, <1>8, <1>9, <1>10
  DEF Next, Step, Progress, TPer

LEMMA NextEarlyAbort ==
  ASSUME IInv, [Next]_vars
  PROVE  EarlyAbort'
<1> USE DEF IInv, OwnInv
<1>1. ASSUME NEW p \in Procs, Launch(p) PROVE EarlyAbort'
  BY <1>1 DEF Launch, EarlyAbort, Live, AbortsEarly, TypeInv, TypeOK
<1>2. ASSUME NEW p \in Procs,
             Send(p) \/ Exit(p) \/ Interrupt(p)
      PROVE  EarlyAbort'
  BY <1>2 DEF Send, Exit, Interrupt, EarlyAbort, Live, TypeInv, TypeOK, AbortsEarly
<1>3. ASSUME NEW p \in Procs,
             SendFails(p) \/ RecvFails(p) \/ RecvNothing(p) \/ RecvError(p)
      PROVE  EarlyAbort'
  <2>1. Live(p) /\ Fails(p) /\ UNCHANGED <<willAbort, cmd>>
    BY <1>3 DEF SendFails, RecvFails, RecvNothing, RecvError
  <2>2. \A q \in Procs \ {p} : phase'[q] = phase[q]
    BY <2>1, FailsMoves
  <2>3. phase'[p] \in {"start", "end", "gone"}
    BY <2>1, FailsMoves DEF Live, Phases, TypeInv, TypeOK
  <2> QED
    BY <2>1, <2>2, <2>3 DEF EarlyAbort, Live, AbortsEarly
<1>4. ASSUME NEW p \in Procs, RecvStart(p) PROVE EarlyAbort'
  BY <1>4 DEF RecvStart, EarlyAbort, Live, AbortsEarly, TypeInv, TypeOK
<1>5. ASSUME NEW p \in Procs, RecvOk(p) PROVE EarlyAbort'
  <2>1. ASSUME NEW q \in Procs, q # p
        PROVE  phase'[q] = phase[q] /\ willAbort'[q] = willAbort[q]
    BY <1>5, <2>1 DEF RecvOk, TypeInv, TypeOK
  <2>2. phase'[p] = AfterOk(p) /\ willAbort'[p] = AbortsNow(p) /\ cmd' = cmd
    BY <1>5 DEF RecvOk, TypeInv, TypeOK
  <2>3. phase[p] = "method" /\ cmd[p] \in Reverts => AfterOk(p) = "gone"
    BY DEF AfterOk, AbortsNow, LeftInv, TypeInv, TypeOK
  <2>4. willAbort'[p] /\ phase'[p] # "gone" => Live(p)' /\ AbortsEarly(cmd'[p])
    <3>1. AfterOk(p) # "new"
      BY DEF AfterOk
    <3>2. AbortsNow(p) /\ AfterOk(p) # "gone" => AbortsEarly(cmd[p])
      BY <1>5, <2>3 DEF AbortsNow, EarlyAbort, RecvOk, Live
    <3> QED
      BY <2>2, <3>1, <3>2 DEF Live
  <2> QED
    BY <2>1, <2>2, <2>4 DEF EarlyAbort, Live, AbortsEarly
<1>6. CASE TPerManager \/ TPerSession \/ TPerDrops \/ TPerTimeout \/ UNCHANGED vars
  BY <1>6 DEF TPerManager, TPerSession, TPerDrops, TPerTimeout, vars, hostVars,
              EarlyAbort, Live, AbortsEarly
<1>7. CASE PowerCycle
  BY <1>7 DEF PowerCycle, EarlyAbort, Live
<1> QED
  BY <1>1, <1>2, <1>3, <1>4, <1>5, <1>6, <1>7 DEF Next, Step, Progress, TPer

LEMMA InvariantIInv == ASSUME Serial PROVE Spec => []IInv
<1>1. Init => IInv
  BY InitTypeInv, InitOwnInv, InitSlotInv DEF IInv
<1>2. ASSUME IInv, [Next]_vars PROVE IInv'
  <2>1. TypeInv'
    BY <1>2, NextTypeInv DEF IInv
  <2>2. OwnInv'
    BY <1>2, NextOwnInv DEF IInv
  <2>3. SenderWaits' /\ ClosingAnswer' /\ DroppedPacket' /\ EarlyAbort'
    BY <1>2, NextSenderWaits, NextClosingAnswer, NextDroppedPacket, NextEarlyAbort
  <2>4. SlotInv'
    BY <1>2, NextSlotInv
  <2> QED
    BY <2>1, <2>2, <2>3, <2>4 DEF IInv
<1> QED
  BY <1>1, <1>2, PTL DEF Spec

(* A command that returns without a transport error leaves the drive's     *)
(* session slot free, unless it is a revert that failed after              *)
(* expectAbort(): for any number of commands run one after the other, with *)
(* ^C, exit() and power cycles at any point in the earlier ones.           *)
THEOREM SlotIsLeftFree == ASSUME Serial PROVE Spec => []OnlyAbortedRevertLeaks
<1>1. IInv => OnlyAbortedRevertLeaks
  BY DEF IInv, SlotInv, Excused, AbortedRevert, OnlyAbortedRevertLeaks,
         ReturnedClean
<1> QED
  BY <1>1, InvariantIInv, PTL

-----------------------------------------------------------------------------
(* What an Opal host believes of its session.                              *)

NoTSNYet == \A p \in Procs : phase[p] \in {"new", "props", "start"} => tsn[p] = NoOne

(* A process that knows a TSN and has met no transport error: the slot is  *)
(* its own, except between the drive's closing of the session and the      *)
(* reading of the answer that tells so.                                    *)
InSession(p) == phase[p] \in {"auth", "method", "end"} /\ tsn[p] # NoOne /\ ~lost[p]
Closed == com.state = "ready" /\ com.ok /\ com.what \in {"end", "revert"}
HostInv ==
  \A p \in Procs :
    /\ InSession(p) /\ (io[p] = "ready" \/ ~Closed) => slot = p
    /\ InSession(p) /\ io[p] = "sent" => com.state # "idle"
    /\ phase[p] = "start" /\ io[p] = "sent" /\ com.state = "ready" /\ com.ok
       => slot = p

LEMMA NextNoTSNYet ==
  ASSUME Serial, IInv, NoTSNYet, [Next]_vars
  PROVE  NoTSNYet'
<1> USE DEF IInv, OwnInv
<1>1. ASSUME NEW p \in Procs, Launch(p) PROVE NoTSNYet'
  BY <1>1 DEF Launch, NoTSNYet, TypeInv, TypeOK
<1>2. ASSUME NEW p \in Procs, Send(p) \/ Exit(p) \/ Interrupt(p) PROVE NoTSNYet'
  BY <1>2 DEF Send, Exit, Interrupt, NoTSNYet, TypeInv, TypeOK
<1>3. ASSUME NEW p \in Procs,
             SendFails(p) \/ RecvFails(p) \/ RecvNothing(p) \/ RecvError(p)
      PROVE  NoTSNYet'
  <2>1. Live(p) /\ Fails(p) /\ UNCHANGED tsn
    BY <1>3 DEF SendFails, RecvFails, RecvNothing, RecvError
  <2>2. /\ phase'[p] = "start" => phase[p] = "props"
        /\ phase'[p] \in {"start", "end", "gone"}
        /\ \A q \in Procs \ {p} : phase'[q] = phase[q]
    BY <2>1, FailsMoves DEF Live, Phases, TypeInv, TypeOK
  <2> QED
    BY <2>1, <2>2 DEF NoTSNYet
<1>4. ASSUME NEW p \in Procs, RecvStart(p) PROVE NoTSNYet'
  BY <1>4 DEF RecvStart, AfterStart, NoTSNYet, TypeInv, TypeOK
<1>5. ASSUME NEW p \in Procs, RecvOk(p) PROVE NoTSNYet'
  BY <1>5 DEF RecvOk, AfterOk, NoTSNYet, TypeInv, TypeOK
<1>6. CASE TPer \/ TPerTimeout \/ UNCHANGED vars
  BY <1>6 DEF TPer, TPerManager, TPerSession, TPerDrops, TPerTimeout, vars,
              hostVars, NoTSNYet
<1>7. CASE PowerCycle
  BY <1>7 DEF PowerCycle, NoTSNYet
<1> QED
  BY <1>1, <1>2, <1>3, <1>4, <1>5, <1>6, <1>7 DEF Next, Step, Progress

LEMMA NextHostInv ==
  ASSUME Serial, ~Eprise, IInv, NoTSNYet, HostInv, [Next]_vars
  PROVE  HostInv'
<1> USE DEF IInv, OwnInv
<1> USE NoOneAssumption
<1>0. ASSUME NEW p \in Procs, NEW q \in Procs, Live(p), q # p PROVE ~InSession(q) /\ io[q] = "ready"
  BY <1>0 DEF Turns, InSession, Live, TypeInv, TypeOK
<1>1. ASSUME NEW p \in Procs, Launch(p) PROVE HostInv'
  <2>1. \A q \in Procs : ~InSession(q)'
    BY <1>1 DEF Launch, InSession, Live, TypeInv, TypeOK
  <2>2. \A q \in Procs : io'[q] = "ready"
    BY <1>1 DEF Launch, Turns, TypeInv, TypeOK
  <2> QED
    BY <2>1, <2>2 DEF HostInv
<1>2. ASSUME NEW p \in Procs, Send(p) PROVE HostInv'
  <2>1. com'.state = "busy" /\ ~Closed' /\ slot' = slot
    BY <1>2 DEF Send, Request, Closed
  <2>2. InSession(p)' => slot = p
    BY <1>2 DEF Send, InSession, HostInv
  <2>3. \A q \in Procs \ {p} : ~InSession(q)'
    BY <1>0, <1>2 DEF Send, InSession
  <2> QED
    BY <2>1, <2>2, <2>3 DEF HostInv
<1>3. ASSUME NEW p \in Procs, SendFails(p) \/ RecvFails(p) PROVE HostInv'
  <2>1. lost'[p] /\ \A q \in Procs \ {p} : ~InSession(q)'
    <3>1. Live(p) /\ Fails(p) /\ lost' = [lost EXCEPT ![p] = TRUE] /\ tsn' = tsn
      BY <1>3 DEF SendFails, RecvFails
    <3> QED
      BY <1>0, <3>1, FailsMoves DEF InSession, TypeInv, TypeOK
  <2>2. \A q \in Procs : io'[q] = "ready"
    BY <1>3, FailsTurns DEF SendFails, RecvFails
  <2> QED
    BY <2>1, <2>2 DEF HostInv, InSession
<1>4. ASSUME NEW p \in Procs, RecvNothing(p) \/ RecvError(p) PROVE HostInv'
  <2>1. /\ Live(p) /\ Fails(p) /\ UNCHANGED <<tsn, lost, slot>>
        /\ io[p] = "sent" /\ (com.state = "idle" \/ (com.state = "ready" /\ ~com.ok))
    BY <1>4 DEF RecvNothing, RecvError
  <2>2. \A q \in Procs : io'[q] = "ready" /\ (q # p => ~InSession(q)')
    BY <1>0, <2>1, FailsMoves, FailsTurns DEF InSession
  <2>3. InSession(p)' => InSession(p)
    BY <2>1, FailsMoves DEF InSession, NoTSNYet, Live, Phases, TypeInv, TypeOK
  <2>4. InSession(p) => slot = p
    BY <2>1 DEF HostInv, Closed
  <2> QED
    BY <2>1, <2>2, <2>3, <2>4 DEF HostInv
<1>5. ASSUME NEW p \in Procs, RecvStart(p) PROVE HostInv'
  <2>1. slot = p /\ slot' = slot
    BY <1>5 DEF RecvStart, HostInv
  <2>2. \A q \in Procs : io'[q] = "ready" /\ (q # p => ~InSession(q)')
    BY <1>0, <1>5 DEF RecvStart, InSession, TypeInv, TypeOK
  <2> QED
    BY <2>1, <2>2 DEF HostInv
<1>6. ASSUME NEW p \in Procs, RecvOk(p) PROVE HostInv'
  <2>1. \A q \in Procs : io'[q] = "ready" /\ (q # p => ~InSession(q)')
    BY <1>0, <1>6 DEF RecvOk, InSession, TypeInv, TypeOK
  <2>2. phase'[p] = AfterOk(p) /\ UNCHANGED <<tsn, lost, slot>>
    BY <1>6 DEF RecvOk, TypeInv, TypeOK
  <2>3. InSession(p)' => InSession(p) /\ ~Closed
    <3>1. com.what = Request(p).what
      BY <1>6 DEF RecvOk, OwnAnswer
    <3>2. Closed => AfterOk(p) = "gone"
      BY <1>6, <3>1 DEF Closed, Request, RecvOk, AfterOk, AbortsNow, LeftInv,
                        TypeInv, TypeOK, Live
    <3> QED
      BY <1>6, <2>2, <3>2 DEF InSession, AfterOk, NoTSNYet, RecvOk
  <2> QED
    BY <2>1, <2>2, <2>3 DEF HostInv
<1>7. ASSUME NEW p \in Procs, Exit(p) \/ Interrupt(p) PROVE HostInv'
  <2>1. \A q \in Procs : io'[q] = "ready" /\ ~InSession(q)'
    BY <1>0, <1>7 DEF Exit, Interrupt, InSession, TypeInv, TypeOK
  <2> QED
    BY <2>1 DEF HostInv
<1>8. CASE TPerManager
  <2>1. SUFFICES ASSUME NEW p \in Procs
                 PROVE  /\ InSession(p) => slot' = p
                        /\ phase[p] = "start" /\ io[p] = "sent" /\ com'.ok => slot' = p
    BY <1>8 DEF TPerManager, Answers, hostVars, HostInv, InSession
  <2>2. InSession(p) => slot' = p
    BY <1>8 DEF TPerManager, HostInv, Closed
  <2>3. phase[p] = "start" /\ io[p] = "sent" /\ com'.ok => slot' = p
    BY <1>8 DEF TPerManager, Answers, OwnAnswer, Request
  <2> QED
    BY <2>2, <2>3
<1>9. CASE TPerSession
  <2>1. ~Closed' => slot' = slot
    BY <1>9 DEF TPerSession, Answers, Closed
  <2>2. ASSUME NEW p \in Procs, InSession(p)
        PROVE  io[p] = "sent" \/ ~Closed'
    <3>1. ASSUME io[p] = "ready", Closed' PROVE FALSE
      <4>1. com.state = "busy" /\ com.tsn = slot /\ slot = p
        BY <1>9, <2>2, <3>1 DEF TPerSession, HostInv
      <4>2. com.from \in Procs /\ (Excused(com.from) \/ io[com.from] = "sent")
        BY <4>1 DEF SenderWaits
      <4> QED
        BY <1>9, <2>2, <3>1, <4>1, <4>2
        DEF TPerSession, PacketTSN, Excused, InSession, Turns
    <3> QED
      BY <3>1 DEF TypeInv, TypeOK
  <2> QED
    <3>1. com.state = "busy" /\ com'.state = "ready" /\ ~Closed
      BY <1>9 DEF TPerSession, Answers, Closed
    <3>2. \A p \in Procs : InSession(p)' = InSession(p) /\ io'[p] = io[p]
                            /\ phase'[p] = phase[p]
      BY <1>9 DEF TPerSession, hostVars, InSession
    <3>3. \A p \in Procs : ~(phase[p] = "start" /\ io[p] = "sent")
      BY <1>9 DEF TPerSession, OwnAnswer, Request
    <3>4. ASSUME NEW p \in Procs, InSession(p), io[p] = "ready" \/ ~Closed'
          PROVE  slot' = p
      BY <2>1, <2>2, <3>1, <3>4 DEF HostInv
    <3> QED
      BY <3>1, <3>2, <3>3, <3>4 DEF HostInv
<1>10. CASE TPerDrops
  <2>1. ASSUME NEW p \in Procs, InSession(p) PROVE io[p] = "ready" /\ slot = p
    <3>1. slot = p /\ tsn[p] = p
      BY <1>10, <2>1 DEF TPerDrops, HostInv, Closed, OwnSession, InSession
    <3>2. io[p] # "sent"
      BY <1>10, <3>1 DEF TPerDrops, PacketTSN
    <3> QED
      BY <3>1, <3>2 DEF TypeInv, TypeOK
  <2> QED
    BY <1>10, <2>1 DEF TPerDrops, hostVars, HostInv, InSession, Quiet
<1>11. CASE TPerTimeout \/ UNCHANGED vars
  BY <1>11 DEF TPerTimeout, AsksTimeout, vars, hostVars, HostInv, InSession, Closed
<1>12. CASE PowerCycle
  BY <1>12 DEF PowerCycle, HostInv, InSession, Live
<1> QED
  BY <1>1, <1>2, <1>3, <1>4, <1>5, <1>6, <1>7, <1>8, <1>9, <1>10, <1>11, <1>12
  DEF Next, Step, Progress, TPer

(* On an Opal drive, when commands do not overlap, a command that has met  *)
(* no transport error finds the session it is about to use, or to end,     *)
(* open in the drive.                                                      *)
THEOREM HostViewHolds == ASSUME Serial PROVE Spec => []HostViewIsTrue
<1>1. CASE Eprise
  <2>1. HostViewIsTrue
    BY <1>1 DEF HostViewIsTrue
  <2> QED
    BY <2>1, PTL
<1>2. CASE ~Eprise
  <2>1. Init => NoTSNYet /\ HostInv
    BY DEF Init, NoTSNYet, HostInv, InSession
  <2>2. IInv /\ NoTSNYet /\ HostInv /\ [Next]_vars => NoTSNYet' /\ HostInv'
    BY <1>2, NextNoTSNYet, NextHostInv
  <2>3. Spec => [](NoTSNYet /\ HostInv /\ IInv)
    BY <2>1, <2>2, InvariantIInv, PTL DEF Spec
  <2>4. IInv /\ HostInv => HostViewIsTrue
    BY DEF IInv, OwnInv, OwnSession, HostInv, InSession, HostViewIsTrue
  <2> QED
    BY <2>3, <2>4, PTL
<1> QED
  BY <1>1, <1>2, ModeAssumption
=============================================================================
