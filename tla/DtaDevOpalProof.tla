--------------------------- MODULE DtaDevOpalProof ----------------------------
(***************************************************************************)
(* Proofs about DtaDevOpal, for any processes, commands, ranges, passwords *)
(* and places.  The inductive invariant adds to the types what is true of  *)
(* the drive and of the sessions still to be opened (OpalHandlersProof),   *)
(* that at most one process is in a session, that the LockingSP is active  *)
(* in a session of it, and what PSIDrevert has still to do.                *)
(***************************************************************************)
EXTENDS DtaDevOpal, OpalHandlersProof

DriveSane == Sane(drive) /\ drive.pin[PSIDOwner] = Raw(PSID)

Planned ==
  \A p \in Procs : /\ todo[p] \in Seq(SoundSessions(job[p].n))
                   /\ Runs(p) => todo[p] # <<>>

(* Its session is the drive's, and of a LockingSP that is active.          *)
InSession ==
  \A p \in Procs : state[p] = "session" =>
    /\ holder = p
    /\ Here(p).sp = "Locking" => drive.active

(* PSIDrevert is one session of one method.                                *)
Reverting ==
  \A p \in Procs : Runs(p) /\ job[p].cmd = "PSIDrevert" => todo[p] = revertTPer(job[p], TRUE)

Sound == TypeOK /\ DriveSane /\ Planned /\ InSession
IInv == Sound /\ Reverting

(* With hashed passwords: the MSID is the PIN of the SID only while the    *)
(* LockingSP is inactive, and nobody is about to activate it with that.    *)
Owned ==
  /\ drive.pin[SID] = Raw(MSID) => ~drive.active
  /\ \A p \in Procs : state[p] = "session" /\ Activates(Here(p)) => drive.pin[SID] # Raw(MSID)

-----------------------------------------------------------------------------
(* A process                                                               *)

LEMMA JobTyped ==
  ASSUME NEW j \in Jobs
  PROVE  j \in JobRecords /\ j.cmd \in CommandNames /\ Addressed(j) /\ j.n \in NoHash
<1>1. PICK k \in UNION {Arguments(c) : c \in Commands} : \E n \in NoHash : j = [k EXCEPT !.n = n]
  BY DEF Jobs
<1>2. PICK c \in Commands : k \in Arguments(c)
  BY <1>1
<1>3. PICK n \in NoHash : j = [k EXCEPT !.n = n]
  BY <1>1
<1>4. c \in CommandNames
  BY CommandAssumption
<1>5. k \in JobRecords /\ k.cmd = c /\ Addressed(k)
  BY <1>2, <1>4, ArgumentsTyped
<1>6. j \in JobRecords /\ j.cmd = c /\ j.user = k.user /\ j.n = n
  BY <1>3, <1>5, HashAssumption DEF JobRecords
<1>. QED
  BY <1>4, <1>5, <1>6 DEF Addressed

LEMMA JobsTyped ==
  ASSUME TypeOK, NEW p \in Procs
  PROVE  job[p] \in JobRecords /\ job[p].n \in BOOLEAN
<1>1. job[p] \in Jobs \cup {NoJob}
  BY DEF TypeOK
<1>2. job[p] \in JobRecords
  BY <1>1, JobTyped, NoJobTyped
<1>. QED
  BY <1>2 DEF JobRecords

LEMMA SoundAreSessions == \A n : \A s \in Seq(SoundSessions(n)) : s \in Seq(Sessions)
BY DEF SoundSessions

LEMMA PlansSound == \A n : \A s \in Plans(n) : s \in Seq(SoundSessions(n)) /\ s # <<>>
BY DEF Plans

LEMMA HeadTail == \A S : \A s \in Seq(S) : s # <<>> => Head(s) \in S /\ Tail(s) \in Seq(S)
OBVIOUS

LEMMA TailRemains == \A S : \A s \in Seq(S) : s # <<>> /\ Len(s) # 1 => Tail(s) # <<>>
<1>. SUFFICES ASSUME NEW S, NEW s \in Seq(S), s # <<>>, Len(s) # 1 PROVE Tail(s) # <<>>
  OBVIOUS
<1>1. Len(s) \in Nat /\ Len(s) - 1 # 0 /\ Len(Tail(s)) = Len(s) - 1 /\ Len(<<>>) = 0
  OBVIOUS
<1>. QED
  BY <1>1, Zenon

(* The session a process is in, or about to open.                          *)
LEMMA HereSound ==
  ASSUME TypeOK, Planned, NEW p \in Procs, Runs(p)
  PROVE  /\ todo[p] # <<>> /\ todo[p] \in Seq(SoundSessions(job[p].n))
         /\ Here(p) \in SoundSessions(job[p].n) /\ Here(p) \in Sessions
         /\ Tail(todo[p]) \in Seq(SoundSessions(job[p].n))
         /\ Here(p).methods \in Seq(SoundMethods(job[p].n))
<1>1. todo[p] # <<>> /\ todo[p] \in Seq(SoundSessions(job[p].n))
  BY DEF Planned
<1>2. Here(p) \in SoundSessions(job[p].n) /\ Tail(todo[p]) \in Seq(SoundSessions(job[p].n))
  BY <1>1, HeadTail, Zenon DEF Here
<1>. QED
  BY <1>1, <1>2 DEF SoundSessions

LEMMA HeadMethodSound ==
  ASSUME TypeOK, Planned, NEW p \in Procs, Runs(p), Here(p).methods # <<>>
  PROVE  /\ Head(Here(p).methods) \in SoundMethods(job[p].n)
         /\ Tail(Here(p).methods) \in Seq(SoundMethods(job[p].n))
BY HereSound, HeadTail, Zenon

(* A session goes on with the methods after the first.                     *)
LEMMA TailSessionSound ==
  ASSUME NEW n, NEW s \in SoundSessions(n), s.methods # <<>>
  PROVE  LET t == [s EXCEPT !.methods = Tail(s.methods)] IN
         /\ t \in SoundSessions(n) /\ t.sp = s.sp /\ t.auth = s.auth /\ t.pin = s.pin
         /\ t.methods = Tail(s.methods)
         /\ Activates(t) => Activates(s)
         /\ Raises(t) => Raises(s)
<1>. DEFINE ms == Tail(s.methods)
            t == [s EXCEPT !.methods = ms]
<1>1. s \in Sessions /\ s.methods \in Seq(SoundMethods(n)) /\ s.methods \in Seq(Methods)
  BY DEF SoundSessions, Sessions
<1>2. /\ ms \in Seq(SoundMethods(n)) /\ ms \in Seq(Methods)
      /\ \A i \in 1..Len(ms) : i + 1 \in 1..Len(s.methods) /\ ms[i] = s.methods[i + 1]
  BY <1>1
<1>. HIDE DEF ms
<1>3. t \in Sessions /\ t.methods = ms /\ t.sp = s.sp /\ t.auth = s.auth /\ t.pin = s.pin
  BY <1>1, <1>2 DEF Sessions
<1>. HIDE DEF t
<1>4. (Activates(t) => Activates(s)) /\ (Raises(t) => Raises(s))
  BY <1>2, <1>3 DEF Activates, Raises
<1>5. Activation(s) => Activation(t)
  BY <1>2, <1>3 DEF Activation
<1>6. t \in SoundSessions(n)
  BY <1>2, <1>3, <1>4, <1>5 DEF SoundSessions
<1>. QED
  BY <1>3, <1>4, <1>6 DEF t, ms

(* Only one process can be in a session.                                   *)
LEMMA Alone ==
  ASSUME InSession, NEW p \in Procs, state[p] = "session"
  PROVE  holder = p /\ \A q \in Procs \ {p} : state[q] # "session"
BY DEF InSession

-----------------------------------------------------------------------------
(* The steps                                                               *)

(* A step at which the command of p ends.                                  *)
LEMMA EndsSound ==
  ASSUME Sound, NEW p \in Procs, NEW result \in {"ok", "err", "killed"}, Ends(p, result),
         DriveSane', holder' \in Procs \cup {NoOne}, fault' \in [Procs -> BOOLEAN],
         \A q \in Procs \ {p} : state[q] = "session" => holder' = q /\ drive' = drive
  PROVE  Sound' /\ (Reverting => Reverting')
<1>1. /\ job' = [job EXCEPT ![p] = NoJob] /\ state' = [state EXCEPT ![p] = result]
      /\ todo' = [todo EXCEPT ![p] = <<>>] /\ was' = [was EXCEPT ![p] = Factory]
  BY DEF Ends
<1>2. /\ job \in [Procs -> Jobs \cup {NoJob}]
      /\ state \in [Procs -> {"idle", "running", "session", "ok", "err", "killed"}]
      /\ todo \in [Procs -> Seq(Sessions)] /\ was \in [Procs -> Drives]
  BY DEF Sound, TypeOK
<1>3. Factory \in Drives /\ <<>> \in Seq(Sessions)
  BY FactorySane DEF Sane
<1>4. TypeOK'
  BY <1>1, <1>2, <1>3 DEF TypeOK, DriveSane, Sane
<1>5. /\ state'[p] = result /\ todo'[p] = <<>>
      /\ \A q \in Procs \ {p} :
           state'[q] = state[q] /\ todo'[q] = todo[q] /\ job'[q] = job[q]
  BY <1>1, <1>2
<1>6. Planned'
  <2>. SUFFICES ASSUME NEW q \in Procs
                PROVE  /\ todo'[q] \in Seq(SoundSessions(job'[q].n))
                       /\ state'[q] \in {"running", "session"} => todo'[q] # <<>>
    BY DEF Planned, Runs
  <2>1. CASE q = p
    <3>1. \A n : <<>> \in Seq(SoundSessions(n))
      OBVIOUS
    <3>2. state'[q] = result /\ todo'[q] = <<>>
      BY <1>5, <2>1
    <3>. QED
      BY <3>1, <3>2
  <2>2. CASE q # p
    BY <1>5, <2>2 DEF Sound, Planned, Runs
  <2>. QED
    BY <2>1, <2>2
<1>7. InSession'
  BY <1>5 DEF Sound, InSession, Here
<1>8. ASSUME Reverting, NEW q \in Procs, Runs(q)', job'[q].cmd = "PSIDrevert"
      PROVE  todo'[q] = revertTPer(job'[q], TRUE)
  BY <1>5, <1>8 DEF Reverting, Runs
<1>. QED
  BY <1>4, <1>6, <1>7, <1>8 DEF Sound, Reverting

LEMMA FaultyTyped == ASSUME TypeOK, NEW p \in Procs, Faulty(p) PROVE fault' \in [Procs -> BOOLEAN]
BY DEF TypeOK, Faulty

LEMMA LaunchSound ==
  ASSUME IInv, NEW p \in Procs, Launch(p)
  PROVE  IInv'
<1>1. PICK j \in Jobs : /\ job' = [job EXCEPT ![p] = j]
                        /\ todo' = [todo EXCEPT ![p] = Handler(j, drive)]
  BY DEF Launch
<1>. DEFINE s == Handler(j, drive)
<1>2. j \in JobRecords /\ s \in Plans(j.n)
  BY JobTyped, HandlerSound
<1>3. j.cmd = "PSIDrevert" => s = revertTPer(j, TRUE)
  BY DEF Handler
<1>. HIDE DEF s
<1>4. s \in Seq(SoundSessions(j.n)) /\ s # <<>> /\ s \in Seq(Sessions)
  BY <1>2, PlansSound, SoundAreSessions
<1>5. /\ state' = [state EXCEPT ![p] = "running"] /\ was' = [was EXCEPT ![p] = drive]
      /\ fault' = [fault EXCEPT ![p] = FALSE] /\ UNCHANGED <<drive, holder>>
      /\ job' = [job EXCEPT ![p] = j] /\ todo' = [todo EXCEPT ![p] = s]
  BY <1>1 DEF Launch, s
<1>6. TypeOK'
  BY <1>4, <1>5 DEF IInv, Sound, TypeOK
<1>7. /\ state'[p] = "running" /\ todo'[p] = s /\ job'[p] = j
      /\ \A q \in Procs \ {p} :
           state'[q] = state[q] /\ todo'[q] = todo[q] /\ job'[q] = job[q]
  BY <1>5 DEF IInv, Sound, TypeOK
<1>8. Planned'
  BY <1>4, <1>7 DEF IInv, Sound, Planned, Runs
<1>9. InSession'
  BY <1>5, <1>7 DEF IInv, Sound, InSession, Here
<1>10. Reverting'
  BY <1>3, <1>7 DEF IInv, Reverting, Runs
<1>. QED
  BY <1>5, <1>6, <1>8, <1>9, <1>10 DEF IInv, Sound, DriveSane

LEMMA StartSound ==
  ASSUME IInv, NEW p \in Procs, Start(p)
  PROVE  IInv'
<1>1. /\ state[p] = "running" /\ Admits(drive, Here(p)) /\ holder = NoOne /\ holder' = p
      /\ state' = [state EXCEPT ![p] = "session"] /\ UNCHANGED <<drive, job, todo, was, fault>>
  BY DEF Start
<1>2. TypeOK'
  BY <1>1 DEF IInv, Sound, TypeOK
<1>3. state'[p] = "session" /\ \A q \in Procs \ {p} : state'[q] = state[q]
  BY <1>1 DEF IInv, Sound, TypeOK
<1>4. \A q \in Procs : state[q] # "session"
  BY <1>1, NoOneAssumption DEF IInv, Sound, InSession
<1>5. Planned' /\ Reverting'
  BY <1>1, <1>3 DEF IInv, Sound, Planned, Reverting, Runs
<1>6. InSession'
  BY <1>1, <1>3, <1>4 DEF InSession, Admits, Here
<1>. QED
  BY <1>1, <1>2, <1>5, <1>6 DEF IInv, Sound, DriveSane

(* What the drive does at a method, as IInv needs it.                      *)
LEMMA StepSane ==
  ASSUME IInv, NEW p \in Procs, state[p] = "session", Here(p).methods # <<>>,
         Permits(drive, Here(p).auth, Head(Here(p).methods))
  PROVE  LET m == Head(Here(p).methods) d == Performed(drive, m) IN
         /\ Sane(d) /\ d.pin[PSIDOwner] = Raw(PSID)
         /\ ~Drops(m) /\ drive.active => d.active
<1>. DEFINE m == Head(Here(p).methods)
            n == job[p].n
<1>1. Runs(p)
  BY DEF Runs
<1>2. m \in SoundMethods(n) /\ Here(p) \in SoundSessions(n)
  BY <1>1, HeadMethodSound, HereSound DEF IInv, Sound
<1>3. Here(p).auth \in Users \cup {Admin1} => drive.active
  BY <1>2 DEF IInv, Sound, InSession, SoundSessions
<1>. QED
  BY <1>2, <1>3, MethodSane DEF IInv, Sound, DriveSane, Drops

(* A step that fails, is refused, or ends a session for good.              *)
LEMMA QuitSound ==
  ASSUME IInv, NEW p \in Procs,
         \/ Refused(p) \/ Busy(p) \/ StartFails(p)
         \/ CallRefused(p) \/ CallFails(p) \/ Interrupt(p)
  PROVE  IInv'
<1>. USE DEF IInv
<1>0. fault \in [Procs -> BOOLEAN] /\ holder \in Procs \cup {NoOne}
  BY DEF Sound, TypeOK
<1>1. ASSUME drive' = drive PROVE DriveSane'
  BY <1>1 DEF Sound, DriveSane
<1>2. CASE Refused(p)
  BY <1>0, <1>1, <1>2, EndsSound DEF Refused, Sound, InSession
<1>3. CASE Busy(p)
  BY <1>0, <1>1, <1>3, EndsSound, FaultyTyped DEF Busy, Sound, InSession
<1>4. CASE StartFails(p)
  <2>1. holder' = holder \/ (holder = NoOne /\ holder' = p)
    BY <1>4 DEF StartFails
  <2>2. holder' \in Procs \cup {NoOne}
    BY <1>0, <2>1
  <2>3. \A q \in Procs : state[q] = "session" => holder' = q
    BY <2>1, NoOneAssumption DEF Sound, InSession
  <2>. QED
    BY <1>1, <1>4, <2>2, <2>3, EndsSound, FaultyTyped DEF StartFails, Sound
<1>5. CASE CallRefused(p)
  BY <1>0, <1>1, <1>5, Alone, EndsSound DEF CallRefused, Sound
<1>6. CASE CallFails(p)
  <2>1. DriveSane'
    <3>1. DriveSane /\ Here(p).methods # <<>> /\ state[p] = "session"
      BY <1>6 DEF CallFails, Sound
    <3>2. drive' = drive \/ (/\ Permits(drive, Here(p).auth, Head(Here(p).methods))
                             /\ drive' = Performed(drive, Head(Here(p).methods)))
      BY <1>6 DEF CallFails
    <3>. QED
      BY <3>1, <3>2, StepSane DEF DriveSane
  <2>2. holder' \in Procs \cup {NoOne} /\ state[p] = "session" /\ Ends(p, "err") /\ Faulty(p)
    BY <1>6 DEF CallFails
  <2>3. \A q \in Procs \ {p} : state[q] # "session"
    BY <2>2, Alone DEF Sound
  <2>. QED
    BY <2>1, <2>2, <2>3, EndsSound, FaultyTyped DEF Sound
<1>7. CASE Interrupt(p)
  BY <1>0, <1>1, <1>7, EndsSound, FaultyTyped DEF Interrupt, Sound, InSession
<1>. QED
  BY <1>2, <1>3, <1>4, <1>5, <1>6, <1>7

(* What is left of the sessions after a method.                            *)
LEMMA NextTodo ==
  ASSUME Sound, NEW p \in Procs, state[p] = "session", Here(p).methods # <<>>
  PROVE  LET t == [Here(p) EXCEPT !.methods = Tail(@)]
             s == <<t>> \o Correction(p, Head(Here(p).methods)) \o Tail(todo[p])
         IN  /\ s \in Seq(SoundSessions(job[p].n)) /\ s # <<>> /\ Head(s) = t
             /\ t.sp = Here(p).sp
<1>. DEFINE n == job[p].n
            m == Head(Here(p).methods)
            t == [Here(p) EXCEPT !.methods = Tail(Here(p).methods)]
            c == Correction(p, m)
            rest == Tail(todo[p])
<1>1. Runs(p) /\ TypeOK /\ Planned
  BY DEF Runs, Sound
<1>2. t \in SoundSessions(n) /\ t.sp = Here(p).sp
  BY <1>1, HereSound, TailSessionSound
<1>3. c \in Seq(SoundSessions(n))
  <2>1. job[p] \in JobRecords
    BY <1>1, JobsTyped
  <2>2. setupLockingRange_SUM(job[p], Empty) \in Plans(n)
    BY <2>1, setupLockingRange_SUMSound, PasswordAssumption
  <2>3. setupLockingRange_SUM(job[p], Empty) \in Seq(SoundSessions(n))
    BY <2>2, PlansSound
  <2>4. \A S : <<>> \in Seq(S)
    OBVIOUS
  <2>. QED
    BY <2>3, <2>4, Zenon DEF Correction
<1>4. rest \in Seq(SoundSessions(n))
  BY <1>1, HereSound
<1>. HIDE DEF t, c, rest, n, m
<1>5. <<t>> \o c \o rest \in Seq(SoundSessions(n)) /\ <<t>> \o c \o rest # <<>>
      /\ Head(<<t>> \o c \o rest) = t
  BY <1>2, <1>3, <1>4
<1>. QED
  BY <1>2, <1>5 DEF t, c, rest, n, m

LEMMA CallSound ==
  ASSUME IInv, NEW p \in Procs, Call(p)
  PROVE  IInv'
<1>. DEFINE m == Head(Here(p).methods)
            t == [Here(p) EXCEPT !.methods = Tail(@)]
            s == <<t>> \o Correction(p, m) \o Tail(todo[p])
<1>0. /\ state[p] = "session" /\ Here(p).methods # <<>>
      /\ Permits(drive, Here(p).auth, m) /\ drive' = Performed(drive, m)
      /\ UNCHANGED fault
      /\ Drops(m) => Ends(p, "ok") /\ holder' = NoOne
      /\ ~Drops(m) => todo' = [todo EXCEPT ![p] = s] /\ UNCHANGED <<state, job, was, holder>>
  BY DEF Call
<1>1. TypeOK /\ Planned /\ InSession /\ Sound
  BY DEF IInv, Sound
<1>2. /\ DriveSane' /\ drive' \in Drives
      /\ ~Drops(m) /\ drive.active => drive'.active
  BY <1>0, StepSane DEF DriveSane, Sane
<1>3. \A q \in Procs \ {p} : state[q] # "session"
  BY <1>0, <1>1, Alone
<1>4. CASE Drops(m)
  BY <1>0, <1>1, <1>2, <1>3, <1>4, EndsSound DEF IInv, TypeOK
<1>5. CASE ~Drops(m)
  <2>1. s \in Seq(SoundSessions(job[p].n)) /\ s # <<>> /\ Head(s) = t /\ t.sp = Here(p).sp
    BY <1>0, <1>1, NextTodo
  <2>. HIDE DEF s, t
  <2>2. s \in Seq(Sessions)
    BY <2>1, SoundAreSessions
  <2>3. /\ todo' = [todo EXCEPT ![p] = s] /\ UNCHANGED <<state, job, was, holder, fault>>
        /\ todo \in [Procs -> Seq(Sessions)]
    BY <1>0, <1>1, <1>5 DEF TypeOK, s, t
  <2>4. TypeOK'
    BY <1>1, <1>2, <2>2, <2>3 DEF TypeOK
  <2>5. todo'[p] = s /\ \A q \in Procs \ {p} : todo'[q] = todo[q]
    BY <2>3
  <2>6. Planned'
    BY <1>1, <2>1, <2>3, <2>5 DEF Planned, Runs
  <2>7. InSession'
    BY <1>0, <1>1, <1>2, <1>3, <1>5, <2>1, <2>3, <2>5 DEF InSession, Here
  <2>8. Reverting'
    <3>1. ASSUME job[p].cmd = "PSIDrevert" PROVE FALSE
      <4>1. todo[p] = revertTPer(job[p], TRUE)
        BY <1>0, <3>1 DEF IInv, Reverting, Runs
      <4>2. m = [op |-> "revert"]
        BY <4>1 DEF revertTPer, Session, Here
      <4>. QED
        BY <1>5, <4>2 DEF Drops
    <3>. QED
      BY <2>3, <2>5, <3>1 DEF IInv, Reverting, Runs
  <2>. QED
    BY <1>2, <2>4, <2>6, <2>7, <2>8 DEF IInv, Sound
<1>. QED
  BY <1>4, <1>5

LEMMA CloseSound ==
  ASSUME IInv, NEW p \in Procs, Close(p) \/ CloseFails(p)
  PROVE  IInv'
<1>0. /\ state[p] = "session" /\ Here(p).methods = <<>> /\ Proceed(p)
      /\ drive' = drive /\ holder' \in {holder, NoOne}
      /\ UNCHANGED fault \/ Faulty(p)
  BY DEF Close, CloseFails
<1>1. TypeOK /\ Planned /\ InSession /\ DriveSane /\ Sound
  BY DEF IInv, Sound
<1>2. DriveSane' /\ holder' \in Procs \cup {NoOne} /\ fault' \in [Procs -> BOOLEAN]
  BY <1>0, <1>1, FaultyTyped DEF TypeOK, DriveSane
<1>3. \A q \in Procs \ {p} : state[q] # "session"
  BY <1>0, <1>1, Alone
<1>4. CASE Len(todo[p]) = 1
  <2>1. Ends(p, "ok")
    BY <1>0, <1>4 DEF Proceed
  <2>. QED
    BY <1>1, <1>2, <1>3, <2>1, EndsSound DEF IInv
<1>5. CASE Len(todo[p]) # 1
  <2>. DEFINE s == Tail(todo[p])
  <2>1. /\ state' = [state EXCEPT ![p] = "running"] /\ todo' = [todo EXCEPT ![p] = s]
        /\ UNCHANGED <<job, was>>
    BY <1>0, <1>5 DEF Proceed
  <2>2. s \in Seq(SoundSessions(job[p].n)) /\ s # <<>>
    <3>1. todo[p] \in Seq(SoundSessions(job[p].n)) /\ todo[p] # <<>>
      BY <1>0, <1>1, HereSound DEF Runs
    <3>. QED
      BY <1>5, <3>1, HeadTail, TailRemains, Zenon
  <2>3. s \in Seq(Sessions)
    BY <2>2, SoundAreSessions
  <2>. HIDE DEF s
  <2>4. TypeOK'
    BY <1>0, <1>1, <1>2, <2>1, <2>3 DEF TypeOK
  <2>5. /\ todo'[p] = s /\ state'[p] = "running"
        /\ \A q \in Procs \ {p} : todo'[q] = todo[q] /\ state'[q] = state[q]
    BY <1>1, <2>1 DEF TypeOK
  <2>6. Planned' /\ InSession'
    BY <1>1, <1>3, <2>1, <2>2, <2>5 DEF Planned, InSession, Runs
  <2>7. Reverting'
    <3>1. ASSUME job[p].cmd = "PSIDrevert" PROVE FALSE
      <4>1. todo[p] = revertTPer(job[p], TRUE)
        BY <1>0, <3>1 DEF IInv, Reverting, Runs
      <4>2. Here(p).methods = <<[op |-> "revert"]>>
        BY <4>1 DEF revertTPer, Session, Here
      <4>. QED
        BY <1>0, <4>2
    <3>. QED
      BY <2>1, <2>5, <3>1 DEF IInv, Reverting, Runs
  <2>. QED
    BY <1>2, <2>4, <2>6, <2>7 DEF IInv, Sound
<1>. QED
  BY <1>4, <1>5

LEMMA PowerCycleSound ==
  ASSUME IInv, PowerCycle
  PROVE  IInv'
<1>1. TypeOK /\ DriveSane
  BY DEF IInv, Sound
<1>2. DriveSane'
  BY <1>1, PoweredUpSane DEF DriveSane, PowerCycle
<1>3. Factory \in Drives /\ NoJob \in {NoJob} /\ <<>> \in Seq(Sessions)
  BY FactorySane DEF Sane
<1>4. TypeOK'
  BY <1>1, <1>2, <1>3 DEF TypeOK, PowerCycle, DriveSane, Sane
<1>5. \A p \in Procs : todo'[p] = <<>> /\ ~Runs(p)'
  BY DEF PowerCycle, Runs
<1>6. \A n : <<>> \in Seq(SoundSessions(n))
  OBVIOUS
<1>. QED
  BY <1>2, <1>4, <1>5, <1>6 DEF IInv, Sound, Planned, InSession, Reverting, Runs

LEMMA InitSound == Init => IInv
<1>. SUFFICES ASSUME Init PROVE IInv
  OBVIOUS
<1>1. Factory \in Drives /\ DriveSane
  BY FactorySane DEF Init, DriveSane, Sane
<1>2. TypeOK
  BY <1>1 DEF Init, TypeOK
<1>. QED
  BY <1>1, <1>2 DEF Init, IInv, Sound, Planned, InSession, Reverting, Runs

LEMMA NextSound == IInv /\ [Next]_vars => IInv'
<1>. SUFFICES ASSUME IInv, [Next]_vars PROVE IInv'
  OBVIOUS
<1>1. CASE PowerCycle
  BY <1>1, PowerCycleSound
<1>2. ASSUME NEW p \in Procs, Step(p) PROVE IInv'
  BY <1>2, LaunchSound, StartSound, QuitSound, CallSound, CloseSound DEF Step
<1>3. CASE UNCHANGED vars
  BY <1>3 DEF vars, hostVars, IInv, Sound, TypeOK, DriveSane, Planned, InSession, Reverting,
              Runs, Here
<1>. QED
  BY <1>1, <1>2, <1>3 DEF Next

-----------------------------------------------------------------------------
(* Theorems                                                                *)

LEMMA Invariance == Spec => []IInv
BY InitSound, NextSound, PTL DEF Spec

(* Every variable keeps the type DtaDevOpal's TypeOK gives it: the drive   *)
(* stays one the TPer can be, and each command is a sequence of sessions   *)
(* with methods of the TCG tables, whatever fails or is interrupted.       *)
THEOREM OpalTypeCorrect == Spec => []TypeOK
<1>1. IInv => TypeOK
  BY DEF IInv, Sound
<1>. QED
  BY <1>1, Invariance, PTL

(* The LockingSP is all or nothing: no sequence of commands, interleaved,  *)
(* interrupted or failing anywhere, and of power cuts leaves a drive whose *)
(* LockingSP is not active with a range locked, guarded, moved from its    *)
(* factory place, stale or in single user mode, with a user who may log in *)
(* or a PIN other than the SID's and the PSID, or with its MBR shadowed.   *)
(* UnlockSEDs assumes just this of the drives it finds.                    *)
THEOREM OpalDriveSane == Spec => []Sane(drive)
<1>1. IInv => Sane(drive)
  BY DEF IInv, Sound, DriveSane
<1>. QED
  BY <1>1, Invariance, PTL

(* PSIDRecovers: a PSIDrevert that returns an error although no exchange   *)
(* failed was given something else than the text on the label.             *)
THEOREM OpalLabelReverts == Spec => PSIDRecovers
<1>1. ASSUME IInv, [Next]_vars, NEW p \in Procs,
             Returns(p, "err"), ~fault'[p], job[p].cmd = "PSIDrevert"
      PROVE  job[p].pw # PSID
  <2>. SUFFICES ASSUME job[p].pw = PSID PROVE FALSE
    OBVIOUS
  <2>1. /\ TypeOK /\ InSession /\ Runs(p) /\ state'[p] = "err"
        /\ Sane(drive) /\ drive.pin[PSIDOwner] = Raw(PSID)
    BY <1>1 DEF IInv, Sound, DriveSane, Returns
  <2>2. todo[p] = revertTPer(job[p], TRUE)
    BY <1>1, <2>1 DEF IInv, Reverting
  <2>3. /\ Here(p).sp = "Admin" /\ Here(p).auth = PSIDOwner /\ Here(p).pin = Raw(PSID)
        /\ Here(p).methods = <<[op |-> "revert"]>> /\ Len(todo[p]) = 1
    BY <2>2 DEF revertTPer, Session, Here
  <2>4. Admits(drive, Here(p))
    BY <2>1, <2>3, AuthoritiesDiffer DEF Admits
  <2>5. Head(Here(p).methods).op = "revert"
    BY <2>3
  <2>6. Permits(drive, Here(p).auth, Head(Here(p).methods))
    BY <2>3, <2>5 DEF Permits
  <2>7. PICK q \in Procs : Step(q)
    BY <1>1, <2>1 DEF Next, vars, hostVars, PowerCycle, Runs, TypeOK
  <2>8. q = p
    <3>1. state' = [state EXCEPT ![q] = state'[q]] \/ state' = state
      BY <2>1, <2>7 DEF Step, Launch, Start, Refused, Busy, StartFails, Call, CallRefused,
         CallFails, Close, CloseFails, Interrupt, Proceed, Ends, TypeOK
    <3>. QED
      BY <2>1, <3>1 DEF TypeOK, Runs
  <2>9. ~Refused(p) /\ ~CallRefused(p)
    BY <2>3, <2>4, <2>6 DEF Refused, CallRefused
  <2>10. ~Launch(p) /\ ~Start(p) /\ ~Call(p) /\ ~Close(p) /\ ~CloseFails(p) /\ ~Interrupt(p)
    BY <2>1, <2>3, <2>5 DEF Launch, Start, Call, Close, CloseFails, Interrupt, Ends, Drops, TypeOK
  <2>11. ~Faulty(p)
    BY <1>1, <2>1 DEF Faulty, TypeOK
  <2>. QED
    BY <2>7, <2>8, <2>9, <2>10, <2>11 DEF Step, Busy, StartFails, CallFails
<1>2. IInv /\ [Next]_vars =>
        [\A p \in Procs :
           Returns(p, "err") /\ ~fault'[p] /\ job[p].cmd = "PSIDrevert" => job[p].pw # PSID]_vars
  BY <1>1
<1>. QED
  BY <1>2, Invariance, PTL DEF Spec, PSIDRecovers

-----------------------------------------------------------------------------
(* The refinement of OpalOwnership                                         *)

(* What the owner sees of a drive.                                         *)
ShownSID(d)    == IF d.pin[SID] = Raw(MSID) THEN NoPin ELSE d.pin[SID]
ShownAdmin1(d) == IF d.active THEN d.pin[Admin1] ELSE NoPin

(* A step of OpalOwnership, or none, from drive d to drive e.              *)
OwnersStep(d, e) ==
  \/ ShownSID(d) = NoPin /\ ShownAdmin1(d) = NoPin /\ ShownSID(e) \in Pins
     /\ ShownAdmin1(e) = ShownAdmin1(d)
  \/ ShownSID(d) # NoPin /\ ShownSID(e) \in Pins /\ ShownAdmin1(e) = ShownAdmin1(d)
  \/ ShownSID(d) # NoPin /\ ShownAdmin1(d) = NoPin /\ ShownAdmin1(e) = ShownSID(d)
     /\ ShownSID(e) = ShownSID(d)
  \/ ShownAdmin1(d) # NoPin /\ ShownAdmin1(e) \in Pins /\ ShownSID(e) = ShownSID(d)
  \/ ShownAdmin1(d) # NoPin /\ ShownAdmin1(e) = NoPin /\ ShownSID(e) = ShownSID(d)
  \/ ShownSID(e) = NoPin /\ ShownAdmin1(e) = NoPin
  \/ ShownSID(e) = ShownSID(d) /\ ShownAdmin1(e) = ShownAdmin1(d)

LEMMA NoPinIsNone == NoPin \notin Pins
<1>1. ASSUME NoPin \in Pins PROVE FALSE
  <2>1. PICK pw \in Passwords, h \in BOOLEAN : NoPin = [pw |-> pw, hashed |-> h]
    BY <1>1 DEF Pins
  <2>2. DOMAIN NoPin = {"none"} /\ DOMAIN [pw |-> pw, hashed |-> h] = {"pw", "hashed"}
    BY DEF NoPin
  <2>. QED
    BY <2>1, <2>2
<1>. QED
  BY <1>1

(* A method the drive permits is a step of the owner's.                    *)
LEMMA MethodOwned ==
  ASSUME NEW d, Sane(d), d.pin[SID] = Raw(MSID) => ~d.active,
         NEW m \in SoundMethods(FALSE), NEW auth, Permits(d, auth, m),
         m.op = "activate" => d.pin[SID] # Raw(MSID),
         auth \in Users \cup {Admin1} => d.active
  PROVE  LET e == Performed(d, m) IN
         /\ OwnersStep(d, e)
         /\ e.pin[SID] = Raw(MSID) => ~e.active
         /\ ~Drops(m) /\ d.pin[SID] # Raw(MSID) => e.pin[SID] # Raw(MSID)
<1>. DEFINE e == Performed(d, m)
<1>0. m \in Methods /\ d.pin \in [Authorities -> Pins]
  BY DEF SoundMethods, Sane, Drives
<1>1. CASE m.op \in {"read", "isRange", "inactive"}
  BY <1>1 DEF Performed, OwnersStep
<1>2. CASE m.op = "activate"
  <2>1. /\ e.active /\ e.pin[Admin1] = d.pin[SID] /\ e.pin[SID] = d.pin[SID]
        /\ ~d.active /\ d.pin[SID] # Raw(MSID)
    BY <1>0, <1>2, ActivateDoes DEF Permits
  <2>2. d.pin[SID] # NoPin
    BY <1>0, AuthoritiesDiffer, NoPinIsNone
  <2>. HIDE DEF e
  <2>. QED
    BY <2>1, <2>2 DEF OwnersStep, ShownSID, ShownAdmin1, e
<1>3. CASE m.op = "setPIN"
  <2>1. /\ e.pin = [d.pin EXCEPT ![m.auth] = m.pin] /\ e.active = d.active
        /\ m.auth \in Authorities /\ m.pin \in Pins
        /\ m.auth # PSIDOwner /\ (m.auth = SID => m.pin # Raw(MSID))
    BY <1>0, <1>3, NeedsActive, SetPINDoes DEF SoundMethods, LeavesPSID, KeepsOwner, Methods
  <2>2. d.pin[SID] # NoPin /\ d.pin[Admin1] # NoPin /\ m.pin # NoPin
    BY <1>0, <2>1, AuthoritiesDiffer, NoPinIsNone
  <2>. HIDE DEF e
  <2>3. CASE m.auth = SID
    <3>1. e.pin[SID] = m.pin /\ e.pin[Admin1] = d.pin[Admin1]
      BY <1>0, <2>1, <2>3, AuthoritiesDiffer
    <3>. QED
      BY <2>1, <2>2, <2>3, <3>1 DEF OwnersStep, ShownSID, ShownAdmin1, e
  <2>4. CASE m.auth = Admin1
    <3>1. e.pin[SID] = d.pin[SID] /\ e.pin[Admin1] = m.pin
      BY <1>0, <2>1, <2>4, AuthoritiesDiffer
    <3>. QED
      BY <2>1, <2>2, <2>4, <3>1 DEF OwnersStep, ShownSID, ShownAdmin1, e
  <2>5. CASE m.auth \notin {SID, Admin1}
    <3>1. e.pin[SID] = d.pin[SID] /\ e.pin[Admin1] = d.pin[Admin1]
      BY <1>0, <2>1, <2>5, AuthoritiesDiffer
    <3>. QED
      BY <2>1, <3>1 DEF OwnersStep, ShownSID, ShownAdmin1, e
  <2>. QED
    BY <2>3, <2>4, <2>5
<1>4. CASE m.op = "revert"
  <2>1. e.pin[SID] = Raw(MSID) /\ ~e.active
    BY <1>4, AuthoritiesDiffer DEF Performed, Factory
  <2>. HIDE DEF e
  <2>. QED
    BY <1>4, <2>1 DEF OwnersStep, ShownSID, ShownAdmin1, Drops, e
<1>5. CASE m.op = "revertSP"
  <2>1. e.pin[SID] = d.pin[SID] /\ e.active = FALSE
    BY <1>5, LockingRevertedSane DEF Performed, Sane
  <2>2. d.active => d.pin[Admin1] # NoPin
    BY <1>0, AuthoritiesDiffer, NoPinIsNone
  <2>. HIDE DEF e
  <2>. QED
    BY <1>5, <2>1, <2>2 DEF OwnersStep, ShownSID, ShownAdmin1, Drops, e
<1>6. CASE m.op \in {"enable", "setMBR", "genKey", "erase", "setRange"}
  <2>1. d.active
    BY <1>0, <1>6, NeedsActive
  <2>2. SamePins(d, e)
    BY <1>0, <1>6, <2>1, EnableDoes, SetMBRDoes, GenKeyDoes, EraseDoes, SetRangeDoes
  <2>. HIDE DEF e
  <2>. QED
    BY <2>2 DEF OwnersStep, ShownSID, ShownAdmin1, SamePins, e
<1>. QED
  BY <1>0, <1>1, <1>2, <1>3, <1>4, <1>5, <1>6 DEF Methods

(* The invariant of the refinement: with hashed passwords, the MSID is the *)
(* PIN of the SID only while the LockingSP is inactive, and nobody is in a *)
(* session that is about to activate it.                                   *)
LEMMA OwnedStep ==
  ASSUME NoHash \subseteq {FALSE}, IInv, Owned, [Next]_vars
  PROVE  Owned' /\ (drive' = drive \/ OwnersStep(drive, drive'))
<1>0. /\ TypeOK /\ Planned /\ InSession /\ Sane(drive) /\ IInv'
      /\ \A p \in Procs : job[p].n = FALSE
  <2>1. \A p \in Procs : job[p] \in Jobs => job[p].n \in NoHash
    BY JobTyped
  <2>2. NoJob.n = FALSE
    BY DEF NoJob
  <2>. QED
    BY <2>1, <2>2, NextSound DEF IInv, Sound, DriveSane, TypeOK
<1>1. CASE PowerCycle
  <2>1. /\ drive'.pin = drive.pin /\ drive'.active = drive.active
        /\ \A p \in Procs : state'[p] # "session"
    BY <1>0, <1>1, PoweredUpSane DEF PowerCycle, Runs
  <2>2. OwnersStep(drive, drive')
    BY <2>1 DEF OwnersStep, ShownSID, ShownAdmin1
  <2>. QED
    BY <2>1, <2>2 DEF Owned
(* The session of p is a sound one, and the method a step of the owner's.  *)
<1>2. ASSUME NEW p \in Procs, state[p] = "session", Here(p).methods # <<>>,
             Permits(drive, Here(p).auth, Head(Here(p).methods))
      PROVE  LET e == Performed(drive, Head(Here(p).methods)) IN
             /\ OwnersStep(drive, e)
             /\ e.pin[SID] = Raw(MSID) => ~e.active
             /\ ~Drops(Head(Here(p).methods)) /\ drive.pin[SID] # Raw(MSID)
                  => e.pin[SID] # Raw(MSID)
  <2>1. Runs(p)
    BY <1>2 DEF Runs
  <2>2. Here(p) \in SoundSessions(FALSE) /\ Here(p).methods \in Seq(SoundMethods(FALSE))
    BY <1>0, <2>1, HereSound
  <2>3. Head(Here(p).methods) \in SoundMethods(FALSE)
    BY <1>2, <2>2, HeadTail, Zenon
  <2>4. Head(Here(p).methods).op = "activate" => Activates(Here(p))
    <3>1. 1 \in 1..Len(Here(p).methods) /\ Head(Here(p).methods) = Here(p).methods[1]
      BY <1>2, <2>2
    <3>. QED
      BY <3>1, Zenon DEF Activates
  <2>5. Head(Here(p).methods).op = "activate" => drive.pin[SID] # Raw(MSID)
    BY <1>2, <2>4 DEF Owned
  <2>6. Here(p).auth \in Users \cup {Admin1} => drive.active
    BY <1>0, <1>2, <2>2 DEF InSession, SoundSessions
  <2>7. drive.pin[SID] = Raw(MSID) => ~drive.active
    BY DEF Owned
  <2>. QED
    BY <1>0, <1>2, <2>3, <2>5, <2>6, <2>7, MethodOwned
<1>3. ASSUME NEW p \in Procs, Launch(p) PROVE Owned' /\ drive' = drive
  BY <1>0, <1>3 DEF Owned, Launch, TypeOK, Here
<1>4. ASSUME NEW p \in Procs, Start(p) PROVE Owned' /\ drive' = drive
  <2>1. Activates(Here(p)) => drive.pin[SID] # Raw(MSID)
    <3>1. Here(p) \in SoundSessions(FALSE)
      BY <1>0, <1>4, HereSound DEF Start, Runs
    <3>2. Activates(Here(p)) => Activation(Here(p))
      BY <3>1 DEF SoundSessions
    <3>3. Activation(Here(p)) => Here(p).auth = SID /\ Here(p).pin # Raw(MSID)
      BY DEF Activation
    <3>. QED
      BY <1>4, <3>2, <3>3, AuthoritiesDiffer DEF Start, Admits
  <2>2. \A q \in Procs : state'[q] = "session" => q = p \/ state[q] = "session"
    BY <1>0, <1>4 DEF Start, TypeOK
  <2>. QED
    BY <1>4, <2>1, <2>2 DEF Owned, Start, Here
<1>5. ASSUME NEW p \in Procs, Call(p) PROVE Owned' /\ OwnersStep(drive, drive')
  <2>. DEFINE m == Head(Here(p).methods)
              t == [Here(p) EXCEPT !.methods = Tail(@)]
              s == <<t>> \o Correction(p, m) \o Tail(todo[p])
  <2>1. /\ state[p] = "session" /\ Here(p).methods # <<>>
        /\ Permits(drive, Here(p).auth, m) /\ drive' = Performed(drive, m)
        /\ Drops(m) => Ends(p, "ok")
        /\ ~Drops(m) => todo' = [todo EXCEPT ![p] = s] /\ UNCHANGED state
    BY <1>5 DEF Call
  <2>2. OwnersStep(drive, drive') /\ (drive'.pin[SID] = Raw(MSID) => ~drive'.active)
    BY <1>2, <2>1
  <2>3. \A q \in Procs \ {p} : state[q] # "session"
    BY <1>0, <2>1, Alone
  <2>4. CASE Drops(m)
    <3>1. \A q \in Procs : state'[q] # "session"
      BY <1>0, <2>1, <2>3, <2>4 DEF Ends, TypeOK
    <3>. QED
      BY <2>2, <3>1 DEF Owned
  <2>5. CASE ~Drops(m)
    <3>1. Head(s) = t /\ (Activates(t) => Activates(Here(p)))
      <4>1. Head(s) = t
        BY <1>0, <2>1, NextTodo DEF IInv
      <4>2. Here(p) \in SoundSessions(FALSE)
        BY <1>0, <2>1, HereSound DEF Runs
      <4>. QED
        BY <2>1, <4>1, <4>2, TailSessionSound
    <3>. HIDE DEF s, t
    <3>2. Here(p)' = t
      BY <1>0, <2>1, <2>5, <3>1 DEF Here, TypeOK
    <3>3. drive.pin[SID] # Raw(MSID) => drive'.pin[SID] # Raw(MSID)
      BY <1>2, <2>1, <2>5
    <3>4. Activates(t) => drive'.pin[SID] # Raw(MSID)
      BY <2>1, <3>1, <3>3 DEF Owned
    <3>. QED
      BY <2>1, <2>2, <2>3, <2>5, <3>2, <3>4 DEF Owned
  <2>. QED
    BY <2>2, <2>4, <2>5
<1>6. ASSUME NEW p \in Procs, CallFails(p)
      PROVE  Owned' /\ (drive' = drive \/ OwnersStep(drive, drive'))
  <2>1. state[p] = "session" /\ Here(p).methods # <<>> /\ Ends(p, "err")
    BY <1>6 DEF CallFails
  <2>2. \A q \in Procs : state'[q] # "session"
    BY <1>0, <2>1, Alone DEF Ends, TypeOK
  <2>3. \/ drive' = drive
        \/ /\ Permits(drive, Here(p).auth, Head(Here(p).methods))
           /\ drive' = Performed(drive, Head(Here(p).methods))
    BY <1>6 DEF CallFails
  <2>4. /\ drive' = drive \/ OwnersStep(drive, drive')
        /\ drive'.pin[SID] = Raw(MSID) => ~drive'.active
    BY <1>2, <2>1, <2>3 DEF Owned
  <2>. QED
    BY <2>2, <2>4 DEF Owned
<1>7. ASSUME NEW p \in Procs,
             \/ Refused(p) \/ Busy(p) \/ StartFails(p) \/ CallRefused(p) \/ Interrupt(p)
             \/ Close(p) \/ CloseFails(p)
      PROVE  Owned' /\ drive' = drive
  <2>1. drive' = drive
    BY <1>7 DEF Refused, Busy, StartFails, CallRefused, Interrupt, Close, CloseFails
  <2>2. \A q \in Procs : state'[q] = "session" => state[q] = "session" /\ todo'[q] = todo[q]
    BY <1>0, <1>7 DEF Refused, Busy, StartFails, CallRefused, Interrupt, Close, CloseFails,
       Proceed, Ends, TypeOK
  <2>. QED
    BY <2>1, <2>2 DEF Owned, Here
<1>8. CASE UNCHANGED vars
  BY <1>8 DEF vars, hostVars, Owned, Here
<1>. QED
  BY <1>1, <1>3, <1>4, <1>5, <1>6, <1>7, <1>8 DEF Next, Step

LEMMA OwnedInit == Init => Owned
BY DEF Init, Owned, Factory

(* OwnershipKept: with hashed passwords, the commands treat the SID's and  *)
(* Admin1's PINs as OpalOwnership says, for any processes that interleave, *)
(* fail, are interrupted or lose power at any exchange: no activation of a *)
(* drive that has no owner, and none that hands out another PIN.           *)
THEOREM OwnershipRefined ==
  ASSUME NoHash \subseteq {FALSE}
  PROVE  Spec => OwnershipKept
<1>1. Init => Ownership!Init
  <2>1. Init => drive.pin[SID] = Raw(MSID) /\ ~drive.active
    BY AuthoritiesDiffer DEF Init, Factory
  <2>. QED
    BY <2>1 DEF Ownership!Init
<1>2. IInv /\ Owned /\ [Next]_vars => Owned'
  BY OwnedStep
<1>3. IInv /\ Owned /\ [Next]_vars => [Ownership!Next]_(Ownership!vars)
  <2>. SUFFICES ASSUME IInv, Owned, [Next]_vars PROVE [Ownership!Next]_(Ownership!vars)
    OBVIOUS
  <2>1. drive' = drive \/ OwnersStep(drive, drive')
    BY OwnedStep
  <2>. QED
    BY <2>1 DEF OwnersStep, ShownSID, ShownAdmin1, Ownership!Next, Ownership!vars,
       Ownership!TakeOwnership, Ownership!ChangeSID, Ownership!Activate, Ownership!ChangeAdmin1,
       Ownership!RevertSP, Ownership!Revert
<1>. QED
  BY <1>1, <1>2, <1>3, OwnedInit, Invariance, PTL DEF Spec, OwnershipKept, Ownership!Spec

-----------------------------------------------------------------------------
(* Shadowing                                                               *)

(* Only a Set of MBREnable switches shadowing on, and it leaves MBRDone.   *)
LEMMA MethodShadow ==
  ASSUME NEW d, Sane(d), NEW m \in Methods, NEW auth, Permits(d, auth, m),
         auth \in Users \cup {Admin1} => d.active
  PROVE  LET e == Performed(d, m) IN
         /\ e.mbrEnable /\ ~d.mbrEnable => Raising(m) /\ e.mbrDone = d.mbrDone
         /\ m = SetMBR("Done", TRUE) => e.mbrDone
<1>. DEFINE e == Performed(d, m)
<1>1. CASE m.op \in {"read", "isRange", "inactive"}
  <2>1. e = d
    BY <1>1 DEF Performed
  <2>. HIDE DEF e
  <2>. QED
    BY <1>1, <2>1 DEF SetMBR, e
<1>2. CASE m.op = "revert" \/ m.op = "revertSP"
  <2>1. e.mbrEnable = FALSE
    BY <1>2 DEF Performed, Factory, LockingReverted, Sane, Drives
  <2>. QED
    BY <1>2, <2>1 DEF SetMBR
<1>3. CASE m.op = "setMBR"
  <2>1. /\ m.name = "Done" => e.mbrDone = m.value /\ e.mbrEnable = d.mbrEnable
        /\ m.name = "Enable" => e.mbrEnable = m.value /\ e.mbrDone = d.mbrDone
    BY <1>3, NeedsActive, SetMBRDoes
  <2>2. m.name \in {"Done", "Enable"} /\ m.value \in BOOLEAN
    BY <1>3 DEF Methods
  <2>. HIDE DEF e
  <2>3. e.mbrEnable /\ ~d.mbrEnable => Raising(m) /\ e.mbrDone = d.mbrDone
    BY <1>3, <2>1, <2>2 DEF Raising
  <2>4. m = SetMBR("Done", TRUE) => e.mbrDone
    <3>1. m = SetMBR("Done", TRUE) => m.name = "Done" /\ m.value = TRUE
      BY DEF SetMBR
    <3>. QED
      BY <2>1, <3>1, Zenon
  <2>. QED
    BY <2>3, <2>4 DEF e
<1>4. CASE m.op \in {"activate", "setPIN", "enable", "genKey", "erase", "setRange"}
  <2>2. SameShadow(d, e)
    BY <1>4, NeedsActive, ActivateDoes, SetPINDoes, EnableDoes, GenKeyDoes, EraseDoes, SetRangeDoes
  <2>. HIDE DEF e
  <2>. QED
    BY <1>4, <2>2 DEF SameShadow, SetMBR, e
<1>. QED
  BY <1>1, <1>2, <1>3, <1>4 DEF Methods

(* A command that is alone: the session that raises the shadow is the one  *)
(* after that which lowers it, or MBRDone is set already.                  *)
LowersFirst(s, done) ==
  \A i \in 1..Len(s) : Raises(s[i]) =>
    /\ s[i].methods = <<SetMBR("Enable", TRUE)>>
    /\ i = 1 => done
    /\ i > 1 => \/ s[i - 1].methods = <<SetMBR("Done", TRUE)>>
                \/ i = 2 /\ s[1].methods = <<>> /\ done

LEMMA SingleMethod ==
  ASSUME NEW s \in Sessions, NEW m, s.methods = <<m>>
  PROVE  Head(s.methods) = m /\ Tail(s.methods) = <<>>
OBVIOUS

LEMMA Spliced ==
  ASSUME NEW S, NEW t \in S, NEW c \in Seq(S), NEW s \in Seq(S), s # <<>>
  PROVE  LET z == <<t>> \o c \o Tail(s) IN
         /\ Len(z) = Len(c) + Len(s) /\ z[1] = t
         /\ \A i \in 1..Len(c) : z[i + 1] = c[i]
         /\ \A i \in 2..Len(s) : z[Len(c) + i] = s[i]
<1>. DEFINE rest == Tail(s)
            y == <<t>> \o c
<1>1. /\ Len(c) \in Nat /\ Len(s) \in Nat /\ rest \in Seq(S) /\ Len(rest) = Len(s) - 1
      /\ \A i \in 2..Len(s) : i - 1 \in 1..Len(rest) /\ rest[i - 1] = s[i]
  OBVIOUS
<1>2. /\ y \in Seq(S) /\ Len(y) = Len(c) + 1 /\ y[1] = t
      /\ \A i \in 1..Len(c) : i + 1 \in 1..Len(y) /\ y[i + 1] = c[i]
  OBVIOUS
<1>. HIDE DEF rest, y
<1>3. /\ Len(y \o rest) = Len(y) + Len(rest)
      /\ \A i \in 1..Len(y) : (y \o rest)[i] = y[i]
      /\ \A i \in 1..Len(rest) : (y \o rest)[Len(y) + i] = rest[i]
  <2>1. /\ Len(y \o rest) = Len(y) + Len(rest)
        /\ \A i \in 1..(Len(y) + Len(rest)) :
             (y \o rest)[i] = IF i <= Len(y) THEN y[i] ELSE rest[i - Len(y)]
    BY <1>1, <1>2, ConcatProperties
  <2>2. Len(y) \in Nat /\ Len(rest) \in Nat
    BY <1>1, <1>2
  <2>. QED
    BY <2>1, <2>2
<1>4. Len(y \o rest) = Len(c) + Len(s) /\ (y \o rest)[1] = t
  BY <1>1, <1>2, <1>3
<1>5. \A i \in 1..Len(c) : (y \o rest)[i + 1] = c[i]
  BY <1>2, <1>3
<1>6. ASSUME NEW i \in 2..Len(s) PROVE (y \o rest)[Len(c) + i] = s[i]
  <2>1. i - 1 \in 1..Len(rest) /\ rest[i - 1] = s[i] /\ Len(c) + i = Len(y) + (i - 1)
    BY <1>1, <1>2
  <2>. QED
    BY <1>3, <2>1
<1>. QED
  BY <1>4, <1>5, <1>6 DEF y, rest

(* After a method that is not a revert.                                    *)
LEMMA LowersOn ==
  ASSUME NEW n, NEW s \in Seq(SoundSessions(n)), s # <<>>, Head(s).methods # <<>>,
         NEW done \in BOOLEAN, LowersFirst(s, done),
         NEW c \in Seq(SoundSessions(n)), Lowered(c),
         c # <<>> => Head(Head(s).methods).op = "isRange",
         NEW after \in BOOLEAN, Head(Head(s).methods) = SetMBR("Done", TRUE) => after
  PROVE  LET t == [Head(s) EXCEPT !.methods = Tail(@)]
         IN  LowersFirst(<<t>> \o c \o Tail(s), after)
<1>. DEFINE t == [Head(s) EXCEPT !.methods = Tail(@)]
            rest == Tail(s)
            z == <<t>> \o c \o rest
<1>1. /\ Head(s) \in SoundSessions(n) /\ Head(s) \in Sessions /\ Head(s) = s[1] /\ 1 \in 1..Len(s)
      /\ rest \in Seq(SoundSessions(n))
  <2>1. Head(s) \in SoundSessions(n) /\ rest \in Seq(SoundSessions(n))
    BY HeadTail, Zenon
  <2>2. Head(s) = s[1] /\ 1 \in 1..Len(s)
    OBVIOUS
  <2>. QED
    BY <2>1, <2>2 DEF SoundSessions
<1>2. t \in SoundSessions(n) /\ t.methods = Tail(Head(s).methods) /\ (Raises(t) => Raises(s[1]))
  BY <1>1, TailSessionSound
<1>3. ~Raises(t)
  <2>1. ASSUME Raises(t) PROVE FALSE
    <3>1. Head(s).methods = <<SetMBR("Enable", TRUE)>>
      BY <1>1, <1>2, <2>1 DEF LowersFirst
    <3>2. t.methods = <<>>
      BY <1>1, <1>2, <3>1, SingleMethod
    <3>. QED
      BY <2>1, <3>2 DEF Raises
  <2>. QED
    BY <2>1
<1>4. ASSUME Len(s) > 1, s[1].methods = <<SetMBR("Done", TRUE)>>
      PROVE  c = <<>> /\ t.methods = <<>> /\ after
  <2>1. Head(Head(s).methods) = SetMBR("Done", TRUE) /\ Tail(Head(s).methods) = <<>>
    BY <1>1, <1>4, SingleMethod
  <2>. QED
    BY <1>2, <2>1 DEF SetMBR
<1>. HIDE DEF t, rest
<1>5. /\ Len(c) \in Nat /\ Len(s) \in Nat /\ Len(rest) = Len(s) - 1 /\ Len(z) = Len(c) + Len(s)
      /\ z[1] = t
      /\ \A i \in 1..Len(c) : z[i + 1] = c[i]
      /\ \A i \in 2..Len(s) : z[Len(c) + i] = s[i]
  <2>1. z = <<t>> \o c \o Tail(s)
    BY DEF rest
  <2>. HIDE DEF z
  <2>2. Len(c) \in Nat /\ Len(s) \in Nat /\ Len(rest) = Len(s) - 1
    BY DEF rest
  <2>3. /\ Len(z) = Len(c) + Len(s) /\ z[1] = t
        /\ \A i \in 1..Len(c) : z[i + 1] = c[i]
        /\ \A i \in 2..Len(s) : z[Len(c) + i] = s[i]
    <3>1. s \in Seq(SoundSessions(n)) /\ c \in Seq(SoundSessions(n)) /\ t \in SoundSessions(n)
      BY <1>2
    <3>. HIDE DEF Lowered
    <3>. QED
      BY <2>1, <3>1, Spliced
  <2>. QED
    BY <2>2, <2>3
<1>. HIDE DEF z
<1>6. ASSUME NEW i \in 1..Len(z), Raises(z[i])
      PROVE  /\ z[i].methods = <<SetMBR("Enable", TRUE)>>
             /\ i = 1 => after
             /\ i > 1 => \/ z[i - 1].methods = <<SetMBR("Done", TRUE)>>
                         \/ i = 2 /\ z[1].methods = <<>> /\ after
  <2>1. i # 1
    BY <1>3, <1>5, <1>6
  <2>2. CASE i <= Len(c) + 1
    <3>1. i - 1 \in 1..Len(c) /\ z[i] = c[i - 1]
      BY <1>5, <2>1, <2>2
    <3>2. c[i - 1].methods = <<SetMBR("Enable", TRUE)>> /\ i - 1 > 1
          /\ c[(i - 1) - 1].methods = <<SetMBR("Done", TRUE)>>
      BY <1>6, <3>1, Zenon DEF Lowered
    <3>3. (i - 1) - 1 \in 1..Len(c) /\ z[i - 1] = c[(i - 1) - 1]
      <4>1. (i - 1) - 1 \in 1..Len(c) /\ ((i - 1) - 1) + 1 = i - 1
        BY <3>1, <3>2
      <4>. QED
        BY <1>5, <4>1
    <3>. QED
      BY <2>1, <3>1, <3>2, <3>3
  <2>3. CASE i > Len(c) + 1
    <3>. DEFINE k == i - Len(c)
    <3>1. k \in 2..Len(s) /\ k \in 1..Len(s) /\ k > 1 /\ i = Len(c) + k
      BY <1>5, <2>3
    <3>. HIDE DEF k
    <3>2. z[i] = s[k]
      BY <1>5, <3>1
    <3>3. /\ s[k].methods = <<SetMBR("Enable", TRUE)>>
          /\ \/ s[k - 1].methods = <<SetMBR("Done", TRUE)>>
             \/ k = 2 /\ s[1].methods = <<>> /\ done
      BY <1>6, <3>1, <3>2, Zenon DEF LowersFirst
    <3>4. s[k - 1].methods = <<SetMBR("Done", TRUE)>>
      BY <1>1, <3>3
    <3>5. CASE k = 2
      <4>0. Len(s) > 1 /\ k - 1 = 1
        BY <1>5, <3>1, <3>5
      <4>1. c = <<>> /\ t.methods = <<>> /\ after
        BY <1>4, <3>4, <4>0
      <4>2. Len(c) = 0
        BY <4>1
      <4>. QED
        BY <1>5, <2>1, <3>1, <3>2, <3>3, <3>5, <4>1, <4>2
    <3>6. CASE k # 2
      <4>1. k - 1 \in 2..Len(s) /\ i - 1 = Len(c) + (k - 1)
        BY <1>5, <3>1, <3>6
      <4>2. z[i - 1] = s[k - 1]
        BY <1>5, <4>1
      <4>. QED
        BY <2>1, <3>2, <3>3, <3>4, <4>2
    <3>. QED
      BY <3>5, <3>6
  <2>4. i <= Len(c) + 1 \/ i > Len(c) + 1
    BY <1>5
  <2>. QED
    BY <2>2, <2>3, <2>4, Zenon
<1>7. LowersFirst(z, after)
  BY <1>6 DEF LowersFirst
<1>. QED
  BY <1>7 DEF z, t, rest

(* After the end of a session.                                             *)
LEMMA LowersNext ==
  ASSUME NEW n, NEW s \in Seq(SoundSessions(n)), s # <<>>, Head(s).methods = <<>>,
         NEW done \in BOOLEAN, LowersFirst(s, done)
  PROVE  LowersFirst(Tail(s), done)
<1>. DEFINE z == Tail(s)
<1>1. /\ Len(s) \in Nat /\ Len(z) = Len(s) - 1 /\ Head(s) = s[1]
      /\ \A i \in 1..Len(z) : i + 1 \in 1..Len(s) /\ z[i] = s[i + 1]
  OBVIOUS
<1>. HIDE DEF z
<1>2. ASSUME NEW i \in 1..Len(z), Raises(z[i])
      PROVE  /\ z[i].methods = <<SetMBR("Enable", TRUE)>>
             /\ i = 1 => done
             /\ i > 1 => z[i - 1].methods = <<SetMBR("Done", TRUE)>>
  <2>. DEFINE k == i + 1
  <2>1. k \in 1..Len(s) /\ z[i] = s[k] /\ k > 1 /\ i \in 1..Len(z) /\ i = k - 1
    BY <1>1
  <2>. HIDE DEF k
  <2>2. /\ s[k].methods = <<SetMBR("Enable", TRUE)>>
        /\ \/ s[k - 1].methods = <<SetMBR("Done", TRUE)>>
           \/ k = 2 /\ s[1].methods = <<>> /\ done
    BY <1>2, <2>1, Zenon DEF LowersFirst
  <2>3. CASE i = 1
    <3>1. s[k - 1].methods = <<>>
      BY <1>1, <2>1, <2>3
    <3>. QED
      BY <2>1, <2>2, <2>3, <3>1
  <2>4. CASE i # 1
    <3>1. i - 1 \in 1..Len(z) /\ (i - 1) + 1 = k - 1
      BY <1>1, <2>1, <2>4
    <3>2. z[i - 1] = s[k - 1]
      BY <1>1, <3>1
    <3>3. k # 2
      BY <2>1, <2>4
    <3>4. z[i - 1].methods = <<SetMBR("Done", TRUE)>>
      BY <2>2, <3>2, <3>3
    <3>. QED
      BY <2>1, <2>2, <2>4, <3>4, Zenon
  <2>. QED
    BY <2>3, <2>4
<1>3. LowersFirst(z, done)
  BY <1>2 DEF LowersFirst
<1>. QED
  BY <1>3 DEF z

Lowering == \A p \in Procs : LowersFirst(todo[p], drive.mbrDone)

LEMMA NothingRaises == \A done : LowersFirst(<<>>, done)
BY DEF LowersFirst

LEMMA LoweringStep ==
  ASSUME \A p, q \in Procs : p = q, IInv, Lowering, [Next]_vars
  PROVE  Lowering' /\ (drive'.mbrEnable /\ ~drive.mbrEnable => drive'.mbrDone)
<1>0. /\ TypeOK /\ Planned /\ InSession /\ Sane(drive) /\ Sound
      /\ drive.mbrDone \in BOOLEAN
  BY DEF IInv, Sound, DriveSane, Sane, Drives
<1>1. CASE PowerCycle
  <2>1. drive'.mbrEnable = drive.mbrEnable
    BY <1>0, <1>1, PoweredUpSane DEF PowerCycle
  <2>2. \A p \in Procs : todo'[p] = <<>>
    BY <1>1 DEF PowerCycle
  <2>. QED
    BY <2>1, <2>2, NothingRaises DEF Lowering
(* What a method that is called raises was to be raised.                   *)
<1>2. ASSUME NEW p \in Procs, state[p] = "session", Here(p).methods # <<>>,
             Permits(drive, Here(p).auth, Head(Here(p).methods))
      PROVE  LET m == Head(Here(p).methods) e == Performed(drive, m) IN
             /\ e.mbrEnable /\ ~drive.mbrEnable => e.mbrDone
             /\ m = SetMBR("Done", TRUE) => e.mbrDone
             /\ e.mbrDone \in BOOLEAN
  <2>. DEFINE m == Head(Here(p).methods)
              e == Performed(drive, m)
              n == job[p].n
  <2>1. /\ Here(p) \in SoundSessions(n) /\ Here(p).methods \in Seq(SoundMethods(n))
        /\ todo[p] # <<>> /\ todo[p] \in Seq(SoundSessions(n))
    BY <1>0, <1>2, HereSound DEF Runs
  <2>2. m \in SoundMethods(n) /\ m \in Methods
    <3>1. m \in SoundMethods(n)
      BY <1>2, <2>1, HeadTail, Zenon
    <3>. QED
      BY <3>1 DEF SoundMethods
  <2>3. Raising(m) => Raises(Here(p))
    <3>1. 1 \in 1..Len(Here(p).methods) /\ m = Here(p).methods[1]
      BY <1>2, <2>1
    <3>. QED
      BY <3>1, Zenon DEF Raises
  <2>4. Raises(Here(p)) => drive.mbrDone
    <3>1. 1 \in 1..Len(todo[p]) /\ Here(p) = todo[p][1]
      BY <2>1 DEF Here
    <3>. QED
      BY <3>1, Zenon DEF Lowering, LowersFirst
  <2>5. Here(p).auth \in Users \cup {Admin1} => drive.active
    BY <1>0, <1>2, <2>1 DEF InSession, SoundSessions
  <2>6. /\ e.mbrEnable /\ ~drive.mbrEnable => Raising(m) /\ e.mbrDone = drive.mbrDone
        /\ m = SetMBR("Done", TRUE) => e.mbrDone
    BY <1>0, <1>2, <2>2, <2>5, MethodShadow
  <2>7. e.mbrDone \in BOOLEAN
    <3>1. Sane(e)
      BY <1>2, StepSane
    <3>. QED
      BY <3>1 DEF Sane, Drives
  <2>. QED
    BY <2>3, <2>4, <2>6, <2>7
<1>3. ASSUME NEW p \in Procs, Launch(p) PROVE Lowering' /\ drive' = drive
  <2>1. PICK j \in Jobs : todo' = [todo EXCEPT ![p] = Handler(j, drive)]
    BY <1>3 DEF Launch
  <2>2. todo'[p] = Handler(j, drive) /\ drive' = drive
    BY <1>0, <1>3, <2>1 DEF Launch, TypeOK
  <2>3. Lowered(Handler(j, drive))
    BY JobTyped, HandlerSound DEF Plans
  <2>. HIDE DEF Lowering
  <2>4. \A s, done : Lowered(s) => LowersFirst(s, done)
    <3>1. ASSUME NEW s, NEW done, Lowered(s), NEW i \in 1..Len(s), Raises(s[i])
          PROVE  /\ s[i].methods = <<SetMBR("Enable", TRUE)>>
                 /\ i # 1 /\ s[i - 1].methods = <<SetMBR("Done", TRUE)>>
      <4>1. /\ s[i].methods = <<SetMBR("Enable", TRUE)>>
            /\ i > 1 /\ s[i - 1].methods = <<SetMBR("Done", TRUE)>>
        BY <3>1, Zenon DEF Lowered
      <4>2. \A k \in Int : k > 1 => k # 1
        OBVIOUS
      <4>3. i \in Int
        OBVIOUS
      <4>. QED
        BY <4>1, <4>2, <4>3, Zenon
    <3>. QED
      BY <3>1, Zenon DEF LowersFirst
  <2>5. LowersFirst(todo'[p], drive'.mbrDone)
    BY <2>2, <2>3, <2>4, Zenon
  <2>. QED
    BY <2>2, <2>5, Zenon DEF Lowering
<1>4. ASSUME NEW p \in Procs, Start(p) PROVE Lowering' /\ drive' = drive
  BY <1>4 DEF Start, Lowering
<1>5. ASSUME NEW p \in Procs, Ends(p, "ok") \/ Ends(p, "err") \/ Ends(p, "killed")
      PROVE  Lowering'
  <2>1. \A q \in Procs : todo'[q] = <<>>
    BY <1>0, <1>5 DEF Ends, TypeOK
  <2>. QED
    BY <2>1, NothingRaises DEF Lowering
<1>6. ASSUME NEW p \in Procs, Call(p)
      PROVE  Lowering' /\ (drive'.mbrEnable /\ ~drive.mbrEnable => drive'.mbrDone)
  <2>. DEFINE m == Head(Here(p).methods)
              c == Correction(p, m)
              s == <<[Here(p) EXCEPT !.methods = Tail(@)]>> \o c \o Tail(todo[p])
              n == job[p].n
  <2>1. /\ state[p] = "session" /\ Here(p).methods # <<>>
        /\ Permits(drive, Here(p).auth, m) /\ drive' = Performed(drive, m)
        /\ Drops(m) => Ends(p, "ok")
        /\ ~Drops(m) => todo' = [todo EXCEPT ![p] = s]
    BY <1>6 DEF Call
  <2>2. /\ drive'.mbrEnable /\ ~drive.mbrEnable => drive'.mbrDone
        /\ m = SetMBR("Done", TRUE) => drive'.mbrDone
        /\ drive'.mbrDone \in BOOLEAN
    BY <1>2, <2>1
  <2>3. CASE ~Drops(m)
    <3>1. /\ todo[p] # <<>> /\ todo[p] \in Seq(SoundSessions(n))
          /\ LowersFirst(todo[p], drive.mbrDone)
      BY <1>0, <2>1, HereSound DEF Runs, Lowering
    <3>2. /\ c \in Seq(SoundSessions(n)) /\ Lowered(c)
          /\ c # <<>> => m.op = "isRange"
      <4>1. setupLockingRange_SUM(job[p], Empty) \in Plans(n)
        BY <1>0, JobsTyped, setupLockingRange_SUMSound, PasswordAssumption
      <4>2. <<>> \in Seq(SoundSessions(n)) /\ Lowered(<<>>)
        BY DEF Lowered
      <4>. QED
        BY <4>1, <4>2 DEF Correction, Plans
    <3>. HIDE DEF c, n
    <3>3. LowersFirst(s, drive'.mbrDone)
      <4>1. Here(p) = Head(todo[p])
        BY DEF Here
      <4>2. drive.mbrDone \in BOOLEAN
        BY <1>0 DEF TypeOK, Drives
      <4>3. Head(todo[p]).methods # <<>> /\ m = Head(Head(todo[p]).methods)
        BY <2>1, <4>1
      <4>. HIDE DEF m
      <4>4. s = <<[Head(todo[p]) EXCEPT !.methods = Tail(@)]>> \o c \o Tail(todo[p])
        BY <4>1
      <4>. HIDE DEF s
      <4>5. LowersFirst(<<[Head(todo[p]) EXCEPT !.methods = Tail(@)]>> \o c \o Tail(todo[p]),
                        drive'.mbrDone)
        BY <2>2, <3>1, <3>2, <4>2, <4>3, LowersOn
      <4>. QED
        BY <4>4, <4>5
    <3>. HIDE DEF s
    <3>4. todo'[p] = s
      BY <1>0, <2>1, <2>3 DEF TypeOK
    <3>5. Lowering'
      BY <3>3, <3>4, Zenon DEF Lowering
    <3>. QED
      BY <2>2, <3>5
  <2>. QED
    BY <1>5, <2>1, <2>2, <2>3
<1>7. ASSUME NEW p \in Procs, Close(p) \/ CloseFails(p) PROVE Lowering' /\ drive' = drive
  <2>1. /\ state[p] = "session" /\ Here(p).methods = <<>> /\ drive' = drive
        /\ Ends(p, "ok") \/ todo' = [todo EXCEPT ![p] = Tail(@)]
    BY <1>7 DEF Close, CloseFails, Proceed
  <2>2. CASE todo' = [todo EXCEPT ![p] = Tail(@)]
    <3>1. todo'[p] = Tail(todo[p])
      BY <1>0, <2>2 DEF TypeOK
    <3>2. /\ todo[p] # <<>> /\ todo[p] \in Seq(SoundSessions(job[p].n))
          /\ LowersFirst(todo[p], drive.mbrDone)
      BY <1>0, <2>1, HereSound DEF Runs, Lowering
    <3>3. LowersFirst(Tail(todo[p]), drive.mbrDone)
      BY <1>0, <2>1, <3>2, LowersNext DEF Here
    <3>4. LowersFirst(todo'[p], drive'.mbrDone)
      BY <2>1, <3>1, <3>3
    <3>. QED
      BY <2>1, <3>4, Zenon DEF Lowering
  <2>. QED
    BY <1>5, <2>1, <2>2
<1>8. ASSUME NEW p \in Procs, CallFails(p)
      PROVE  Lowering' /\ (drive'.mbrEnable /\ ~drive.mbrEnable => drive'.mbrDone)
  <2>1. /\ state[p] = "session" /\ Here(p).methods # <<>> /\ Ends(p, "err")
        /\ \/ drive' = drive
           \/ /\ Permits(drive, Here(p).auth, Head(Here(p).methods))
              /\ drive' = Performed(drive, Head(Here(p).methods))
    BY <1>8 DEF CallFails
  <2>. QED
    BY <1>2, <1>5, <2>1
<1>9. ASSUME NEW p \in Procs,
             \/ Refused(p) \/ Busy(p) \/ StartFails(p) \/ CallRefused(p) \/ Interrupt(p)
      PROVE  Lowering' /\ drive' = drive
  BY <1>5, <1>9 DEF Refused, Busy, StartFails, CallRefused, Interrupt
<1>10. CASE UNCHANGED vars
  BY <1>10 DEF vars, hostVars, Lowering
<1>. QED
  BY <1>1, <1>3, <1>4, <1>6, <1>7, <1>8, <1>9, <1>10 DEF Next, Step

(* ShadowStaysDown: a command that is alone on the drive never switches    *)
(* shadowing on while the drive would show the shadow at once, at whatever *)
(* exchange an earlier command was stopped ("set MBRDone before changing   *)
(* MBREnable", DtaDevOpal.cpp:779).  With two processes it does not hold.  *)
THEOREM OpalShadowStaysDown ==
  ASSUME \A p, q \in Procs : p = q
  PROVE  Spec => ShadowStaysDown
<1>1. Init => Lowering
  BY NothingRaises DEF Init, Lowering
<1>2. IInv /\ Lowering /\ [Next]_vars => Lowering'
  BY LoweringStep
<1>3. IInv /\ Lowering /\ [Next]_vars =>
        [drive'.mbrEnable /\ ~drive.mbrEnable => drive'.mbrDone]_vars
  BY LoweringStep
<1>. QED
  BY <1>1, <1>2, <1>3, Invariance, PTL DEF Spec, ShadowStaysDown

=============================================================================
