------------------------ MODULE DtaDevEnterpriseProof -------------------------
(***************************************************************************)
(* Proofs about DtaDevEnterprise, for drives of any bands, any passwords   *)
(* and any set of commands.  The inductive invariant adds to the types     *)
(* that every Set of a band still to be done either enables LockOnReset    *)
(* or leaves less of the locking enabled than there was, that no command   *)
(* changes the PSID, and what PSIDrevert has still to do.                  *)
(***************************************************************************)
EXTENDS DtaDevEnterprise, TLAPS

SetsSoundly(m) ==
  m.op = "setBand" =>
    \/ m.reset = {TRUE}
    \/ m.guard = {} /\ (m.guardOf = Modes \/ m.reset = {})
LeavesPSID(m) == m.op = "setPIN" => m.auth # PSIDOwner

SoundMethods  == {m \in Methods : SetsSoundly(m) /\ LeavesPSID(m)}
SoundSessions == {s \in Sessions : s.methods \in Seq(SoundMethods)}

(* A band with its locking enabled locks at a power cycle.                 *)
LocksOnReset(d) == \A b \in Bands : d.guard[b] # {} => b \in d.reset

Kept(d) == LocksOnReset(d) /\ d.pin[PSIDOwner] = Raw(PSID)

Machine ==
  drive \in Drives /\ Kept(drive) /\ taken \in BOOLEAN /\ fault \in BOOLEAN
Process ==
  /\ job \in Jobs \cup {NoJob}
  /\ state \in {"idle", "running", "session", "ok", "err", "killed"}
  /\ todo \in Seq(SoundSessions) /\ (state = "session" => todo # <<>>)
  /\ seen \in {"none", "one", "failed"}
  /\ was \in Drives

(* PSIDrevert is one session of one method.                                *)
Reverting == Runs /\ job.cmd = "PSIDrevert" => todo = revertTPer(job, TRUE)

IInv == Machine /\ Process /\ Reverting

-----------------------------------------------------------------------------
(* The drive                                                               *)

LEMMA BandsAreNumbers == Bands \subseteq Nat /\ MaxRanges \in Nat /\ 0 \in Bands
BY BandAssumption DEF Bands, MaxRanges

LEMMA FactoryTyped ==
  ASSUME NEW i \in {"enterprise", "opal", "none"}
  PROVE  Factory(i) \in Drives /\ Kept(Factory(i))
BY PasswordAssumption, PlaceAssumption, FactoryAssumption 
DEF Drives, Factory, Pins, Raw, Kept, LocksOnReset, Authorities

LEMMA PoweredUpTyped ==
  ASSUME NEW d \in Drives
  PROVE  PoweredUp(d) \in Drives /\ (Kept(d) => Kept(PoweredUp(d)))
BY DEF Drives, PoweredUp, Kept, LocksOnReset

(* A Set of a band, column by column.                                      *)
LEMMA SetBandPreserves ==
  ASSUME NEW d \in Drives, NEW m \in SoundMethods, m.op = "setBand", m.band \in Bands
  PROVE  /\ Performed(d, m) \in Drives
         /\ Kept(d) => Kept(Performed(d, m))
<1>. DEFINE place == IF m.place = {} THEN d.place[m.band] ELSE CHOOSE x \in m.place : TRUE
            stale == IF m.place = {} THEN d.stale ELSE d.stale \cup {m.band}
            guard == (d.guard[m.band] \ m.guardOf) \cup m.guard
            locked == (d.locked[m.band] \ m.lockOf) \cup m.lock
            reset == IF TRUE \in m.reset THEN d.reset \cup {m.band}
                     ELSE IF FALSE \in m.reset THEN d.reset \ {m.band} ELSE d.reset
            p == [d EXCEPT !.place[m.band] = place, !.stale = stale, !.guard[m.band] = guard,
                           !.locked[m.band] = locked, !.reset = reset]
<1>1. Performed(d, m) = p
  BY DEF Performed
<1>2. /\ m.place \subseteq Places /\ m.guard \subseteq Modes /\ m.lock \subseteq Modes
      /\ m.guardOf \subseteq Modes /\ m.reset \subseteq BOOLEAN
  BY DEF SoundMethods, Methods
<1>3. /\ place \in Places /\ stale \in SUBSET Bands /\ guard \in SUBSET Modes
      /\ locked \in SUBSET Modes /\ reset \in SUBSET Bands
  BY <1>2 DEF Drives
<1>. HIDE DEF place, stale, guard, locked, reset
<1>4. p \in Drives
  BY <1>3 DEF Drives
<1>5. p.guard = [d.guard EXCEPT ![m.band] = guard] /\ p.reset = reset /\ p.pin = d.pin
  BY DEF Drives
<1>6. ASSUME LocksOnReset(d), NEW b \in Bands, p.guard[b] # {} PROVE b \in p.reset
  <2>1. CASE m.reset = {TRUE}
    BY <1>5, <1>6, <2>1 DEF reset, LocksOnReset, Drives
  <2>2. CASE m.guard = {} /\ m.guardOf = Modes
    <3>1. guard = {}
      BY <2>2 DEF guard, Drives
    <3>2. b # m.band /\ d.guard[b] # {}
      BY <1>5, <1>6, <3>1 DEF Drives
    <3>. QED
      BY <1>5, <1>6, <3>2 DEF reset, LocksOnReset, Drives
  <2>3. CASE m.guard = {} /\ m.reset = {}
    <3>1. guard \subseteq d.guard[m.band]
      BY <2>3 DEF guard
    <3>2. d.guard[b] # {}
      BY <1>5, <1>6, <3>1 DEF Drives
    <3>. QED
      BY <1>5, <1>6, <2>3, <3>2 DEF reset, LocksOnReset, Drives
  <2>. QED
    BY <2>1, <2>2, <2>3 DEF SoundMethods, SetsSoundly
<1>. QED
  BY <1>1, <1>4, <1>5, <1>6 DEF LocksOnReset, Kept

(* What any method does that the drive permits.                            *)
LEMMA MethodPreserves ==
  ASSUME NEW d \in Drives, NEW m \in SoundMethods, NEW auth, Permits(d, auth, m)
  PROVE  /\ Performed(d, m) \in Drives
         /\ Kept(d) => Kept(Performed(d, m))
<1>0. m \in Methods
  BY DEF SoundMethods
<1>1. CASE m.op \in {"read", "info", "infoOpal"}
  BY <1>1 DEF Performed
<1>2. CASE m.op = "setPIN"
  <2>1. m.pin \in Pins /\ m.auth # PSIDOwner
    BY <1>0, <1>2 DEF Methods, SoundMethods, LeavesPSID
  <2>2. Performed(d, m) = [d EXCEPT !.pin[m.auth] = m.pin]
    BY <1>2 DEF Performed
  <2>3. Performed(d, m) \in Drives
    BY <2>1, <2>2 DEF Drives
  <2>4. PSIDOwner \in Authorities
    BY DEF Authorities
  <2>5. Performed(d, m).pin[PSIDOwner] = d.pin[PSIDOwner]
    BY <2>1, <2>2, <2>4 DEF Drives
  <2>6. Performed(d, m).guard = d.guard /\ Performed(d, m).reset = d.reset
    BY <2>2 DEF Drives
  <2>. QED
    BY <2>3, <2>5, <2>6 DEF Kept, LocksOnReset
<1>3. CASE m.op = "setBand"
  BY <1>3, SetBandPreserves DEF Permits
<1>4. CASE m.op = "genKey"
  BY <1>4 DEF Performed, Drives, Kept, LocksOnReset
<1>5. CASE m.op = "erase"
  <2>1. m.band \in Bands
    BY <1>5 DEF Permits
  <2>2. Performed(d, m) =
          [d EXCEPT !.stale = d.stale \ {m.band}, !.guard[m.band] = {}, !.locked[m.band] = {},
                    !.pin[BandMaster(m.band)] = Raw(MSID)]
    BY <1>5 DEF Performed
  <2>3. Raw(MSID) \in Pins
    BY PasswordAssumption DEF Pins, Raw
  <2>4. Performed(d, m) \in Drives
    <3>1. /\ d.stale \ {m.band} \in SUBSET Bands
          /\ [d.guard EXCEPT ![m.band] = {}] \in [Bands -> SUBSET Modes]
          /\ [d.locked EXCEPT ![m.band] = {}] \in [Bands -> SUBSET Modes]
          /\ [d.pin EXCEPT ![BandMaster(m.band)] = Raw(MSID)] \in [Authorities -> Pins]
      BY <2>3 DEF Drives
    <3>. QED
      BY <2>2, <3>1 DEF Drives
  <2>5. PSIDOwner \in Authorities /\ BandMaster(m.band) # PSIDOwner
    BY DEF Authorities, BandMaster, PSIDOwner
  <2>6. Performed(d, m).pin[PSIDOwner] = d.pin[PSIDOwner]
    BY <2>2, <2>5 DEF Drives
  <2>7. /\ Performed(d, m).guard = [d.guard EXCEPT ![m.band] = {}]
        /\ Performed(d, m).reset = d.reset
    BY <2>2 DEF Drives
  <2>. QED
    BY <2>1, <2>4, <2>6, <2>7 DEF Kept, LocksOnReset, Drives
<1>6. CASE m.op = "enable"
  BY <1>6 DEF Performed, Permits, Drives, Kept, LocksOnReset
<1>7. CASE m.op = "revert"
  <2>1. d.info \in {"enterprise", "opal", "none"}
    BY DEF Drives
  <2>. QED
    BY <1>7, <2>1, FactoryTyped DEF Performed, Kept, LocksOnReset
<1>. QED
  BY <1>0, <1>1, <1>2, <1>3, <1>4, <1>5, <1>6, <1>7 DEF Methods

-----------------------------------------------------------------------------
(* The handlers                                                            *)

(* What the arguments of a command may be.                                 *)
JobRecords ==
  [cmd : CommandNames, n : BOOLEAN, pw : Passwords, new : Passwords,
   user : Claimed \ {PSIDOwner}, band : Bands \cup Named, place : Places,
   guard : SUBSET Modes, lock : {"RW", "RO", "LK"}]

LEMMA NoJobTyped == \A c \in CommandNames : [NoJob EXCEPT !.cmd = c] \in JobRecords
BY PasswordAssumption, PlaceAssumption, BandsAreNumbers DEF NoJob, JobRecords, Claimed, Anybody,
   PSIDOwner

LEMMA MasterTyped == \A b \in Bands \cup Named : Master(b) \in Claimed \ {PSIDOwner}
BY DEF Claimed, Master, BandMaster, PSIDOwner

LEMMA TypedTyped ==
  ASSUME NEW c \in CommandNames, NEW pw \in Passwords
  PROVE  /\ Typed(c, pw) \in JobRecords
         /\ \A new \in Passwords, a \in Claimed \ {PSIDOwner} :
              ForUser(c, pw, new, a) \in JobRecords
         /\ \A new \in Passwords : NewPIN(c, pw, new) \in JobRecords
         /\ \A b \in Named : OnBand(c, pw, b) \in JobRecords
<1>1. Typed(c, pw) \in JobRecords
  BY PasswordAssumption, PlaceAssumption, BandsAreNumbers DEF NoJob, Typed, JobRecords, Claimed,
     Anybody, PSIDOwner
<1>2. \A new \in Passwords : NewPIN(c, pw, new) \in JobRecords
  BY <1>1 DEF NewPIN, JobRecords
<1>3. \A new \in Passwords, a \in Claimed \ {PSIDOwner} : ForUser(c, pw, new, a) \in JobRecords
  BY <1>2 DEF ForUser, JobRecords
<1>4. \A b \in Named : OnBand(c, pw, b) \in JobRecords
  BY <1>1, NamedAssumption DEF OnBand, JobRecords
<1>. QED
  BY <1>1, <1>2, <1>3, <1>4

LEMMA ArgumentsTyped ==
  ASSUME NEW c \in CommandNames
  PROVE  Arguments(c) \subseteq JobRecords
<1>1. \A new, pw \in Passwords, b \in Named : ForMaster(c, pw, new, b) \in JobRecords
  <2>. SUFFICES ASSUME NEW new \in Passwords, NEW pw \in Passwords, NEW b \in Named
                PROVE  ForMaster(c, pw, new, b) \in JobRecords
    OBVIOUS
  <2>1. ForUser(c, pw, new, Master(b)) \in JobRecords
    BY TypedTyped, MasterTyped
  <2>. QED
    BY <2>1, NamedAssumption DEF ForMaster, JobRecords
<1>2. \A pw \in Passwords, b \in Named, g \in {{}, {"write"}, Modes} :
         Guarding(c, pw, b, g) \in JobRecords
  BY TypedTyped DEF Guarding, JobRecords, Modes
<1>3. \A pw \in Passwords, b \in Named, l \in {"RW", "RO", "LK"} :
         Setting(c, pw, b, l) \in JobRecords
  BY TypedTyped DEF Setting, JobRecords
<1>4. \A pw \in Passwords, b \in Named, x \in Places : Placing(c, pw, b, x) \in JobRecords
  BY TypedTyped DEF Placing, JobRecords
<1>5. [NoJob EXCEPT !.cmd = c] \in JobRecords
  BY NoJobTyped
<1>6. EraseMaster \in Claimed \ {PSIDOwner}
  BY DEF Claimed, Authorities, EraseMaster, PSIDOwner
<1>. QED
  BY <1>1, <1>2, <1>3, <1>4, <1>5, <1>6, TypedTyped DEF Arguments, CommandNames, Ignored, Rejected

LEMMA JobTyped ==
  ASSUME NEW j \in Jobs
  PROVE  j \in JobRecords
<1>1. PICK c \in Commands : \E k \in Arguments(c), n \in NoHash : j = [k EXCEPT !.n = n]
  BY DEF Jobs
<1>2. PICK k \in Arguments(c), n \in NoHash : j = [k EXCEPT !.n = n]
  BY <1>1
<1>3. k \in JobRecords
  BY CommandAssumption, ArgumentsTyped
<1>. QED
  BY <1>2, <1>3, HashAssumption DEF JobRecords

(* Pieces of handlers.                                                     *)
LEMMA PinsTyped ==
  ASSUME NEW j \in JobRecords, NEW pw \in Passwords
  PROVE  Raw(pw) \in Pins /\ HashPwd(j, pw) \in Pins /\ OrMSID(j, pw) \in Pins
<1>1. (pw # Empty /\ ~j.n) \in BOOLEAN
  OBVIOUS
<1>2. Raw(pw) \in Pins /\ HashPwd(j, pw) \in Pins /\ Raw(MSID) \in Pins
  BY <1>1, PasswordAssumption DEF Pins, Raw, HashPwd
<1>. QED
  BY <1>2 DEF OrMSID

LEMMA SessionSound ==
  ASSUME NEW sp \in {"Admin", "Locking", "none"}, NEW auth \in Claimed, NEW pin \in Pins,
         NEW methods \in Seq(SoundMethods), NEW err \in {"return", "skip", "opal", "list"}
  PROVE  /\ Session(sp, auth, pin, methods, err) \in Seq(SoundSessions)
         /\ Head(Session(sp, auth, pin, methods, err)) \in SoundSessions
<1>1. methods \in Seq(Methods)
  BY DEF SoundMethods
<1>2. [sp |-> sp, auth |-> auth, pin |-> pin, methods |-> methods, err |-> err] \in SoundSessions
  BY <1>1 DEF SoundSessions, Sessions
<1>. QED
  BY <1>2 DEF Session

LEMMA LockingSound ==
  ASSUME NEW auth \in Claimed, NEW pin \in Pins, NEW methods \in Seq(SoundMethods)
  PROVE  /\ Locking(auth, pin, methods) \in Seq(SoundSessions)
         /\ Head(Locking(auth, pin, methods)) \in SoundSessions
BY SessionSound DEF Locking

LEMMA AuthoritiesClaimed ==
  /\ PSIDOwner \in Claimed
  /\ {Anybody, SID, EraseMaster} \subseteq Claimed \ {PSIDOwner}
  /\ \A b \in Bands \cup Named : Master(b) \in Claimed \ {PSIDOwner}
BY MasterTyped DEF Claimed, Authorities, Anybody, SID, EraseMaster, PSIDOwner

LEMMA BandsAreIntegers == Bands \cup Named \subseteq Int /\ \A b \in Int : setband(b) \in Int
BY BandsAreNumbers, NamedAssumption DEF setband

LEMMA MethodsSound ==
  /\ \A op \in {"read", "info", "infoOpal", "revert"} : [op |-> op] \in SoundMethods
  /\ \A a \in Claimed \ {PSIDOwner}, pin \in Pins : SetPIN(a, pin) \in SoundMethods
  /\ \A op \in {"genKey", "erase", "enable"}, b \in Int : [op |-> op, band |-> b] \in SoundMethods
<1>1. \A op \in {"read", "info", "infoOpal", "revert"} : [op |-> op] \in SoundMethods
  BY DEF SoundMethods, Methods, SetsSoundly, LeavesPSID
<1>2. \A a \in Claimed \ {PSIDOwner}, pin \in Pins : SetPIN(a, pin) \in SoundMethods
  BY DEF SoundMethods, Methods, SetsSoundly, LeavesPSID, SetPIN
<1>3. \A op \in {"genKey", "erase", "enable"}, b \in Int : [op |-> op, band |-> b] \in SoundMethods
  BY DEF SoundMethods, Methods, SetsSoundly, LeavesPSID
<1>. QED
  BY <1>1, <1>2, <1>3

LEMMA SetBandSound ==
  ASSUME NEW b \in Bands \cup Named, NEW place \in SUBSET Places, NEW guardOf \in SUBSET Modes,
         NEW guard \in SUBSET Modes, NEW lockOf \in SUBSET Modes, NEW lock \in SUBSET Modes,
         NEW reset \in SUBSET BOOLEAN,
         reset = {TRUE} \/ (guard = {} /\ (guardOf = Modes \/ reset = {}))
  PROVE  <<SetBand(setband(b), place, guardOf, guard, lockOf, lock, reset)>> \in Seq(SoundMethods)
<1>. DEFINE m == SetBand(setband(b), place, guardOf, guard, lockOf, lock, reset)
<1>1. m \in Methods
  BY BandsAreIntegers DEF Methods, SetBand
<1>2. SetsSoundly(m) /\ LeavesPSID(m)
  BY DEF SetsSoundly, SetBand, LeavesPSID
<1>. QED
  BY <1>1, <1>2 DEF SoundMethods

LEMMA AskingSound ==
  /\ getDefaultPassword \in Seq(SoundSessions)
  /\ getMaxRanges \in Seq(SoundSessions)
  /\ getMaxRangesOpal \in Seq(SoundSessions)
  /\ Invalid \in Seq(SoundSessions)
<1>1. Raw(Empty) \in Pins
  BY PasswordAssumption DEF Pins, Raw
<1>2. /\ <<Read>> \in Seq(SoundMethods) /\ <<>> \in Seq(SoundMethods)
      /\ <<[op |-> "info"]>> \in Seq(SoundMethods) /\ <<[op |-> "infoOpal"]>> \in Seq(SoundMethods)
  BY MethodsSound DEF Read
<1>. QED
  BY <1>1, <1>2, AuthoritiesClaimed, SessionSound, LockingSound
  DEF getDefaultPassword, getMaxRanges, getMaxRangesOpal, Invalid

LEMMA DefaultForSound ==
  ASSUME NEW pws
  PROVE  DefaultFor(pws) \in Seq(SoundSessions)
BY AskingSound DEF DefaultFor

LEMMA WithinSound ==
  ASSUME NEW b \in Int, NEW sessions \in Seq(SoundSessions)
  PROVE  Within(b, sessions) \in Seq(SoundSessions)
BY AskingSound DEF Within

(* Each handler opens sound sessions.                                      *)
LEMMA setSIDPasswordSound ==
  ASSUME NEW j \in JobRecords, NEW old \in Pins, NEW new \in Passwords
  PROVE  setSIDPassword(j, old, new) \in Seq(SoundSessions)
<1>1. HashPwd(j, new) \in Pins /\ Raw(MSID) \in Pins
  BY PinsTyped, PasswordAssumption
<1>2. <<SetPIN(SID, HashPwd(j, new))>> \in Seq(SoundMethods)
  BY <1>1, MethodsSound, AuthoritiesClaimed
<1>3. Session("Admin", SID, IF old.pw = Empty THEN Raw(MSID) ELSE old,
              <<SetPIN(SID, HashPwd(j, new))>>, "return") \in Seq(SoundSessions)
  BY <1>1, <1>2, AuthoritiesClaimed, SessionSound
<1>. QED
  BY <1>3, DefaultForSound DEF setSIDPassword

LEMMA initLSPUsersSound ==
  ASSUME NEW j \in JobRecords
  PROVE  initLSPUsers(j) \in Seq(SoundSessions)
<1>1. HashPwd(j, j.pw) \in Pins /\ Raw(MSID) \in Pins
  BY PinsTyped, PasswordAssumption DEF JobRecords
<1>2. \A a \in Claimed \ {PSIDOwner} : <<SetPIN(a, HashPwd(j, j.pw))>> \in Seq(SoundMethods)
  BY <1>1, MethodsSound
<1>3. Locking(EraseMaster, Raw(MSID), <<SetPIN(EraseMaster, HashPwd(j, j.pw))>>)
        \in Seq(SoundSessions)
  BY <1>1, <1>2, AuthoritiesClaimed, LockingSound
<1>4. ASSUME NEW b \in Bands PROVE Head(Initialised(j, b)) \in SoundSessions
  BY <1>1, <1>2, AuthoritiesClaimed, SessionSound DEF Initialised
<1>5. Len(BandSeq) \in Nat /\ \A i \in 1..Len(BandSeq) : BandSeq[i] \in Bands
  BY BandAssumption DEF Bands
<1>. DEFINE h(i) == Head(Initialised(j, BandSeq[i]))
<1>6. \A i \in 1..Len(BandSeq) : h(i) \in SoundSessions
  BY <1>4, <1>5
<1>. HIDE DEF h
<1>7. [i \in 1..Len(BandSeq) |-> h(i)] \in Seq(SoundSessions)
  BY <1>5, <1>6
<1>8. Within(0, [i \in 1..Len(BandSeq) |-> h(i)]) \in Seq(SoundSessions)
  BY <1>7, WithinSound
<1>. USE DEF h
<1>. QED
  BY <1>3, <1>8 DEF initLSPUsers

LEMMA takeOwnershipSound ==
  ASSUME NEW j \in JobRecords
  PROVE  takeOwnership(j) \in Seq(SoundSessions)
<1>1. setSIDPassword(j, Raw(MSID), j.pw) \in Seq(SoundSessions)
  BY setSIDPasswordSound, PinsTyped, PasswordAssumption DEF JobRecords
<1>. QED
  BY <1>1, AskingSound, initLSPUsersSound DEF takeOwnership

LEMMA configureLockingRangeSound ==
  ASSUME NEW j \in JobRecords, NEW b \in Bands \cup Named, NEW guard \in SUBSET Modes
  PROVE  configureLockingRange(j, b, guard) \in Seq(SoundSessions)
<1>1. HashPwd(j, j.pw) \in Pins
  BY PinsTyped DEF JobRecords
<1>2. <<SetBand(setband(b), {}, Modes, guard, {}, {}, {TRUE})>> \in Seq(SoundMethods)
  BY SetBandSound, {TRUE} \in SUBSET BOOLEAN, {} \in SUBSET Places, Modes \in SUBSET Modes
<1>. QED
  BY <1>1, <1>2, AuthoritiesClaimed, LockingSound DEF configureLockingRange

LEMMA setLockingRangeSound ==
  ASSUME NEW j \in JobRecords, NEW b \in Bands \cup Named, NEW lock
  PROVE  setLockingRange(j, b, lock) \in Seq(SoundSessions)
<1>1. HashPwd(j, j.pw) \in Pins
  BY PinsTyped DEF JobRecords
<1>2. <<SetBand(setband(b), {}, {}, {}, Modes, IF lock = "LK" THEN Modes ELSE {}, {})>>
        \in Seq(SoundMethods)
  <2>1. (IF lock = "LK" THEN Modes ELSE {}) \in SUBSET Modes
    OBVIOUS
  <2>. QED
    BY <2>1, SetBandSound, {} \in SUBSET BOOLEAN, {} \in SUBSET Places, Modes \in SUBSET Modes
<1>3. Locking(Master(b), HashPwd(j, j.pw),
              <<SetBand(setband(b), {}, {}, {}, Modes,
                        IF lock = "LK" THEN Modes ELSE {}, {})>>) \in Seq(SoundSessions)
  BY <1>1, <1>2, AuthoritiesClaimed, LockingSound
<1>. QED
  BY <1>3, AskingSound, WithinSound, BandsAreIntegers DEF setLockingRange

LEMMA setupLockingRangeSound ==
  ASSUME NEW j \in JobRecords
  PROVE  setupLockingRange(j) \in Seq(SoundSessions)
<1>1. HashPwd(j, j.pw) \in Pins /\ j.band \in Bands \cup Named /\ j.place \in Places
  BY PinsTyped DEF JobRecords
<1>2. <<SetBand(setband(j.band), {j.place}, Modes, {}, Modes, {}, {FALSE})>> \in Seq(SoundMethods)
  BY <1>1, SetBandSound, {FALSE} \in SUBSET BOOLEAN, {j.place} \in SUBSET Places,
     Modes \in SUBSET Modes
<1>. QED
  BY <1>1, <1>2, AuthoritiesClaimed, LockingSound, WithinSound, BandsAreIntegers
  DEF setupLockingRange

LEMMA initialSetupSound ==
  ASSUME NEW j \in JobRecords
  PROVE  initialSetup(j) \in Seq(SoundSessions)
BY takeOwnershipSound, setLockingRangeSound, configureLockingRangeSound, BandsAreNumbers
DEF initialSetup

LEMMA rekeyLockingRangeSound ==
  ASSUME NEW j \in JobRecords
  PROVE  rekeyLockingRange(j) \in Seq(SoundSessions)
<1>1. HashPwd(j, j.pw) \in Pins /\ j.band \in Bands \cup Named
  BY PinsTyped DEF JobRecords
<1>2. Read \in SoundMethods /\ [op |-> "genKey", band |-> setband(j.band)] \in SoundMethods
  BY <1>1, MethodsSound, BandsAreIntegers DEF Read
<1>3. (IF setband(j.band) \in Plain THEN <<Read>>
       ELSE <<Read, [op |-> "genKey", band |-> setband(j.band)]>>) \in Seq(SoundMethods)
  BY <1>2
<1>. QED
  BY <1>1, <1>3, AuthoritiesClaimed, LockingSound DEF rekeyLockingRange

LEMMA setPasswordSound ==
  ASSUME NEW j \in JobRecords
  PROVE  setPassword(j) \in Seq(SoundSessions)
<1>1. OrMSID(j, j.pw) \in Pins /\ OrMSID(j, j.new) \in Pins /\ j.user \in Claimed \ {PSIDOwner}
  BY PinsTyped DEF JobRecords
<1>2. <<SetPIN(j.user, OrMSID(j, j.new))>> \in Seq(SoundMethods)
  BY <1>1, MethodsSound
<1>3. Locking(j.user, OrMSID(j, j.pw), <<SetPIN(j.user, OrMSID(j, j.new))>>) \in Seq(SoundSessions)
  BY <1>1, <1>2, LockingSound
<1>. QED
  BY <1>3, DefaultForSound DEF setPassword

LEMMA eraseLockingRangeSound ==
  ASSUME NEW j \in JobRecords
  PROVE  eraseLockingRange(j) \in Seq(SoundSessions)
<1>1. OrMSID(j, j.pw) \in Pins /\ j.band \in Bands \cup Named
  BY PinsTyped DEF JobRecords
<1>2. <<[op |-> "erase", band |-> setband(j.band)]>> \in Seq(SoundMethods)
  BY <1>1, MethodsSound, BandsAreIntegers
<1>3. Locking(EraseMaster, OrMSID(j, j.pw), <<[op |-> "erase", band |-> setband(j.band)]>>)
        \in Seq(SoundSessions)
  BY <1>1, <1>2, AuthoritiesClaimed, LockingSound
<1>. QED
  BY <1>1, <1>3, DefaultForSound, WithinSound, BandsAreIntegers DEF eraseLockingRange

LEMMA ChosenTyped ==
  ASSUME NEW n \in {-1} \cup Bands \cup Named
  PROVE  Chosen(n) \in Seq(Bands \cup Named)
<1>1. BandSeq \in Seq(Bands)
  BY BandAssumption DEF Bands
<1>2. \A s \in Seq(Bands) : s \in Seq(Bands \cup Named)
  OBVIOUS
<1>3. CASE n = -1
  BY <1>1, <1>2, <1>3 DEF Chosen
<1>4. CASE n # -1
  BY <1>4 DEF Chosen
<1>. QED
  BY <1>3, <1>4

LEMMA setBandsEnabledSound ==
  ASSUME NEW j \in JobRecords, NEW n \in {-1} \cup Bands \cup Named
  PROVE  setBandsEnabled(j, n) \in Seq(SoundSessions)
<1>. DEFINE h(b) == Head(Locking(EraseMaster, OrMSID(j, j.pw),
                                 <<[op |-> "enable", band |-> setband(b)]>>))
            bands == Chosen(n)
<1>1. OrMSID(j, j.pw) \in Pins
  BY PinsTyped DEF JobRecords
<1>2. ASSUME NEW b \in Bands \cup Named PROVE h(b) \in SoundSessions
  <2>1. <<[op |-> "enable", band |-> setband(b)]>> \in Seq(SoundMethods)
    BY MethodsSound, BandsAreIntegers
  <2>. QED
    BY <1>1, <2>1, AuthoritiesClaimed, LockingSound
<1>3. bands \in Seq(Bands \cup Named)
  BY ChosenTyped
<1>. HIDE DEF h, bands
<1>4. [i \in 1..Len(bands) |-> h(bands[i])] \in Seq(SoundSessions)
  BY <1>2, <1>3
<1>. USE DEF h, bands
<1>. QED
  BY <1>4, AskingSound, DefaultForSound DEF setBandsEnabled

LEMMA listLockingRangesSound ==
  ASSUME NEW j \in JobRecords, NEW n \in {-1} \cup Bands \cup Named
  PROVE  listLockingRanges(j, n) \in Seq(SoundSessions)
<1>. DEFINE h(b) == Head(Session("Locking", Master(b), OrMSID(j, j.pw), <<Read>>, "list"))
            bands == Chosen(n)
<1>1. OrMSID(j, j.pw) \in Pins /\ <<Read>> \in Seq(SoundMethods)
  BY PinsTyped, MethodsSound DEF JobRecords, Read
<1>2. ASSUME NEW b \in Bands \cup Named PROVE h(b) \in SoundSessions
  BY <1>1, AuthoritiesClaimed, SessionSound
<1>3. bands \in Seq(Bands \cup Named)
  BY ChosenTyped
<1>. HIDE DEF h, bands
<1>4. [i \in 1..Len(bands) |-> h(bands[i])] \in Seq(SoundSessions)
  BY <1>2, <1>3
<1>. USE DEF h, bands
<1>5. listLockingRanges(j, n) =
        DefaultFor({j.pw}) \o (IF n = -1 THEN getMaxRanges ELSE <<>>)
        \o IF n = -1 /\ MaxRanges >= 1024 THEN Invalid
           ELSE [i \in 1..Len(bands) |-> h(bands[i])]
  BY DEF listLockingRanges
<1>. HIDE DEF h, bands
<1>. QED
  BY <1>4, <1>5, AskingSound, DefaultForSound

LEMMA RevertsSound ==
  ASSUME NEW j \in JobRecords, NEW psid \in BOOLEAN
  PROVE  revertLockingSP(j) \in Seq(SoundSessions) /\ revertTPer(j, psid) \in Seq(SoundSessions)
<1>1. HashPwd(j, j.pw) \in Pins /\ Raw(j.pw) \in Pins
  BY PinsTyped DEF JobRecords
<1>2. <<[op |-> "revert"]>> \in Seq(SoundMethods)
  BY MethodsSound
<1>. QED
  BY <1>1, <1>2, AuthoritiesClaimed, SessionSound DEF revertLockingSP, revertTPer

LEMMA HandlerSound ==
  ASSUME NEW j \in Jobs
  PROVE  Handler(j) \in Seq(SoundSessions)
<1>1. /\ j \in JobRecords /\ j.pw \in Passwords /\ j.new \in Passwords
      /\ j.band \in Bands \cup Named /\ j.guard \in SUBSET Modes
  BY JobTyped DEF JobRecords
<1>2. j.cmd \in CommandNames
  BY JobTyped DEF JobRecords
<1>3. initialSetup(j) \in Seq(SoundSessions) /\ takeOwnership(j) \in Seq(SoundSessions)
  BY <1>1, initialSetupSound, takeOwnershipSound
<1>4. setSIDPassword(j, HashPwd(j, j.pw), j.new) \in Seq(SoundSessions)
  BY <1>1, PinsTyped, setSIDPasswordSound
<1>5. /\ configureLockingRange(j, j.band, j.guard) \in Seq(SoundSessions)
      /\ setLockingRange(j, j.band, j.lock) \in Seq(SoundSessions)
      /\ setupLockingRange(j) \in Seq(SoundSessions)
      /\ rekeyLockingRange(j) \in Seq(SoundSessions)
      /\ setPassword(j) \in Seq(SoundSessions)
      /\ eraseLockingRange(j) \in Seq(SoundSessions)
  BY <1>1, configureLockingRangeSound, setLockingRangeSound, setupLockingRangeSound,
     rekeyLockingRangeSound, setPasswordSound, eraseLockingRangeSound
<1>6. /\ \A n \in {-1, j.band} : setBandsEnabled(j, n) \in Seq(SoundSessions)
      /\ \A n \in {-1, j.band} : listLockingRanges(j, n) \in Seq(SoundSessions)
  BY <1>1, setBandsEnabledSound, listLockingRangesSound
<1>7. /\ revertLockingSP(j) \in Seq(SoundSessions)
      /\ \A psid \in BOOLEAN : revertTPer(j, psid) \in Seq(SoundSessions)
  BY <1>1, RevertsSound
<1>8. Invalid \in Seq(SoundSessions) /\ <<>> \in Seq(SoundSessions)
  BY AskingSound
<1>. QED
  BY <1>2, <1>3, <1>4, <1>5, <1>6, <1>7, <1>8
  DEF Handler, CommandNames, Ignored, Rejected

-----------------------------------------------------------------------------
(* The steps                                                               *)

LEMMA EndsSound ==
  ASSUME NEW result \in {"idle", "running", "ok", "err", "killed"},
         drive' \in Drives, Ends(result)
  PROVE  Process'
BY DEF Ends, Process

LEMMA SessionsGoOn ==
  ASSUME Process, todo # <<>>
  PROVE  /\ Here \in SoundSessions /\ Here \in Sessions
         /\ Tail(todo) \in Seq(SoundSessions)
BY DEF Process, Here, SoundSessions

LEMMA StartErrorSound ==
  ASSUME Process, todo # <<>>, drive' \in Drives, StartError
  PROVE  Process'
<1>1. CASE Here.err \in {"skip", "list"}
  BY <1>1, SessionsGoOn DEF StartError, GoesOn, Process
<1>2. CASE Here.err \notin {"skip", "list"}
  BY <1>2, EndsSound DEF StartError
<1>. QED
  BY <1>1, <1>2

LEMMA CallErrorSound ==
  ASSUME Process, todo # <<>>, drive' \in Drives, CallError
  PROVE  Process'
<1>1. CASE Here.err = "return"
  BY <1>1, EndsSound DEF CallError
<1>2. CASE Here.err # "return"
  <2>1. ((IF Here.err = "opal" THEN getMaxRangesOpal ELSE <<>>) \o Tail(todo))
          \in Seq(SoundSessions)
    BY SessionsGoOn, AskingSound
  <2>. QED
    BY <1>2, <2>1 DEF CallError, GoesOn, Process
<1>. QED
  BY <1>1, <1>2

LEMMA HeadMethodSound ==
  ASSUME Process, todo # <<>>, Here.methods # <<>>
  PROVE  Head(Here.methods) \in SoundMethods /\ Tail(Here.methods) \in Seq(SoundMethods)
BY SessionsGoOn DEF SoundSessions

(* Calling a method leaves the rest of its session to be done.             *)
LEMMA CalledSound ==
  ASSUME Process, todo # <<>>, Here.methods # <<>>
  PROVE  /\ <<[Here EXCEPT !.methods = Tail(@)]>> \o Tail(todo) \in Seq(SoundSessions)
         /\ <<[Here EXCEPT !.methods = Tail(@)]>> \o Tail(todo) # <<>>
<1>1. Tail(Here.methods) \in Seq(SoundMethods) /\ Tail(Here.methods) \in Seq(Methods)
  BY HeadMethodSound DEF SoundMethods
<1>2. [Here EXCEPT !.methods = Tail(@)] \in SoundSessions
  BY <1>1, SessionsGoOn DEF SoundSessions, Sessions
<1>. QED
  BY <1>2, SessionsGoOn

LEMMA InitSound == Init => IInv
<1>. SUFFICES ASSUME Init PROVE IInv
  OBVIOUS
<1>1. PICK i \in {"enterprise", "opal", "none"} : drive = Factory(i)
  BY DEF Init
<1>2. drive \in Drives /\ Kept(drive)
  BY <1>1, FactoryTyped
<1>. QED
  <2>1. <<>> \in Seq(SoundSessions)
    OBVIOUS
  <2>2. Process
    BY <1>2, <2>1 DEF Init, Process
  <2>. QED
    BY <1>2, <2>2 DEF Init, IInv, Machine, Reverting, Runs

LEMMA StepTyped == Machine /\ Process /\ [Next]_vars => Machine' /\ Process'
<1>. SUFFICES ASSUME Machine, Process, [Next]_vars PROVE Machine' /\ Process'
  OBVIOUS
<1>1. CASE Launch
  BY <1>1, HandlerSound DEF Launch, Machine, Process
<1>2. CASE Return
  BY <1>2, EndsSound DEF Return, Machine
<1>3. CASE Start
  BY <1>3 DEF Start, Machine, Process
<1>4. CASE Refused
  BY <1>4, StartErrorSound DEF Refused, Machine
<1>5. CASE Busy
  BY <1>5, StartErrorSound DEF Busy, Machine
<1>6. CASE StartFails
  <2>1. taken' \in BOOLEAN
    BY <1>6 DEF StartFails, Machine
  <2>. QED
    BY <1>6, <2>1, StartErrorSound DEF StartFails, Machine
<1>7. CASE Call
  <2>. DEFINE m == Head(Here.methods)
  <2>1. todo # <<>>
    BY <1>7 DEF Call, Process
  <2>2. m \in SoundMethods /\ Permits(drive, Here.auth, m) /\ drive' = Performed(drive, m)
    BY <1>7, <2>1, HeadMethodSound DEF Call
  <2>3. drive' \in Drives /\ Kept(drive')
    BY <2>2, MethodPreserves DEF Machine
  <2>4. CASE m.op = "revert"
    BY <1>7, <2>3, <2>4, EndsSound DEF Call, Machine
  <2>5. CASE m.op # "revert"
    <3>1. /\ todo' = <<[Here EXCEPT !.methods = Tail(@)]>> \o Tail(todo)
          /\ seen' = (IF Here.err = "list" THEN "one" ELSE seen)
          /\ UNCHANGED <<state, job, was, taken, fault>>
      BY <1>7, <2>5 DEF Call
    <3>2. todo' \in Seq(SoundSessions) /\ todo' # <<>>
      BY <1>7, <2>1, <3>1, CalledSound DEF Call
    <3>. QED
      BY <2>3, <3>1, <3>2 DEF Machine, Process
  <2>. QED
    BY <2>4, <2>5
<1>8. CASE CallRefused
  BY <1>8, CallErrorSound DEF CallRefused, Machine, Process
<1>9. CASE CallFails
  <2>. DEFINE m == Head(Here.methods)
  <2>1. todo # <<>> /\ m \in SoundMethods
    BY <1>9, HeadMethodSound DEF CallFails, Process
  <2>2. drive' = drive \/ (Permits(drive, Here.auth, m) /\ drive' = Performed(drive, m))
    BY <1>9 DEF CallFails
  <2>3. drive' \in Drives /\ Kept(drive')
    BY <2>1, <2>2, MethodPreserves DEF Machine
  <2>. QED
    BY <1>9, <2>1, <2>3, CallErrorSound DEF CallFails, Machine
<1>10. CASE Close
  BY <1>10, SessionsGoOn DEF Close, GoesOn, Machine, Process
<1>11. CASE CloseFails
  BY <1>11, SessionsGoOn DEF CloseFails, GoesOn, Machine, Process
<1>12. CASE Interrupt
  BY <1>12, EndsSound DEF Interrupt, Machine
<1>13. CASE SessionTimeout
  BY <1>13 DEF SessionTimeout, Machine, Process
<1>14. CASE PowerCycle
  <2>1. drive' \in Drives /\ Kept(drive')
    BY <1>14, PoweredUpTyped DEF PowerCycle, Machine
  <2>2. (IF Runs THEN "killed" ELSE state) \in {"idle", "running", "ok", "err", "killed"}
    BY DEF Process, Runs
  <2>. QED
    BY <1>14, <2>1, <2>2, EndsSound DEF PowerCycle, Machine
<1>15. CASE UNCHANGED vars
  BY <1>15 DEF vars, Machine, Process
<1>. QED
  BY <1>1, <1>2, <1>3, <1>4, <1>5, <1>6, <1>7, <1>8, <1>9, <1>10, <1>11, <1>12, <1>13, <1>14,
     <1>15 DEF Next

LEMMA RevertTPerOpens ==
  ASSUME NEW j
  PROVE  /\ revertTPer(j, TRUE) # <<>>
         /\ Head(revertTPer(j, TRUE)) =
              [sp |-> "Admin", auth |-> PSIDOwner, pin |-> Raw(j.pw),
               methods |-> <<[op |-> "revert"]>>, err |-> "return"]
BY DEF revertTPer, Session

LEMMA LaunchReverts ==
  ASSUME NEW j, j.cmd = "PSIDrevert"
  PROVE  Handler(j) = revertTPer(j, TRUE)
BY DEF Handler, Ignored, Rejected

LEMMA StepReverts == IInv /\ [Next]_vars => Reverting'
<1>. SUFFICES ASSUME IInv, [Next]_vars, Runs', job'.cmd = "PSIDrevert"
              PROVE  todo' = revertTPer(job', TRUE)
  BY DEF Reverting
<1>0. ASSUME NEW result, Ends(result) PROVE FALSE
  BY <1>0 DEF Ends, NoJob
<1>1. CASE Launch
  BY <1>1, LaunchReverts DEF Launch
<1>2. CASE UNCHANGED vars \/ Start \/ SessionTimeout
  BY <1>2 DEF vars, Start, SessionTimeout, IInv, Reverting, Runs
<1>3. ASSUME Runs, job' = job
      PROVE  Here.err = "return" /\ Here.methods # <<>> /\ Head(Here.methods).op = "revert"
  <2>1. todo = revertTPer(job, TRUE)
    BY <1>3 DEF IInv, Reverting
  <2>2. Here = [sp |-> "Admin", auth |-> PSIDOwner, pin |-> Raw(job.pw),
                methods |-> <<[op |-> "revert"]>>, err |-> "return"]
    BY <2>1, RevertTPerOpens DEF Here
  <2>. QED
    BY <2>2
<1>4. CASE Refused \/ Busy \/ StartFails
  BY <1>0, <1>3, <1>4 DEF Refused, Busy, StartFails, StartError, GoesOn, Runs
<1>5. CASE CallRefused \/ CallFails
  BY <1>0, <1>3, <1>5 DEF CallRefused, CallFails, CallError, GoesOn, Runs
<1>6. CASE Close \/ CloseFails
  BY <1>3, <1>6 DEF Close, CloseFails, GoesOn, Runs
<1>7. CASE Call
  <2>1. CASE Head(Here.methods).op = "revert"
    BY <1>0, <1>7, <2>1 DEF Call
  <2>2. CASE Head(Here.methods).op # "revert"
    <3>1. Runs /\ job' = job
      BY <1>7, <2>2 DEF Call, Runs
    <3>2. Head(Here.methods).op = "revert"
      BY <1>3, <3>1
    <3>. QED
      BY <2>2, <3>2
  <2>. QED
    BY <2>1, <2>2
<1>8. CASE Return \/ Interrupt \/ PowerCycle
  BY <1>0, <1>8 DEF Return, Interrupt, PowerCycle
<1>. QED
  BY <1>1, <1>2, <1>4, <1>5, <1>6, <1>7, <1>8 DEF Next

LEMMA StepSound == IInv /\ [Next]_vars => IInv'
BY StepTyped, StepReverts DEF IInv

LEMMA InvariantHolds == Spec => []IInv
BY InitSound, StepSound, PTL DEF Spec

(* Every command, error and power cut leaves a drive and a program state   *)
(* of the types that TypeOK names.                                         *)
THEOREM EnterpriseTypeCorrect == Spec => []TypeOK
<1>1. IInv => TypeOK
  BY DEF IInv, Machine, Process, TypeOK, SoundSessions
<1>. QED
  BY <1>1, InvariantHolds, PTL

(* LockOnReset goes with Read- and WriteLockEnabled in every Set that      *)
(* configureLockingRange and setupLockingRange send, however the sessions  *)
(* of the commands are cut short: a guarded band is shut after a power     *)
(* cycle.                                                                  *)
THEOREM GuardedBandsLock == Spec => []GuardedBandLocks
<1>1. IInv => GuardedBandLocks
  BY DEF IInv, Machine, Kept, LocksOnReset, GuardedBandLocks
<1>. QED
  BY <1>1, InvariantHolds, PTL

(* Whatever commands, errors, ^C and power cuts came before: the drive     *)
(* does not refuse PSIDrevert with the text on its label.  If it fails,    *)
(* an exchange of its own has failed.                                      *)
THEOREM LabelReverts == Spec => PSIDRecovers
<1>1. IInv /\ [Next]_vars =>
        [Returns("err") /\ ~fault' /\ job.cmd = "PSIDrevert" => job.pw # PSID]_vars
  <2>. SUFFICES ASSUME IInv, Next, Runs, state' = "err", ~fault', job.cmd = "PSIDrevert"
                PROVE  job.pw # PSID
    BY DEF Returns
  <2>1. /\ todo = revertTPer(job, TRUE) /\ todo # <<>> /\ Here.sp = "Admin" /\ Here.auth = PSIDOwner
        /\ Here.pin = Raw(job.pw) /\ Here.methods = <<[op |-> "revert"]>>
    <3>1. todo = revertTPer(job, TRUE)
      BY DEF IInv, Reverting
    <3>2. Here = [sp |-> "Admin", auth |-> PSIDOwner, pin |-> Raw(job.pw),
                  methods |-> <<[op |-> "revert"]>>, err |-> "return"]
      BY <3>1, RevertTPerOpens DEF Here
    <3>. QED
      BY <3>1, <3>2, RevertTPerOpens
  <2>2. CASE Refused
    <3>1. ~Admits(drive, Here)
      BY <2>1, <2>2 DEF Refused
    <3>2. drive.pin[PSIDOwner] # Here.pin
      BY <2>1, <3>1 DEF Admits, Authorities, PSIDOwner
    <3>. QED
      BY <2>1, <3>2 DEF IInv, Machine, Kept
  <2>3. CASE CallRefused
    BY <2>1, <2>3 DEF CallRefused, Permits
  <2>4. CASE Busy \/ StartFails \/ CallFails \/ CloseFails \/ Interrupt
    BY <2>4 DEF Busy, StartFails, CallFails, CloseFails, Interrupt
  <2>5. CASE Launch \/ Return \/ Start \/ SessionTimeout
    BY <2>1, <2>5 DEF Launch, Return, Start, SessionTimeout, Runs
  <2>6. CASE Call
    BY <2>1, <2>6 DEF Call, Ends
  <2>7. CASE Close \/ PowerCycle
    BY <2>1, <2>7 DEF Close, PowerCycle, Ends
  <2>. QED
    BY <2>2, <2>3, <2>4, <2>5, <2>6, <2>7 DEF Next
<1>. QED
  BY <1>1, InvariantHolds, PTL DEF Spec, PSIDRecovers
=============================================================================
