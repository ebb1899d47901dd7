--------------------------- MODULE UnlockSEDsProof ----------------------------
(***************************************************************************)
(* Proofs about UnlockSEDs, for any number of devices, any pass-phrases    *)
(* and any drives the commands may have left.                              *)
(***************************************************************************)
EXTENDS UnlockSEDs, OpalHandlersProof

Slots == 1..Devices

(* The sessions of the two handlers that open a drive.                     *)
PassPin == [pw |-> typed, hashed |-> typed # Empty]
Lowers  == [sp |-> "Locking", auth |-> Admin1, pin |-> PassPin,
            methods |-> <<SetMBR("Done", TRUE)>>]
Opening == [sp |-> "Locking", auth |-> Admin1, pin |-> PassPin,
            methods |-> <<SetRange(0, {}, {}, {}, Modes, {})>>]

UnlockTypeOK ==
  /\ kind \in [Slots -> {"opal", "other", "absent"}]
  /\ DOMAIN drive = Slots /\ \A i \in Slots : Sane(drive[i])
  /\ phase \in {"off", "scan", "unlock", "os", "gone"}
  /\ typed \in Passwords
  /\ at \in 1..(Devices + 1)
  /\ failed \in BOOLEAN
  /\ report \in [Slots -> {"none", "not OPAL", "NOT LOCKED", "Failed", "Unlocked"}]
  /\ fault \subseteq Slots /\ taken \subseteq fault

(* Why a handler may have failed, and what it has not done then.           *)
Shut(d) == ~Opens(typed, d) \/ 0 \in d.sum

(* The drive of this turn: what the handlers called for it have done.      *)
Turn ==
  phase = "unlock" =>
    LET d == drive[at] IN
    /\ at \in Slots /\ kind[at] = "opal" /\ d.active
    /\ todo \in {<<Lowers, Opening>>, <<Opening>>, <<>>}
    /\ todo = <<Lowers, Opening>> => ~failed
    /\ ~failed /\ todo # <<Lowers, Opening>> => ~Shadowed(d)
    /\ ~failed /\ todo = <<>> => d.locked[0] = {}
    /\ failed /\ at \notin fault => Shut(d)

(* The devices before it: every one has its line, and the line is true.    *)
Past ==
  \A i \in Slots :
    /\ i >= at => report[i] = "none"
    /\ i < at =>
       /\ report[i] = "Unlocked" => drive[i].locked[0] = {} /\ ~Shadowed(drive[i])
       /\ report[i] = "Failed" /\ i \notin fault => Shut(drive[i])
       /\ report[i] = "NOT LOCKED" => ~Locked(drive[i])
       /\ kind[i] = "opal" /\ i \notin fault =>
            report[i] \in {"Unlocked", "Failed", "NOT LOCKED"}

(* The loop has not begun, or has ended.                                   *)
Over == (phase = "off" => at = 1) /\ (phase = "os" => LoopEnds)

UInv == UnlockTypeOK /\ Turn /\ Past /\ Over
-----------------------------------------------------------------------------
(* The handlers                                                            *)

LEMMA PairIs == \A x, y : <<x>> \o <<y>> = <<x, y>> /\ <<>> \o <<y>> = <<y>>
<1>. SUFFICES ASSUME NEW x, NEW y PROVE <<x>> \o <<y>> = <<x, y>> /\ <<>> \o <<y>> = <<y>>
  OBVIOUS
<1>. DEFINE S == {x, y}
<1>1. <<x>> \in Seq(S) /\ <<y>> \in Seq(S) /\ <<x, y>> \in Seq(S)
  OBVIOUS
<1>2. <<x>> \o <<y>> \in Seq(S) /\ Len(<<x>> \o <<y>>) = 2 /\ Len(<<x, y>>) = 2
  OBVIOUS
<1>3. (<<x>> \o <<y>>)[1] = x /\ (<<x>> \o <<y>>)[2] = y
  OBVIOUS
<1>4. <<x, y>>[1] = x /\ <<x, y>>[2] = y /\ \A i \in 1..2 : i = 1 \/ i = 2
  OBVIOUS
<1>. HIDE DEF S
<1>5. \A i \in 1..2 : (<<x>> \o <<y>>)[i] = <<x, y>>[i]
  BY <1>3, <1>4, Zenon
<1>6. \A i \in 1..Len(<<x>> \o <<y>>) : (<<x>> \o <<y>>)[i] = <<x, y>>[i]
  BY <1>2, <1>5, Zenon
<1>7. Len(<<x>> \o <<y>>) = Len(<<x, y>>)
  BY <1>2, Zenon
<1>8. <<x>> \o <<y>> = <<x, y>>
  BY <1>1, <1>2, <1>6, <1>7, SeqEqual, Zenon
<1>9. <<>> \o <<y>> = <<y>>
  BY <1>1, ConcatEmptySeq
<1>. QED
  BY <1>8, <1>9

LEMMA UnlockingIs ==
  ASSUME NEW d
  PROVE  Unlocking(d) = IF d.mbrEnable THEN <<Lowers, Opening>> ELSE <<Opening>>
<1>. DEFINE j == [NoJob EXCEPT !.pw = typed]
<1>1. HashPwd(j, j.pw) = PassPin
  BY DEF HashPwd, NoJob, PassPin
<1>2. Modes = LockOf("RW") /\ {} = Lock("RW") \cap LockOf("RW")
  BY DEF LockOf, Lock
<1>3. setMBRDone(j, TRUE) = <<Lowers>>
  BY <1>1 DEF setMBRDone, ByAdmin1, Session, Lowers
<1>4. setLockingRange(j, 0, "RW") = <<Opening>>
  BY <1>1, <1>2 DEF setLockingRange, ByAdmin1, Session, Opening
<1>. HIDE DEF j
<1>5. Unlocking(d) = (IF d.mbrEnable THEN <<Lowers>> ELSE <<>>) \o <<Opening>>
  BY <1>3, <1>4 DEF Unlocking, j
<1>6. <<Lowers>> \o <<Opening>> = <<Lowers, Opening>> /\ <<>> \o <<Opening>> = <<Opening>>
  BY PairIs, Zenon
<1>. HIDE DEF Lowers, Opening
<1>. QED
  BY <1>5, <1>6

LEMMA SessionsIs ==
  /\ \A s \in {Lowers, Opening} : s.sp = "Locking" /\ s.auth = Admin1 /\ s.pin = PassPin
  /\ Head(Lowers.methods) = SetMBR("Done", TRUE)
  /\ Head(Opening.methods) = SetRange(0, {}, {}, {}, Modes, {})
  /\ SetMBR("Done", TRUE) \in Methods /\ SetRange(0, {}, {}, {}, Modes, {}) \in Methods
<1>1. /\ Lowers.sp = "Locking" /\ Lowers.auth = Admin1 /\ Lowers.pin = PassPin
      /\ Opening.sp = "Locking" /\ Opening.auth = Admin1 /\ Opening.pin = PassPin
      /\ Lowers.methods = <<SetMBR("Done", TRUE)>>
      /\ Opening.methods = <<SetRange(0, {}, {}, {}, Modes, {})>>
  BY DEF Lowers, Opening
<1>2. \A m : Head(<<m>>) = m
  OBVIOUS
<1>3. SetMBR("Done", TRUE) \in Methods
  BY DEF SetMBR, Methods
<1>4. SetRange(0, {}, {}, {}, Modes, {}) \in Methods
  <2>1. 0 \in Ranges /\ {} \in SUBSET Places /\ {} \in SUBSET Modes /\ Modes \in SUBSET Modes
    BY RangesAreNumbers
  <2>. QED
    BY <2>1 DEF SetRange, Methods
<1>. QED
  BY <1>1, <1>2, <1>3, <1>4, Zenon

LEMMA LowersDoes ==
  ASSUME NEW d, Sane(d), d.active
  PROVE  LET e == Performed(d, Head(Lowers.methods)) IN
         Sane(e) /\ e.active = d.active /\ ~Shadowed(e)
<1>. DEFINE m == SetMBR("Done", TRUE)
<1>1. m \in Methods /\ m.op = "setMBR" /\ m.name = "Done" /\ m.value = TRUE
  BY SessionsIs DEF SetMBR
<1>2. Head(Lowers.methods) = m
  BY SessionsIs
<1>. HIDE DEF m
<1>3. /\ Sane(Performed(d, m)) /\ SamePins(d, Performed(d, m))
      /\ Performed(d, m).mbrDone = TRUE
  BY <1>1, SetMBRDoes
<1>. QED
  BY <1>2, <1>3 DEF SamePins, Shadowed

LEMMA OpeningDoes ==
  ASSUME NEW d, Sane(d), d.active
  PROVE  LET e == Performed(d, Head(Opening.methods)) IN
         /\ Sane(e) /\ e.active /\ e.locked[0] = {}
         /\ ~Shadowed(d) => ~Shadowed(e)
         /\ Shut(d) => Shut(e)
<1>. DEFINE m == SetRange(0, {}, {}, {}, Modes, {})
            e == Performed(d, m)
<1>1. /\ m \in Methods /\ m.op = "setRange" /\ m.range = 0 /\ m.lockOf = Modes /\ m.lock = {}
      /\ Head(Opening.methods) = m
  <2>1. m \in Methods /\ Head(Opening.methods) = m
    BY SessionsIs
  <2>2. m.op = "setRange" /\ m.range = 0 /\ m.lockOf = Modes /\ m.lock = {}
    BY DEF SetRange
  <2>. QED
    BY <2>1, <2>2
<1>. HIDE DEF m
<1>2. /\ Sane(e) /\ SamePins(d, e) /\ SameShadow(d, e) /\ e.pin = d.pin /\ e.sum = d.sum
      /\ e.locked = [d.locked EXCEPT ![0] = (d.locked[0] \ Modes) \cup {}]
  <2>1. m \in Methods /\ m.op = "setRange"
    BY <1>1
  <2>2. /\ Sane(e) /\ SamePins(d, e) /\ SameShadow(d, e) /\ e.pin = d.pin /\ e.sum = d.sum
        /\ e.locked = [d.locked EXCEPT ![m.range] = (d.locked[m.range] \ m.lockOf) \cup m.lock]
    <3>1. LET f == Performed(d, m) IN
          /\ Sane(f) /\ SamePins(d, f) /\ SameShadow(d, f)
          /\ f.pin = d.pin /\ f.sum = d.sum
          /\ f.guard = [d.guard EXCEPT ![m.range] = (d.guard[m.range] \ m.guardOf) \cup m.guard]
          /\ f.locked = [d.locked EXCEPT ![m.range] = (d.locked[m.range] \ m.lockOf) \cup m.lock]
      BY <2>1, SetRangeDoes
    <3>. QED
      BY <3>1
  <2>. HIDE DEF e
  <2>. QED
    BY <1>1, <2>2
<1>3. d.locked \in [Ranges -> SUBSET Modes] /\ 0 \in Ranges
  BY RangesAreNumbers DEF Sane, Drives
<1>4. (d.locked[0] \ Modes) \cup {} = {}
  BY <1>3
<1>. HIDE DEF e
<1>5. e.locked[0] = {}
  BY <1>2, <1>3, <1>4
<1>. QED
  BY <1>1, <1>2, <1>5 DEF SamePins, SameShadow, Shadowed, Shut, Opens, e

(* A drive that refuses either has another password, or is single user's.  *)
LEMMA RefusalIsShut ==
  ASSUME NEW d, Sane(d), d.active, NEW s \in {Lowers, Opening},
         ~(Admits(d, s) /\ Permits(d, s.auth, Head(s.methods)))
  PROVE  Shut(d)
<1>. SUFFICES ASSUME ~Shut(d) PROVE FALSE
  OBVIOUS
<1>1. d.pin[Admin1] = PassPin /\ 0 \notin d.sum
  BY DEF Shut, Opens, PassPin
<1>2. s.sp = "Locking" /\ s.auth = Admin1 /\ s.pin = PassPin
  BY SessionsIs
<1>3. Admits(d, s)
  BY <1>1, <1>2, AuthoritiesDiffer DEF Admits
<1>4. Permits(d, Admin1, SetMBR("Done", TRUE))
  BY DEF Permits, SetMBR
<1>5. Permits(d, Admin1, SetRange(0, {}, {}, {}, Modes, {}))
  BY <1>1 DEF Permits, SetRange
<1>. QED
  BY <1>2, <1>3, <1>4, <1>5, SessionsIs

-----------------------------------------------------------------------------
(* The steps                                                               *)

LEMMA NumbersOfSlots ==
  Devices \in Nat /\ 1 \in 1..(Devices + 1) /\ \A i \in Slots : i \in Nat /\ 1 <= i /\ i <= Devices
BY DeviceAssumption DEF Slots

LEMMA InitUInv == Init => UInv
<1>. SUFFICES ASSUME Init PROVE UInv
  OBVIOUS
<1>1. \A d \in Provisioned : Sane(PoweredUp(d))
  BY ProvisionedAssumption, PoweredUpSane
<1>2. UnlockTypeOK
  <2>1. DOMAIN drive = Slots /\ \A i \in Slots : Sane(drive[i])
    BY <1>1 DEF Init, Slots
  <2>2. /\ kind \in [Slots -> {"opal", "other", "absent"}]
        /\ report \in [Slots -> {"none", "not OPAL", "NOT LOCKED", "Failed", "Unlocked"}]
    BY DEF Init, Slots
  <2>. QED
    BY <2>1, <2>2, NumbersOfSlots, PasswordAssumption DEF Init, UnlockTypeOK
<1>3. Past
  BY <1>2 DEF Init, Past, UnlockTypeOK, Slots
<1>. QED
  BY <1>2, <1>3 DEF Init, UInv, Turn, Over

LEMMA TriesSlot == UnlockTypeOK /\ Tries => at \in Slots
<1>. SUFFICES ASSUME UnlockTypeOK, Tries PROVE at \in Slots
  OBVIOUS
<1>1. at \in 1..(Devices + 1) /\ at <= Devices
  BY DEF UnlockTypeOK, Tries, LoopEnds
<1>. QED
  BY <1>1, DeviceAssumption DEF Slots

LEMMA NextTurn ==
  \A i, k \in Nat : /\ i >= k + 1 => i >= k
                    /\ i < k + 1 /\ i # k => i < k
                    /\ k < k + 1 /\ ~(k >= k + 1)
OBVIOUS

LEMMA TurnBounded == at \in Slots => at + 1 \in 1..(Devices + 1)
BY DeviceAssumption DEF Slots

LEMMA TurnNumber == UnlockTypeOK => at \in Nat /\ at >= 1
<1>. SUFFICES ASSUME UnlockTypeOK PROVE at \in Nat /\ at >= 1
  OBVIOUS
<1>1. at \in 1..(Devices + 1)
  BY DEF UnlockTypeOK
<1>. QED
  BY <1>1, DeviceAssumption

(* What has a line has had its turn.                                       *)
LEMMA Reported == UInv => \A i \in Slots : report[i] # "none" => i < at
<1>. SUFFICES ASSUME UInv, NEW i \in Slots, ~(i < at) PROVE report[i] = "none"
  OBVIOUS
<1>1. i >= at
  BY TurnNumber, NumbersOfSlots DEF UInv
<1>. QED
  BY <1>1 DEF UInv, Past

(* A line is printed.                                                      *)
LEMMA PrintsUInv ==
  ASSUME UInv, at \in Slots, NEW line \in {"not OPAL", "NOT LOCKED", "Failed", "Unlocked"},
         Prints(line), fault' \in {fault, fault \cup {at}},
         line = "Unlocked" => drive[at].locked[0] = {} /\ ~Shadowed(drive[at]),
         line = "Failed" /\ at \notin fault' => Shut(drive[at]),
         line = "NOT LOCKED" => ~Locked(drive[at]),
         kind[at] = "opal" /\ at \notin fault' => line \in {"Unlocked", "Failed", "NOT LOCKED"}
  PROVE  UInv'
<1>1. /\ report' = [report EXCEPT ![at] = line] /\ at' = at + 1 /\ phase' = "scan"
      /\ UNCHANGED <<kind, drive, taken, typed, todo, failed>>
  BY DEF Prints
<1>2. UnlockTypeOK'
  BY <1>1, TurnBounded DEF UInv, UnlockTypeOK
<1>3. Past'
  <2>. SUFFICES ASSUME NEW i \in Slots
                PROVE  /\ i >= at + 1 => report'[i] = "none"
                       /\ i < at + 1 =>
                          /\ report'[i] = "Unlocked" =>
                               drive[i].locked[0] = {} /\ ~Shadowed(drive[i])
                          /\ report'[i] = "Failed" /\ i \notin fault' => Shut(drive[i])
                          /\ report'[i] = "NOT LOCKED" => ~Locked(drive[i])
                          /\ kind[i] = "opal" /\ i \notin fault' =>
                               report'[i] \in {"Unlocked", "Failed", "NOT LOCKED"}
    BY <1>1 DEF Past, Shut
  <2>1. i \in Nat /\ at \in Nat /\ DOMAIN report = Slots
    BY NumbersOfSlots DEF UInv, UnlockTypeOK
  <2>2. CASE i = at
    <3>1. report'[i] = line
      BY <1>1, <2>1, <2>2
    <3>2. i < at + 1 /\ ~(i >= at + 1)
      BY <2>1, <2>2, NextTurn, Zenon
    <3>. QED
      BY <2>2, <3>1, <3>2
  <2>3. CASE i # at
    <3>1. (i >= at + 1 => i >= at) /\ (i < at + 1 => i < at)
      BY <2>1, <2>3, NextTurn, Zenon
    <3>2. report'[i] = report[i]
      BY <1>1, <2>1, <2>3
    <3>. QED
      BY <3>1, <3>2 DEF UInv, Past
  <2>. QED
    BY <2>2, <2>3
<1>4. Turn' /\ Over'
  BY <1>1 DEF Turn, Over
<1>. QED
  BY <1>2, <1>3, <1>4 DEF UInv

LEMMA ScanUInv ==
  ASSUME UInv, NotOpal \/ DiscoveryFails \/ NotLocked
  PROVE  UInv'
<1>1. /\ at \in Slots
      /\ \/ kind[at] = "other" /\ Prints("not OPAL") /\ fault' = fault
         \/ Prints("not OPAL") /\ fault' = fault \cup {at}
         \/ ~Locked(drive[at]) /\ Prints("NOT LOCKED") /\ fault' = fault
  BY TriesSlot DEF NotOpal, DiscoveryFails, NotLocked, UInv
<1>. QED
  BY <1>1, PrintsUInv

(* The two that change nothing but the phase.                              *)
LEMMA PhaseUInv ==
  ASSUME UInv, Boot \/ StartOS \/ Aborts
  PROVE  UInv'
<1>1. CASE Boot
  <2>1. UnlockTypeOK'
    BY <1>1, TypedAssumption DEF Boot, UInv, UnlockTypeOK
  <2>2. Past'
    <3>1. \A i \in Slots : ~(i < at)
      BY <1>1, NumbersOfSlots DEF Boot, UInv, Over, Slots
    <3>. QED
      BY <1>1, <3>1 DEF Boot, UInv, Past
  <2>. QED
    BY <1>1, <2>1, <2>2 DEF Boot, UInv, Turn, Over
<1>2. CASE StartOS
  BY <1>2 DEF StartOS, loopVars, UInv, UnlockTypeOK, Turn, Past, Over, Shut, LoopEnds
<1>3. CASE Aborts
  <2>1. at \in Slots
    BY <1>3, TriesSlot DEF Aborts, UInv
  <2>2. UnlockTypeOK'
    BY <1>3, <2>1 DEF Aborts, loopVars, UInv, UnlockTypeOK
  <2>. QED
    BY <1>3, <2>2 DEF Aborts, loopVars, UInv, Turn, Past, Over, Shut
<1>. QED
  BY <1>1, <1>2, <1>3

LEMMA UnlockUInv ==
  ASSUME UInv, Unlock
  PROVE  UInv'
<1>1. /\ at \in Slots /\ kind[at] = "opal" /\ Locked(drive[at]) /\ phase' = "unlock"
      /\ todo' = Unlocking(drive[at]) /\ failed' = FALSE
      /\ UNCHANGED <<kind, drive, taken, typed, at, report, fault>>
  BY TriesSlot DEF Unlock, UInv, Fresh
<1>2. Sane(drive[at])
  BY <1>1 DEF UInv, UnlockTypeOK
<1>3. drive[at].active
  BY <1>1, <1>2, SaneIsBlank DEF Locked, Blank
<1>4. /\ todo' = <<Lowers, Opening>> \/ todo' = <<Opening>>
      /\ todo' # <<Lowers, Opening>> => ~drive[at].mbrEnable
  BY <1>1, UnlockingIs
<1>5. Turn'
  <2>1. Lowers' = Lowers /\ Opening' = Opening
    BY <1>1 DEF Lowers, Opening, PassPin
  <2>2. <<Opening>> # <<>> /\ <<Lowers, Opening>> # <<>>
    OBVIOUS
  <2>. QED
    BY <1>1, <1>3, <1>4, <2>1, <2>2 DEF Turn, Shadowed
<1>6. UnlockTypeOK' /\ Past' /\ Over'
  BY <1>1 DEF UInv, UnlockTypeOK, Past, Over, Shut
<1>. QED
  BY <1>5, <1>6 DEF UInv

(* A handler returns: whether or not the drive has acted.                  *)
LEMMA ReturnsUInv ==
  ASSUME UInv, Succeeds \/ Refused \/ CallFails \/ CloseFails
  PROVE  UInv'
<1>. DEFINE d == drive[at]
            s == Head(todo)
            e == Performed(d, Head(s.methods))
<1>0. /\ phase = "unlock" /\ phase' = "unlock" /\ todo # <<>> /\ todo' = Tail(todo)
      /\ UNCHANGED <<kind, typed, at, report>>
      /\ fault' \in {fault, fault \cup {at}}
  BY DEF Succeeds, Refused, CallFails, CloseFails, Returns
<1>1. /\ at \in Slots /\ kind[at] = "opal" /\ d.active /\ Sane(d)
      /\ todo \in {<<Lowers, Opening>>, <<Opening>>}
      /\ todo = <<Lowers, Opening>> => ~failed
      /\ ~failed /\ todo # <<Lowers, Opening>> => ~Shadowed(d)
      /\ failed /\ at \notin fault => Shut(d)
      /\ DOMAIN drive = Slots /\ failed \in BOOLEAN
      /\ fault \subseteq Slots /\ taken \subseteq fault
  BY <1>0 DEF UInv, Turn, UnlockTypeOK
(* What is left to be called.                                              *)
<1>2. /\ todo = <<Lowers, Opening>> => s = Lowers /\ todo' = <<Opening>>
      /\ todo # <<Lowers, Opening>> => s = Opening /\ todo' = <<>>
  <2>1. \A x, y : /\ Head(<<x, y>>) = x /\ Tail(<<x, y>>) = <<y>>
                  /\ Head(<<x>>) = x /\ Tail(<<x>>) = <<>>
    OBVIOUS
  <2>. HIDE DEF Lowers, Opening
  <2>. QED
    BY <1>0, <1>1, <2>1, Zenon
<1>3. /\ todo' # <<Lowers, Opening>> /\ <<Opening>> # <<>>
      /\ todo' = <<>> => s = Opening
      /\ todo' # <<>> => s = Lowers
  <2>1. \A x, y : <<x>> # <<y, x>> /\ <<x>> # <<>> /\ <<>> # <<y, x>>
    <3>1. \A x, y : Len(<<x>>) = 1 /\ Len(<<y, x>>) = 2 /\ Len(<<>>) = 0
      OBVIOUS
    <3>. QED
      BY <3>1
  <2>. HIDE DEF Lowers, Opening
  <2>. QED
    BY <1>2, <2>1, Zenon
<1>4. /\ Lowers' = Lowers /\ Opening' = Opening
      /\ \A x : Shut(x)' = Shut(x)
  BY <1>0 DEF Lowers, Opening, PassPin, Shut, Opens
(* Either the drive has done what it was asked, or it has not.             *)
<1>5. \/ drive' = drive /\ (failed' = TRUE /\ (at \notin fault' => Shut(d)))
      \/ /\ drive' = [drive EXCEPT ![at] = e]
         /\ failed' = failed \/ (failed' = TRUE /\ at \in fault')
  <2>1. s \in {Lowers, Opening}
    BY <1>2
  <2>2. (Returns(0) => failed' = failed) /\ (Returns(1) => failed' = TRUE)
    <3>1. Failed(0) = failed /\ Failed(1) = TRUE
      BY <1>1 DEF Failed
    <3>. QED
      BY <3>1, Zenon DEF Returns
  <2>3. Acted => drive' = [drive EXCEPT ![at] = e]
    BY DEF Acted, Method
  <2>4. CASE Refused
    <3>1. fault' = fault /\ failed' = TRUE /\ drive' = drive /\ ~Accepts
      BY <2>2, <2>4 DEF Refused
    <3>2. at \notin fault => Shut(d)
      BY <1>1, <2>1, <3>1, RefusalIsShut DEF Accepts, Method
    <3>. QED
      BY <3>1, <3>2
  <2>. HIDE DEF d, s, e
  <2>5. CASE Succeeds
    BY <2>2, <2>3, <2>5 DEF Succeeds
  <2>6. CASE CallFails
    <3>1. failed' = TRUE /\ at \in fault'
      BY <2>2, <2>6 DEF CallFails
    <3>2. drive' = drive \/ drive' = [drive EXCEPT ![at] = e]
      BY <2>3, <2>6 DEF CallFails
    <3>. QED
      BY <3>1, <3>2
  <2>7. CASE CloseFails
    BY <2>2, <2>3, <2>7 DEF CloseFails
  <2>. QED
    BY <2>4, <2>5, <2>6, <2>7
<1>6. /\ Sane(e) /\ e.active
      /\ s = Lowers => ~Shadowed(e)
      /\ s = Opening => /\ e.locked[0] = {} /\ (~Shadowed(d) => ~Shadowed(e))
                        /\ Shut(d) => Shut(e)
  BY <1>1, <1>2, LowersDoes, OpeningDoes
<1>7. taken' \subseteq fault' /\ fault' \subseteq Slots /\ failed' \in BOOLEAN
  BY <1>0, <1>1, <1>5 DEF Succeeds, Refused, CallFails, CloseFails
<1>. HIDE DEF e, s
<1>8. /\ DOMAIN drive' = Slots /\ \A i \in Slots \ {at} : drive'[i] = drive[i]
      /\ \/ drive'[at] = d /\ failed' = TRUE /\ (at \notin fault' => Shut(d))
         \/ drive'[at] = e /\ (failed' = failed \/ (failed' = TRUE /\ at \in fault'))
  BY <1>1, <1>5
<1>9. UnlockTypeOK'
  BY <1>0, <1>1, <1>6, <1>7, <1>8 DEF UInv, UnlockTypeOK
<1>10. Turn'
  <2>1. drive'[at].active /\ at' = at /\ kind'[at] = "opal"
    BY <1>0, <1>1, <1>6, <1>8
  <2>2. ~failed' => ~Shadowed(drive'[at])
    BY <1>1, <1>3, <1>6, <1>8, <1>2
  <2>3. ~failed' /\ todo' = <<>> => drive'[at].locked[0] = {}
    BY <1>3, <1>6, <1>8
  <2>4. failed' /\ at \notin fault' => Shut(drive'[at])
    BY <1>0, <1>1, <1>2, <1>6, <1>8
  <2>5. todo' \in {<<Opening>>, <<>>}
    BY <1>2
  <2>. QED
    BY <1>0, <1>1, <1>3, <1>4, <2>1, <2>2, <2>3, <2>4, <2>5 DEF Turn, Shadowed
<1>11. Past'
  <2>1. \A i \in Slots : i < at => i # at /\ drive'[i] = drive[i]
    BY <1>1, <1>8, NumbersOfSlots
  <2>. QED
    BY <1>0, <1>4, <2>1 DEF UInv, Past, Shadowed, Locked
<1>. QED
  BY <1>0, <1>9, <1>10, <1>11 DEF UInv, Over

LEMMA ReportsUInv ==
  ASSUME UInv, Reports
  PROVE  UInv'
<1>. DEFINE line == IF failed THEN "Failed" ELSE "Unlocked"
<1>1. phase = "unlock" /\ todo = <<>> /\ Prints(line) /\ fault' = fault
  BY DEF Reports
<1>2. /\ at \in Slots /\ failed \in BOOLEAN
      /\ ~failed => drive[at].locked[0] = {} /\ ~Shadowed(drive[at])
      /\ failed /\ at \notin fault => Shut(drive[at])
  <2>1. \A x, y : <<x, y>> # <<>>
    OBVIOUS
  <2>. QED
    BY <1>1, <2>1 DEF UInv, Turn, UnlockTypeOK
<1>. QED
  BY <1>1, <1>2, PrintsUInv

LEMMA PowerOffUInv ==
  ASSUME UInv, PowerOff
  PROVE  UInv'
<1>1. /\ phase' = "off" /\ at' = 1 /\ typed' = Empty /\ failed' = FALSE /\ taken' = {}
      /\ fault' = {} /\ kind' = kind /\ report' = [i \in Slots |-> "none"]
      /\ drive' = [i \in Slots |-> PoweredUp(drive[i])]
  BY DEF PowerOff, Slots
<1>2. \A i \in Slots : Sane(PoweredUp(drive[i]))
  BY PoweredUpSane DEF UInv, UnlockTypeOK
<1>3. UnlockTypeOK'
  BY <1>1, <1>2, NumbersOfSlots, PasswordAssumption DEF UInv, UnlockTypeOK
<1>4. \A i \in Slots : report'[i] = "none" /\ ~(i < at')
  BY <1>1, NumbersOfSlots DEF Slots
<1>5. Past'
  BY <1>4 DEF Past
<1>. QED
  BY <1>1, <1>3, <1>5 DEF UInv, Turn, Over

LEMMA NextUInv == UInv /\ [Next]_vars => UInv'
<1>. SUFFICES ASSUME UInv, [Next]_vars PROVE UInv'
  OBVIOUS
<1>1. CASE UNCHANGED vars
  BY <1>1 DEF vars, loopVars, UInv, UnlockTypeOK, Turn, Past, Over, LoopEnds, Shut, Lowers,
              Opening, PassPin
<1>. QED
  BY <1>1, ScanUInv, PhaseUInv, UnlockUInv, ReturnsUInv, ReportsUInv, PowerOffUInv DEF Next

LEMMA UnlockInvariance == Spec => []UInv
BY InitUInv, NextUInv, PTL DEF Spec

-----------------------------------------------------------------------------
(* Theorems                                                                *)

(* UnlockedIsOpen: a drive of which "is OPAL Unlocked" was printed has its *)
(* global range unlocked and does not show its shadow MBR, whatever failed *)
(* with it or with others before.                                          *)
THEOREM UnlockedTrue == Spec => []UnlockedIsOpen
<1>1. UInv => UnlockedIsOpen
  BY Reported DEF UInv, Past, UnlockedIsOpen, Slots
<1>. QED
  BY <1>1, UnlockInvariance, PTL

(* FailedIsShut: "is OPAL Failed" without a failed exchange is due to the  *)
(* drive it names, which has another password or a single user's range 0.  *)
THEOREM FailedTrue == Spec => []FailedIsShut
<1>1. UInv => FailedIsShut
  BY Reported DEF UInv, Past, FailedIsShut, Shut, Slots
<1>. QED
  BY <1>1, UnlockInvariance, PTL

(* PassPhraseOpens: when the OS is started, what the pass-phrase can open  *)
(* is open, for any number of drives in any state a command can leave; the *)
(* exceptions are the two PassPhraseOpens names.                           *)
THEOREM PassPhraseOpened == Spec => []PassPhraseOpens
<1>1. ASSUME UInv, phase = "os", NEW i \in Slots, kind[i] = "opal", i \notin fault,
             \A k \in 1..i : kind[k] # "absent", Opens(typed, drive[i]), 0 \notin drive[i].sum
      PROVE  /\ drive[i].guard[0] \cap drive[i].locked[0] = {}
             /\ Shadowed(drive[i]) => ~Locked(drive[i]) /\ report[i] = "NOT LOCKED"
  <2>1. i < at
    <3>1. i \in Nat /\ at \in Nat /\ i <= Devices /\ Devices \in Nat /\ i \in 1..i /\ at >= 1
      <4>1. i \in Nat /\ 1 <= i /\ i <= Devices /\ Devices \in Nat
        BY NumbersOfSlots
      <4>2. at \in Nat /\ at >= 1
        BY <1>1, TurnNumber DEF UInv
      <4>. QED
        BY <4>1, <4>2
    <3>2. CASE at > Devices
      BY <3>1, <3>2
    <3>3. CASE at <= Devices
      <4>1. kind[at] = "absent"
        BY <1>1, <3>3 DEF UInv, Over, LoopEnds
      <4>2. at \notin 1..i
        BY <1>1, <4>1
      <4>. QED
        BY <3>1, <4>2
    <3>. QED
      BY <3>1, <3>2, <3>3
  <2>2. /\ report[i] \in {"Unlocked", "Failed", "NOT LOCKED"}
        /\ report[i] = "Unlocked" => drive[i].locked[0] = {} /\ ~Shadowed(drive[i])
        /\ report[i] = "Failed" => Shut(drive[i])
        /\ report[i] = "NOT LOCKED" => ~Locked(drive[i])
    BY <1>1, <2>1 DEF UInv, Past
  <2>3. report[i] # "Failed"
    BY <1>1, <2>2 DEF Shut
  <2>4. ~Locked(drive[i]) => drive[i].guard[0] \cap drive[i].locked[0] = {}
    BY RangesAreNumbers DEF Locked
  <2>. QED
    BY <2>2, <2>3, <2>4
<1>2. UInv => PassPhraseOpens
  BY <1>1 DEF PassPhraseOpens, Slots
<1>. QED
  BY <1>2, UnlockInvariance, PTL

=============================================================================
