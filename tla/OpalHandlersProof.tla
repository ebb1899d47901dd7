-------------------------- MODULE OpalHandlersProof ---------------------------
(***************************************************************************)
(* Lemmas about the Opal drive and the handlers, for any ranges, passwords *)
(* and places: what a method does to the types and to what must stay true  *)
(* of a drive, and what is true of every session a handler opens.  n says  *)
(* whether option -n was given, without which passwords are hashed.        *)
(***************************************************************************)
EXTENDS OpalHandlers, Integers, SequenceTheorems, TLAPS

(* No method changes the PSID, and none makes the MSID the owner's PIN.    *)
LeavesPSID(m) == m.op = "setPIN" => m.auth # PSIDOwner
KeepsOwner(m) == m.op = "setPIN" /\ m.auth = SID => m.pin # Raw(MSID)
SoundMethods(n) == {m \in Methods : LeavesPSID(m) /\ (~n => KeepsOwner(m))}

(* Shadowing is switched on.                                               *)
Raising(m) == m.op = "setMBR" /\ m.name = "Enable" /\ m.value
QuietMethods(n) == {m \in SoundMethods(n) : m.op # "activate" /\ ~Raising(m)}

Activates(s) == \E i \in 1..Len(s.methods) : s.methods[i].op = "activate"
Raises(s)    == \E i \in 1..Len(s.methods) : Raising(s.methods[i])

(* Activation is the owner's, who is not known by the MSID.                *)
Activation(s) ==
  /\ s.auth = SID /\ s.pin # Raw(MSID)
  /\ \A i \in 1..Len(s.methods) : s.methods[i].op \in {"inactive", "activate"}

SoundSessions(n) ==
  {s \in Sessions : /\ s.methods \in Seq(SoundMethods(n))
                    /\ ~n /\ Activates(s) => Activation(s)
                    /\ s.auth \in Users \cup {Admin1} => s.sp = "Locking"}

(* Shadowing is switched on in a session of its own, after MBRDone is set. *)
Lowered(s) ==
  \A i \in 1..Len(s) : Raises(s[i]) =>
    /\ s[i].methods = <<SetMBR("Enable", TRUE)>>
    /\ i > 1 /\ s[i - 1].methods = <<SetMBR("Done", TRUE)>>

(* What a handler is: at least one session.                                *)
Plans(n) == {s \in Seq(SoundSessions(n)) : s # <<>> /\ Lowered(s)}

-----------------------------------------------------------------------------
(* The drive                                                               *)

LEMMA RangesAreNumbers == Ranges \subseteq Nat /\ 0 \in Ranges
BY RangeAssumption DEF Ranges

LEMMA AuthoritiesDiffer ==
  /\ {SID, PSIDOwner, Admin1} \subseteq Authorities
  /\ \A r \in Ranges : Owner(r) \in Users /\ Owner(r) \in Authorities
  /\ SID # PSIDOwner /\ SID # Admin1 /\ PSIDOwner # Admin1
  /\ Anybody \notin Authorities
  /\ \A u \in Users : u \notin {SID, PSIDOwner, Admin1}
<1>1. \A r \in Ranges : Owner(r) \in Users
  BY DEF Owner, Users
<1>2. \A u \in Users : u \notin {SID, PSIDOwner, Admin1, Anybody}
  BY DEF Users, User, SID, PSIDOwner, Admin1, Anybody
<1>. QED
  BY <1>1, <1>2 DEF Authorities, SID, PSIDOwner, Admin1, Anybody

LEMMA RawPins == \A pw \in Passwords : Raw(pw) \in Pins
BY DEF Raw, Pins

(* What RevertSP leaves, column by column.                                 *)
Blank(d) ==
  /\ \A a \in Authorities \ {SID, PSIDOwner} : d.pin[a] = Raw(Empty)
  /\ d.active = FALSE /\ d.sum = {} /\ d.enabled = {}
  /\ d.mbrEnable = FALSE /\ d.mbrDone = FALSE
  /\ d.place = [r \in Ranges |-> Nowhere]
  /\ d.guard = [r \in Ranges |-> {}] /\ d.locked = [r \in Ranges |-> {}]
  /\ d.stale = {}

LEMMA LockingRevertedBlank ==
  ASSUME NEW d \in Drives
  PROVE  /\ LockingReverted(d) \in Drives /\ Blank(LockingReverted(d))
         /\ LockingReverted(d).pin[SID] = d.pin[SID]
         /\ LockingReverted(d).pin[PSIDOwner] = d.pin[PSIDOwner]
         /\ Blank(d) => LockingReverted(d) = d
<1>. DEFINE pin == [a \in Authorities |-> IF a \in {SID, PSIDOwner} THEN d.pin[a] ELSE Raw(Empty)]
            place == [r \in Ranges |-> Nowhere]
            none == [r \in Ranges |-> {}]
            e == [d EXCEPT !.pin = pin, !.active = FALSE, !.sum = {}, !.enabled = {},
                           !.mbrEnable = FALSE, !.mbrDone = FALSE, !.place = place,
                           !.guard = none, !.locked = none, !.stale = {}]
<1>1. /\ pin \in [Authorities -> Pins]
      /\ place \in [Ranges -> Places] /\ none \in [Ranges -> SUBSET Modes]
  BY RawPins, PasswordAssumption, PlaceAssumption DEF Drives
<1>2. /\ pin[SID] = d.pin[SID] /\ pin[PSIDOwner] = d.pin[PSIDOwner]
      /\ \A a \in Authorities \ {SID, PSIDOwner} : pin[a] = Raw(Empty)
  BY AuthoritiesDiffer
<1>3. ASSUME Blank(d) PROVE pin = d.pin
  <2>1. \A a \in Authorities : pin[a] = d.pin[a]
    BY <1>3 DEF Blank
  <2>. HIDE DEF pin
  <2>. QED
    BY <1>1, <2>1 DEF Drives
<1>4. Blank(d) => d.place = place /\ d.guard = none /\ d.locked = none
  BY DEF Blank
<1>5. LockingReverted(d) = e
  BY DEF LockingReverted
<1>6. \A x : x.place = place /\ x.guard = none /\ x.locked = none =>
        /\ x.place = [r \in Ranges |-> Nowhere]
        /\ x.guard = [r \in Ranges |-> {}] /\ x.locked = [r \in Ranges |-> {}]
  OBVIOUS
<1>. HIDE DEF pin, place, none
<1>7. /\ e \in Drives /\ e.pin = pin /\ e.active = FALSE /\ e.sum = {} /\ e.enabled = {}
      /\ e.mbrEnable = FALSE /\ e.mbrDone = FALSE /\ e.stale = {}
      /\ e.place = place /\ e.guard = none /\ e.locked = none
  BY <1>1 DEF Drives
<1>8. Blank(d) => e = d
  BY <1>3, <1>4 DEF Blank, Drives
<1>. HIDE DEF e
<1>9. Blank(e)
  BY <1>2, <1>6, <1>7 DEF Blank
<1>. QED
  BY <1>2, <1>5, <1>7, <1>8, <1>9

LEMMA SaneIsBlank == \A d : Sane(d) <=> d \in Drives /\ (~d.active => Blank(d))
<1>. SUFFICES ASSUME NEW d \in Drives PROVE d = LockingReverted(d) <=> Blank(d)
  BY DEF Sane
<1>. QED
  BY LockingRevertedBlank

LEMMA FactorySane == Sane(Factory) /\ Factory.pin[PSIDOwner] = Raw(PSID)
<1>1. Raw(MSID) \in Pins /\ Raw(PSID) \in Pins /\ Raw(Empty) \in Pins
  BY RawPins, PasswordAssumption
<1>2. Factory \in Drives
  BY <1>1, PlaceAssumption DEF Factory, Drives
<1>3. Blank(Factory)
  BY DEF Factory, Blank
<1>. QED
  BY <1>2, <1>3, SaneIsBlank, AuthoritiesDiffer DEF Factory

LEMMA LockingRevertedSane ==
  ASSUME NEW d \in Drives
  PROVE  /\ Sane(LockingReverted(d))
         /\ LockingReverted(d).pin[SID] = d.pin[SID]
         /\ LockingReverted(d).pin[PSIDOwner] = d.pin[PSIDOwner]
         /\ LockingReverted(d).active = FALSE
BY LockingRevertedBlank, SaneIsBlank DEF Blank

LEMMA PoweredUpSane ==
  ASSUME NEW d, Sane(d)
  PROVE  /\ Sane(PoweredUp(d))
         /\ PoweredUp(d).pin = d.pin /\ PoweredUp(d).active = d.active
         /\ PoweredUp(d).mbrEnable = d.mbrEnable
<1>. DEFINE locked == [r \in Ranges |-> IF d.guard[r] # {} THEN Modes ELSE d.locked[r]]
<1>1. locked \in [Ranges -> SUBSET Modes]
  BY DEF Sane, Drives
<1>2. PoweredUp(d) = [d EXCEPT !.mbrDone = FALSE, !.locked = locked]
  BY DEF PoweredUp
<1>3. Blank(d) => locked = d.locked
  BY DEF Blank
<1>. HIDE DEF locked
<1>4. /\ PoweredUp(d) \in Drives /\ PoweredUp(d).pin = d.pin /\ PoweredUp(d).active = d.active
      /\ PoweredUp(d).mbrEnable = d.mbrEnable
  BY <1>1, <1>2 DEF Sane, Drives
<1>5. ASSUME Blank(d) PROVE PoweredUp(d) = d
  <2>1. d.mbrDone = FALSE /\ d.locked = locked
    BY <1>3, <1>5 DEF Blank
  <2>2. d \in Drives
    BY DEF Sane
  <2>. QED
    BY <1>2, <2>1, <2>2 DEF Drives
<1>. QED
  BY <1>4, <1>5, SaneIsBlank

(* What a method does to the PINs that matter, and to shadowing.           *)
SamePins(d, e) ==
  /\ e.pin[SID] = d.pin[SID] /\ e.pin[PSIDOwner] = d.pin[PSIDOwner]
  /\ e.pin[Admin1] = d.pin[Admin1] /\ e.active = d.active
SameShadow(d, e) == e.mbrEnable = d.mbrEnable /\ e.mbrDone = d.mbrDone

LEMMA ActivateDoes ==
  ASSUME NEW d, Sane(d), NEW m \in Methods, m.op = "activate"
  PROVE  LET e == Performed(d, m) IN
         /\ Sane(e) /\ e.active /\ e.pin[Admin1] = d.pin[SID]
         /\ e.pin[SID] = d.pin[SID] /\ e.pin[PSIDOwner] = d.pin[PSIDOwner]
         /\ SameShadow(d, e)
<1>. DEFINE pin == [d.pin EXCEPT ![Admin1] = d.pin[SID]]
            enabled == {Owner(r) : r \in m.sum}
            e == [d EXCEPT !.active = TRUE, !.sum = m.sum, !.pin = pin, !.enabled = enabled]
<1>1. m.sum \in SUBSET Ranges
  BY DEF Methods
<1>2. /\ pin \in [Authorities -> Pins] /\ enabled \in SUBSET Users
      /\ pin[Admin1] = d.pin[SID] /\ pin[SID] = d.pin[SID] /\ pin[PSIDOwner] = d.pin[PSIDOwner]
  BY <1>1, AuthoritiesDiffer DEF Sane, Drives
<1>3. Performed(d, m) = e
  BY DEF Performed
<1>. HIDE DEF pin, enabled
<1>4. e \in Drives /\ e.active /\ e.pin = pin /\ SameShadow(d, e)
  BY <1>1, <1>2 DEF Sane, Drives, SameShadow
<1>. HIDE DEF e
<1>. QED
  BY <1>2, <1>3, <1>4 DEF Sane

LEMMA SetPINDoes ==
  ASSUME NEW d, Sane(d), NEW m \in Methods, m.op = "setPIN",
         m.auth \in Users \cup {Admin1} => d.active
  PROVE  LET e == Performed(d, m) IN
         /\ Sane(e) /\ SameShadow(d, e)
         /\ e.pin = [d.pin EXCEPT ![m.auth] = m.pin] /\ e.active = d.active
<1>1. Performed(d, m) = [d EXCEPT !.pin[m.auth] = m.pin]
  BY DEF Performed
<1>2. m.auth \in Authorities /\ m.pin \in Pins
  BY DEF Methods
<1>. DEFINE pin == [d.pin EXCEPT ![m.auth] = m.pin]
            e == [d EXCEPT !.pin = pin]
<1>3. pin \in [Authorities -> Pins] /\ Performed(d, m) = e
  BY <1>1, <1>2 DEF Sane, Drives
<1>4. ASSUME ~d.active, Blank(d), NEW a \in Authorities \ {SID, PSIDOwner}
      PROVE  pin[a] = Raw(Empty)
  <2>1. m.auth \in {SID, PSIDOwner}
    BY <1>2, <1>4 DEF Authorities
  <2>. QED
    BY <1>4, <2>1 DEF Blank, Sane, Drives
<1>. HIDE DEF pin
<1>5. e \in Drives /\ SameShadow(d, e) /\ e.pin = pin /\ e.active = d.active
  BY <1>3 DEF Sane, Drives, SameShadow
<1>6. ASSUME ~d.active, Blank(d) PROVE Blank(e)
  BY <1>4, <1>6 DEF Blank, Sane, Drives
<1>. HIDE DEF e
<1>. QED
  BY <1>3, <1>5, <1>6, SaneIsBlank DEF pin

LEMMA EnableDoes ==
  ASSUME NEW d, Sane(d), NEW m \in Methods, m.op = "enable", d.active
  PROVE  LET e == Performed(d, m) IN Sane(e) /\ SamePins(d, e) /\ SameShadow(d, e)
<1>1. Performed(d, m) = [d EXCEPT !.enabled = d.enabled \cup {m.auth}]
  BY DEF Performed
<1>. DEFINE e == [d EXCEPT !.enabled = d.enabled \cup {m.auth}]
<1>2. m.auth \in Users
  BY DEF Methods
<1>3. e \in Drives /\ e.active /\ SamePins(d, e) /\ SameShadow(d, e)
  BY <1>2 DEF Sane, Drives, SamePins, SameShadow
<1>. HIDE DEF e
<1>. QED
  BY <1>1, <1>3 DEF Sane, e

LEMMA SetMBRDoes ==
  ASSUME NEW d, Sane(d), NEW m \in Methods, m.op = "setMBR", d.active
  PROVE  LET e == Performed(d, m) IN
         /\ Sane(e) /\ SamePins(d, e)
         /\ m.name = "Done" => e.mbrDone = m.value /\ e.mbrEnable = d.mbrEnable
         /\ m.name = "Enable" => e.mbrEnable = m.value /\ e.mbrDone = d.mbrDone
<1>1. Performed(d, m) = IF m.name = "Enable" THEN [d EXCEPT !.mbrEnable = m.value]
                                             ELSE [d EXCEPT !.mbrDone = m.value]
  BY DEF Performed
<1>2. m.value \in BOOLEAN /\ m.name \in {"Done", "Enable"}
  BY DEF Methods
<1>3. CASE m.name = "Enable"
  BY <1>1, <1>2, <1>3 DEF Sane, Drives, SamePins
<1>4. CASE m.name = "Done"
  BY <1>1, <1>2, <1>4 DEF Sane, Drives, SamePins
<1>. QED
  BY <1>2, <1>3, <1>4

LEMMA GenKeyDoes ==
  ASSUME NEW d, Sane(d), NEW m \in Methods, m.op = "genKey", d.active
  PROVE  LET e == Performed(d, m) IN Sane(e) /\ SamePins(d, e) /\ SameShadow(d, e)
<1>1. Performed(d, m) = [d EXCEPT !.stale = d.stale \ {m.range}]
  BY DEF Performed
<1>. QED
  BY <1>1 DEF Sane, Drives, SamePins, SameShadow

(* A Set of a locking range, column by column.                             *)
LEMMA SetRangeDoes ==
  ASSUME NEW d, Sane(d), NEW m \in Methods, m.op = "setRange", d.active
  PROVE  LET e == Performed(d, m) IN
         /\ Sane(e) /\ SamePins(d, e) /\ SameShadow(d, e)
         /\ e.pin = d.pin /\ e.sum = d.sum
         /\ e.guard = [d.guard EXCEPT ![m.range] = (d.guard[m.range] \ m.guardOf) \cup m.guard]
         /\ e.locked = [d.locked EXCEPT ![m.range] = (d.locked[m.range] \ m.lockOf) \cup m.lock]
<1>. DEFINE place == IF m.place = {} THEN d.place[m.range] ELSE CHOOSE x \in m.place : TRUE
            stale == IF m.place = {} THEN d.stale ELSE d.stale \cup {m.range}
            guard == (d.guard[m.range] \ m.guardOf) \cup m.guard
            locked == (d.locked[m.range] \ m.lockOf) \cup m.lock
            e == [d EXCEPT !.place[m.range] = place, !.stale = stale,
                           !.guard[m.range] = guard, !.locked[m.range] = locked]
<1>1. Performed(d, m) = e
  BY DEF Performed
<1>2. /\ m.range \in Ranges /\ m.place \subseteq Places
      /\ m.guard \subseteq Modes /\ m.lock \subseteq Modes
  BY DEF Methods
<1>3. /\ place \in Places /\ stale \in SUBSET Ranges
      /\ guard \in SUBSET Modes /\ locked \in SUBSET Modes
  BY <1>2 DEF Sane, Drives
<1>. HIDE DEF place, stale, guard, locked
<1>4. /\ e \in Drives /\ e.active /\ e.pin = d.pin /\ e.sum = d.sum /\ SameShadow(d, e)
      /\ e.guard = [d.guard EXCEPT ![m.range] = guard]
      /\ e.locked = [d.locked EXCEPT ![m.range] = locked]
  BY <1>2, <1>3 DEF Sane, Drives, SameShadow
<1>5. Sane(e) /\ SamePins(d, e)
  BY <1>4 DEF Sane, SamePins
<1>. HIDE DEF e
<1>. QED
  BY <1>1, <1>4, <1>5 DEF guard, locked

LEMMA EraseDoes ==
  ASSUME NEW d, Sane(d), NEW m \in Methods, m.op = "erase", d.active
  PROVE  LET e == Performed(d, m) IN Sane(e) /\ SamePins(d, e) /\ SameShadow(d, e)
<1>. DEFINE pin == [d.pin EXCEPT ![Owner(m.range)] = Raw(Empty)]
            guard == [d.guard EXCEPT ![m.range] = {}]
            locked == [d.locked EXCEPT ![m.range] = {}]
            stale == d.stale \ {m.range}
            e == [d EXCEPT !.stale = stale, !.guard = guard, !.locked = locked, !.pin = pin]
<1>1. m.range \in Ranges
  BY DEF Methods
<1>2. Owner(m.range) \in Users /\ Raw(Empty) \in Pins
  BY <1>1, AuthoritiesDiffer, RawPins, PasswordAssumption
<1>3. /\ pin \in [Authorities -> Pins] /\ pin[SID] = d.pin[SID]
      /\ pin[PSIDOwner] = d.pin[PSIDOwner] /\ pin[Admin1] = d.pin[Admin1]
  BY <1>2, AuthoritiesDiffer DEF Sane, Drives
<1>4. /\ guard \in [Ranges -> SUBSET Modes] /\ locked \in [Ranges -> SUBSET Modes]
      /\ stale \in SUBSET Ranges
      /\ \A r \in Ranges : d.guard[r] = {} => guard[r] = {}
  BY <1>1 DEF Sane, Drives
<1>5. Performed(d, m) = e
  BY DEF Performed
<1>. HIDE DEF pin, guard, locked, stale
<1>6. /\ e \in Drives /\ e.active = d.active /\ e.pin = pin /\ e.guard = guard
      /\ SameShadow(d, e)
  BY <1>3, <1>4 DEF Sane, Drives, SameShadow
<1>. HIDE DEF e
<1>. QED
  BY <1>3, <1>4, <1>5, <1>6 DEF Sane, SamePins

(* The methods of Admin1 and the users find an active LockingSP.           *)
LEMMA NeedsActive ==
  ASSUME NEW d, NEW m \in Methods, NEW auth, Permits(d, auth, m),
         auth \in Users \cup {Admin1} => d.active
  PROVE  /\ m.op \in {"enable", "setMBR", "genKey", "erase", "setRange"} => d.active
         /\ m.op = "setPIN" /\ m.auth \in Users \cup {Admin1} => d.active
<1>1. CASE m.op \in {"enable", "setMBR", "erase", "setPIN"}
  BY <1>1 DEF Permits
<1>2. CASE m.op \in {"genKey", "setRange"}
  <2>1. m.range \in Ranges
    BY <1>2 DEF Methods
  <2>. QED
    BY <1>2, <2>1, AuthoritiesDiffer DEF Permits
<1>. QED
  BY <1>1, <1>2

(* A method that is permitted leaves the drive sane, if those who set up   *)
(* ranges can only do so where the LockingSP is active.                    *)
LEMMA MethodSane ==
  ASSUME NEW n, NEW d, Sane(d), NEW m \in SoundMethods(n), NEW auth, Permits(d, auth, m),
         auth \in Users \cup {Admin1} => d.active
  PROVE  /\ Sane(Performed(d, m))
         /\ d.pin[PSIDOwner] = Raw(PSID) => Performed(d, m).pin[PSIDOwner] = Raw(PSID)
         /\ m.op \notin {"revert", "revertSP"} /\ d.active => Performed(d, m).active
<1>0. m \in Methods
  BY DEF SoundMethods
<1>1. CASE m.op \in {"read", "isRange", "inactive"}
  BY <1>1 DEF Performed
<1>2. CASE m.op = "activate"
  BY <1>0, <1>2, ActivateDoes
<1>3. CASE m.op = "setPIN"
  <2>1. m.auth # PSIDOwner
    BY <1>3 DEF SoundMethods, LeavesPSID
  <2>2. /\ Sane(Performed(d, m)) /\ Performed(d, m).active = d.active
        /\ Performed(d, m).pin = [d.pin EXCEPT ![m.auth] = m.pin]
    BY <1>0, <1>3, NeedsActive, SetPINDoes
  <2>3. d.pin \in [Authorities -> Pins] /\ PSIDOwner \in Authorities
    BY AuthoritiesDiffer DEF Sane, Drives
  <2>. QED
    BY <2>1, <2>2, <2>3
<1>4. CASE m.op = "enable"
  BY <1>0, <1>4, NeedsActive, EnableDoes DEF SamePins
<1>5. CASE m.op = "setMBR"
  BY <1>0, <1>5, NeedsActive, SetMBRDoes DEF SamePins
<1>6. CASE m.op = "genKey"
  BY <1>0, <1>6, NeedsActive, GenKeyDoes DEF SamePins
<1>7. CASE m.op = "setRange"
  BY <1>0, <1>7, NeedsActive, SetRangeDoes DEF SamePins
<1>8. CASE m.op = "erase"
  BY <1>0, <1>8, NeedsActive, EraseDoes DEF SamePins
<1>9. CASE m.op = "revert"
  BY <1>9, FactorySane DEF Performed
<1>10. CASE m.op = "revertSP"
  BY <1>10, LockingRevertedSane DEF Performed, Sane
<1>. QED
  BY <1>0, <1>1, <1>2, <1>3, <1>4, <1>5, <1>6, <1>7, <1>8, <1>9, <1>10 DEF Methods

-----------------------------------------------------------------------------
(* Sessions and plans                                                      *)

LEMMA MethodsSound ==
  ASSUME NEW n \in BOOLEAN
  PROVE  /\ \A op \in {"read", "inactive", "isRange", "revert"} :
              [op |-> op] \in QuietMethods(n)
         /\ \A a \in Authorities \ {SID, PSIDOwner}, pin \in Pins :
              SetPIN(a, pin) \in QuietMethods(n)
         /\ \A pin \in Pins : (~n => pin # Raw(MSID)) => SetPIN(SID, pin) \in QuietMethods(n)
         /\ \A b \in BOOLEAN : RevertSP(b) \in QuietMethods(n)
         /\ \A u \in Users : [op |-> "enable", auth |-> u] \in QuietMethods(n)
         /\ \A b \in BOOLEAN : SetMBR("Done", b) \in QuietMethods(n)
         /\ \A op \in {"genKey", "erase"}, r \in Ranges :
              [op |-> op, range |-> r] \in QuietMethods(n)
<1>1. \A op \in {"read", "inactive", "isRange", "revert"} :
        [op |-> op] \in QuietMethods(n)
  BY DEF QuietMethods, SoundMethods, Methods, LeavesPSID, KeepsOwner, Raising
<1>2. /\ \A a \in Authorities \ {SID, PSIDOwner}, pin \in Pins : SetPIN(a, pin) \in QuietMethods(n)
      /\ \A pin \in Pins : (~n => pin # Raw(MSID)) => SetPIN(SID, pin) \in QuietMethods(n)
  <2>1. \A a \in Authorities, pin \in Pins : SetPIN(a, pin) \in Methods
    BY DEF Methods, SetPIN
  <2>. QED
    BY <2>1, AuthoritiesDiffer
    DEF QuietMethods, SoundMethods, LeavesPSID, KeepsOwner, Raising, SetPIN
<1>3. \A u \in Users : [op |-> "enable", auth |-> u] \in QuietMethods(n)
  BY DEF QuietMethods, SoundMethods, Methods, LeavesPSID, KeepsOwner, Raising
<1>4. \A b \in BOOLEAN : SetMBR("Done", b) \in QuietMethods(n)
  BY DEF QuietMethods, SoundMethods, Methods, LeavesPSID, KeepsOwner, Raising, SetMBR
<1>5. \A op \in {"genKey", "erase"}, r \in Ranges : [op |-> op, range |-> r] \in QuietMethods(n)
  BY DEF QuietMethods, SoundMethods, Methods, LeavesPSID, KeepsOwner, Raising
<1>6. \A b \in BOOLEAN : RevertSP(b) \in QuietMethods(n)
  BY DEF QuietMethods, SoundMethods, Methods, LeavesPSID, KeepsOwner, Raising, RevertSP
<1>. QED
  BY <1>1, <1>2, <1>3, <1>4, <1>5, <1>6

LEMMA SetRangeSound ==
  ASSUME NEW n \in BOOLEAN, NEW r \in Ranges, NEW place \in SUBSET Places,
         NEW guardOf \in SUBSET Modes, NEW guard \in SUBSET Modes, NEW lockOf \in SUBSET Modes,
         NEW lock \in SUBSET Modes
  PROVE  SetRange(r, place, guardOf, guard, lockOf, lock) \in QuietMethods(n)
<1>. DEFINE m == SetRange(r, place, guardOf, guard, lockOf, lock)
<1>1. m \in Methods
  BY DEF Methods, SetRange
<1>2. m.op = "setRange"
  BY DEF SetRange
<1>. QED
  BY <1>1, <1>2 DEF QuietMethods, SoundMethods, LeavesPSID, KeepsOwner, Raising

(* Sessions that neither activate nor switch shadowing on.                 *)
LEMMA QuietSession ==
  ASSUME NEW n \in BOOLEAN, NEW sp \in {"Admin", "Locking", "none"},
         NEW auth \in Authorities \cup {Anybody}, NEW pin \in Pins,
         NEW methods \in Seq(QuietMethods(n)), auth \in Users \cup {Admin1} => sp = "Locking"
  PROVE  Session(sp, auth, pin, methods) \in Plans(n)
<1>. DEFINE s == [sp |-> sp, auth |-> auth, pin |-> pin, methods |-> methods]
<1>1. methods \in Seq(SoundMethods(n)) /\ methods \in Seq(Methods)
  BY DEF QuietMethods, SoundMethods
<1>2. s \in Sessions
  BY <1>1 DEF Sessions
<1>3. ~Activates(s) /\ ~Raises(s)
  BY DEF Activates, Raises, QuietMethods
<1>4. s \in SoundSessions(n)
  BY <1>1, <1>2, <1>3 DEF SoundSessions
<1>5. Session(sp, auth, pin, methods) = <<s>>
  BY DEF Session
<1>. HIDE DEF s
<1>6. <<s>> \in Seq(SoundSessions(n)) /\ <<s>> # <<>> /\ Len(<<s>>) = 1 /\ <<s>>[1] = s
  BY <1>4
<1>7. Lowered(<<s>>)
  <2>1. \A i \in 1..Len(<<s>>) : <<s>>[i] = s
    BY <1>6
  <2>. QED
    BY <1>3, <2>1, Zenon DEF Lowered
<1>. QED
  BY <1>5, <1>6, <1>7 DEF Plans

LEMMA PlansCompose ==
  ASSUME NEW n, NEW s \in Plans(n), NEW t \in Plans(n)
  PROVE  s \o t \in Plans(n)
<1>1. /\ s \in Seq(SoundSessions(n)) /\ t \in Seq(SoundSessions(n))
      /\ s \o t \in Seq(SoundSessions(n)) /\ s \o t # <<>>
  BY DEF Plans
<1>2. ASSUME NEW i \in 1..Len(s \o t), Raises((s \o t)[i])
      PROVE  /\ (s \o t)[i].methods = <<SetMBR("Enable", TRUE)>>
             /\ i > 1 /\ (s \o t)[i - 1].methods = <<SetMBR("Done", TRUE)>>
  <2>0. Len(s) \in Nat /\ Len(t) \in Nat /\ Len(s \o t) = Len(s) + Len(t) /\ i \in Int
    BY <1>1
  <2>1. CASE i <= Len(s)
    <3>1. i \in 1..Len(s) /\ (s \o t)[i] = s[i]
      BY <1>1, <2>1
    <3>2. s[i].methods = <<SetMBR("Enable", TRUE)>> /\ i > 1
          /\ s[i - 1].methods = <<SetMBR("Done", TRUE)>>
      BY <1>2, <3>1 DEF Plans, Lowered
    <3>3. (s \o t)[i - 1] = s[i - 1]
      BY <1>1, <3>1, <3>2
    <3>. QED
      BY <3>1, <3>2, <3>3
  <2>2. CASE i > Len(s)
    <3>. DEFINE k == i - Len(s)
    <3>1. k \in 1..Len(t) /\ (s \o t)[i] = t[k]
      BY <1>1, <2>0, <2>2
    <3>2. t[k].methods = <<SetMBR("Enable", TRUE)>> /\ k > 1
          /\ t[k - 1].methods = <<SetMBR("Done", TRUE)>>
      BY <1>2, <3>1 DEF Plans, Lowered
    <3>3. (s \o t)[i - 1] = t[k - 1]
      BY <1>1, <2>0, <3>1, <3>2
    <3>4. i > 1
      BY <2>0, <2>2, <3>2
    <3>. HIDE DEF k
    <3>. QED
      BY <3>1, <3>2, <3>3, <3>4
  <2>3. i <= Len(s) \/ i > Len(s)
    BY <2>0
  <2>. QED
    BY <2>1, <2>2, <2>3, Zenon
<1>. QED
  BY <1>1, <1>2 DEF Plans, Lowered

-----------------------------------------------------------------------------
(* The handlers                                                            *)

(* What the arguments of a command may be.                                 *)
JobRecords ==
  [cmd : CommandNames \cup {"none"}, n : BOOLEAN, pw : Passwords, new : Passwords,
   user : Users \cup {Admin1, Anybody}, range : Ranges, place : Places, on : BOOLEAN,
   guard : SUBSET Modes, lock : LockingStates]
(* Only an ordinary user is enabled.                                       *)
Addressed(j) == j.cmd = "enableUser" => j.user \in Users \cup {Anybody}

LEMMA NoJobTyped == NoJob \in JobRecords /\ Addressed(NoJob)
BY PasswordAssumption, PlaceAssumption, RangesAreNumbers
DEF NoJob, JobRecords, LockingStates, Addressed

LEMMA GivenTyped ==
  ASSUME NEW c \in CommandNames, NEW pw \in Passwords
  PROVE  /\ Given(c, pw) \in JobRecords /\ Given(c, pw).cmd = c
         /\ \A new \in Passwords :
              Renewing(c, pw, new) \in JobRecords /\ Renewing(c, pw, new).cmd = c
         /\ \A r \in Ranges : OnRange(c, pw, r) \in JobRecords /\ OnRange(c, pw, r).cmd = c
<1>1. Given(c, pw) \in JobRecords /\ Given(c, pw).cmd = c
  BY PasswordAssumption, PlaceAssumption, RangesAreNumbers
  DEF NoJob, Given, JobRecords, LockingStates
<1>2. \A new \in Passwords : Renewing(c, pw, new) \in JobRecords /\ Renewing(c, pw, new).cmd = c
  BY <1>1 DEF Renewing, JobRecords
<1>3. \A r \in Ranges : OnRange(c, pw, r) \in JobRecords /\ OnRange(c, pw, r).cmd = c
  BY <1>1 DEF OnRange, JobRecords
<1>. QED
  BY <1>1, <1>2, <1>3

LEMMA ArgumentsTyped ==
  ASSUME NEW c \in CommandNames, NEW j \in Arguments(c)
  PROVE  j \in JobRecords /\ j.cmd = c /\ Addressed(j)
<1>1. \A pw, new \in Passwords, u \in Users \cup {Admin1, Anybody} :
        LET k == ForUser(c, pw, new, u) IN k \in JobRecords /\ k.cmd = c /\ k.user = u
  BY GivenTyped DEF ForUser, JobRecords
<1>2. \A pw \in Passwords, b \in BOOLEAN :
        Switching(c, pw, b) \in JobRecords /\ Switching(c, pw, b).cmd = c
  BY GivenTyped DEF Switching, JobRecords
<1>3. \A pw \in Passwords, r \in Ranges, g \in Guards :
        Guarding(c, pw, r, g) \in JobRecords /\ Guarding(c, pw, r, g).cmd = c
  BY GivenTyped DEF Guarding, JobRecords, Guards, Modes
<1>4. \A pw \in Passwords, r \in Ranges, l \in LockingStates :
        Setting(c, pw, r, l) \in JobRecords /\ Setting(c, pw, r, l).cmd = c
  BY GivenTyped DEF Setting, JobRecords
<1>5. \A pw \in Passwords, r \in Ranges, x \in Places :
        Placing(c, pw, r, x) \in JobRecords /\ Placing(c, pw, r, x).cmd = c
  BY GivenTyped DEF Placing, JobRecords
<1>6. \A pw, new \in Passwords, r \in Ranges, x \in Places :
        SettingUp(c, pw, new, r, x) \in JobRecords /\ SettingUp(c, pw, new, r, x).cmd = c
  BY <1>5 DEF SettingUp, JobRecords
<1>7. CASE c \notin {"setPassword", "setNewPassword_SUM", "enableUser"}
  <2>1. j \in JobRecords /\ j.cmd = c
    <3>1. CASE c \in {"initialSetup", "takeOwnership", "activateLockingSP", "revertLockingSP",
                      "revertNoErase", "revertTPer", "PSIDrevert"}
      BY <3>1, GivenTyped DEF Arguments
    <3>2. CASE c = "setSIDPassword"
      BY <3>2, GivenTyped DEF Arguments
    <3>3. CASE c \in {"activateLockingSP_SUM", "eraseLockingRange_SUM", "rekeyLockingRange"}
      BY <3>3, GivenTyped DEF Arguments
    <3>4. CASE c \in {"setMBRDone", "setMBREnable"}
      BY <1>2, <3>4 DEF Arguments
    <3>5. CASE c = "configureLockingRange"
      BY <1>3, <3>5 DEF Arguments
    <3>6. CASE c \in {"setLockingRange", "setLockingRange_SUM"}
      BY <1>4, <3>6 DEF Arguments
    <3>7. CASE c \in {"setupLockingRange", "setupLockingRange_SUM"}
      BY <1>5, <3>7 DEF Arguments
    <3>8. CASE c = "setup_SUM"
      BY <1>6, <3>8 DEF Arguments
    <3>. QED
      BY <1>7, <3>1, <3>2, <3>3, <3>4, <3>5, <3>6, <3>7, <3>8 DEF CommandNames
  <2>. QED
    BY <1>7, <2>1 DEF Addressed
<1>8. CASE c \in {"setPassword", "setNewPassword_SUM"}
  BY <1>1, <1>8 DEF Arguments, Addressed
<1>9. CASE c = "enableUser"
  BY <1>1, <1>9, PasswordAssumption DEF Arguments, Addressed
<1>. QED
  BY <1>7, <1>8, <1>9

LEMMA PinsTyped ==
  ASSUME NEW j \in JobRecords, NEW pw \in Passwords
  PROVE  /\ Raw(pw) \in Pins /\ HashPwd(j, pw) \in Pins
         /\ ~j.n => HashPwd(j, pw) # Raw(MSID)
<1>1. (pw # Empty /\ ~j.n) \in BOOLEAN
  OBVIOUS
<1>2. Raw(pw) \in Pins /\ HashPwd(j, pw) \in Pins
  BY <1>1 DEF Pins, Raw, HashPwd
<1>3. ASSUME ~j.n, HashPwd(j, pw) = Raw(MSID) PROVE FALSE
  <2>1. pw = MSID /\ ~(pw # Empty /\ ~j.n)
    BY <1>3 DEF Raw, HashPwd
  <2>. QED
    BY <1>3, <2>1, PasswordAssumption
<1>. QED
  BY <1>2, <1>3

LEMMA JobFields ==
  ASSUME NEW j \in JobRecords
  PROVE  /\ j.n \in BOOLEAN /\ j.pw \in Passwords /\ j.new \in Passwords /\ Empty \in Passwords
         /\ j.range \in Ranges /\ j.place \in Places /\ j.on \in BOOLEAN
         /\ j.guard \in SUBSET Modes /\ j.lock \in LockingStates
         /\ {j.place} \in SUBSET Places /\ {} \in SUBSET Places
BY PasswordAssumption DEF JobRecords

LEMMA LockTyped == \A l : Lock(l) \in SUBSET Modes /\ LockOf(l) \in SUBSET Modes
BY DEF Lock, LockOf, Modes

LEMMA ByAdmin1Sound ==
  ASSUME NEW j \in JobRecords, NEW methods \in Seq(QuietMethods(j.n))
  PROVE  ByAdmin1(j, methods) \in Plans(j.n)
BY QuietSession, JobFields, PinsTyped, AuthoritiesDiffer DEF ByAdmin1

LEMMA ByOwnerSound ==
  ASSUME NEW j \in JobRecords, NEW u \in Users \cup {Admin1}, NEW pw \in Passwords,
         NEW methods \in Seq(QuietMethods(j.n))
  PROVE  Session("Locking", u, HashPwd(j, pw), methods) \in Plans(j.n)
BY QuietSession, JobFields, PinsTyped, AuthoritiesDiffer DEF Authorities

LEMMA InvalidSound == \A n \in BOOLEAN : Invalid \in Plans(n)
<1>1. Raw(Empty) \in Pins
  BY RawPins, PasswordAssumption
<1>2. \A n \in BOOLEAN : <<>> \in Seq(QuietMethods(n))
  OBVIOUS
<1>. QED
  BY <1>1, <1>2, QuietSession, AuthoritiesDiffer DEF Invalid, Authorities

LEMMA setSIDPasswordSound ==
  ASSUME NEW j \in JobRecords, NEW old \in Pins, NEW new \in Passwords
  PROVE  setSIDPassword(j, old, new) \in Plans(j.n)
<1>1. <<SetPIN(SID, HashPwd(j, new))>> \in Seq(QuietMethods(j.n))
  BY PinsTyped, MethodsSound, JobFields
<1>. QED
  BY <1>1, QuietSession, JobFields, AuthoritiesDiffer DEF setSIDPassword

LEMMA takeOwnershipSound ==
  ASSUME NEW j \in JobRecords
  PROVE  takeOwnership(j) \in Plans(j.n)
<1>1. <<Read>> \in Seq(QuietMethods(j.n)) /\ Raw(Empty) \in Pins /\ Raw(MSID) \in Pins
  BY MethodsSound, JobFields, RawPins, PasswordAssumption DEF Read
<1>2. Session("Admin", Anybody, Raw(Empty), <<Read>>) \in Plans(j.n)
  BY <1>1, QuietSession, JobFields, AuthoritiesDiffer DEF Authorities
<1>. QED
  BY <1>1, <1>2, setSIDPasswordSound, JobFields, PlansCompose DEF takeOwnership

LEMMA activateSound ==
  ASSUME NEW j \in JobRecords, NEW rs \in SUBSET Ranges
  PROVE  Session("Admin", SID, HashPwd(j, j.pw), <<Inactive, Activate(rs)>>) \in Plans(j.n)
<1>. DEFINE methods == <<Inactive, Activate(rs)>>
            s == [sp |-> "Admin", auth |-> SID, pin |-> HashPwd(j, j.pw), methods |-> methods]
<1>1. Inactive \in SoundMethods(j.n) /\ Activate(rs) \in SoundMethods(j.n)
  BY DEF SoundMethods, Methods, Inactive, Activate, LeavesPSID, KeepsOwner
<1>2. methods \in Seq(SoundMethods(j.n)) /\ methods \in Seq(Methods)
  BY <1>1 DEF SoundMethods
<1>3. \A i \in 1..Len(methods) :
        methods[i].op \in {"inactive", "activate"} /\ ~Raising(methods[i])
  BY DEF Inactive, Activate, Raising
<1>. HIDE DEF methods
<1>4. HashPwd(j, j.pw) \in Pins /\ (~j.n => HashPwd(j, j.pw) # Raw(MSID))
  BY PinsTyped, JobFields
<1>5. s \in Sessions
  BY <1>2, <1>4, AuthoritiesDiffer DEF Sessions
<1>6. ~j.n => Activation(s)
  BY <1>3, <1>4 DEF Activation
<1>7. s.auth \notin Users \cup {Admin1} /\ ~Raises(s)
  BY <1>3, AuthoritiesDiffer DEF Raises
<1>8. s \in SoundSessions(j.n)
  BY <1>2, <1>5, <1>6, <1>7 DEF SoundSessions
<1>9. Session("Admin", SID, HashPwd(j, j.pw), methods) = <<s>>
  BY DEF Session
<1>. HIDE DEF s
<1>10. <<s>> \in Seq(SoundSessions(j.n)) /\ <<s>> # <<>> /\ \A i \in 1..Len(<<s>>) : <<s>>[i] = s
  BY <1>8
<1>11. Lowered(<<s>>)
  BY <1>7, <1>10, Zenon DEF Lowered
<1>. QED
  BY <1>9, <1>10, <1>11 DEF Plans, methods

LEMMA activateLockingSPSound ==
  ASSUME NEW j \in JobRecords
  PROVE  activateLockingSP(j) \in Plans(j.n) /\ activateLockingSP_SUM(j) \in Plans(j.n)
BY activateSound, JobFields DEF activateLockingSP, activateLockingSP_SUM

LEMMA configureLockingRangeSound ==
  ASSUME NEW j \in JobRecords, NEW r \in Ranges, NEW guard \in SUBSET Modes
  PROVE  configureLockingRange(j, r, guard) \in Plans(j.n)
<1>1. <<SetRange(r, {}, Modes, guard, {}, {})>> \in Seq(QuietMethods(j.n))
  BY SetRangeSound, JobFields
<1>. QED
  BY <1>1, ByAdmin1Sound DEF configureLockingRange

LEMMA setLockingRangeSound ==
  ASSUME NEW j \in JobRecords, NEW r \in Ranges, NEW l
  PROVE  setLockingRange(j, r, l) \in Plans(j.n)
<1>1. Lock(l) \cap LockOf(l) \in SUBSET Modes
  BY LockTyped
<1>2. <<SetRange(r, {}, {}, {}, LockOf(l), Lock(l) \cap LockOf(l))>> \in Seq(QuietMethods(j.n))
  BY <1>1, SetRangeSound, LockTyped, JobFields
<1>. QED
  BY <1>2, ByAdmin1Sound DEF setLockingRange

LEMMA setLockingRange_SUMSound ==
  ASSUME NEW j \in JobRecords, NEW pw \in Passwords, NEW l
  PROVE  setLockingRange_SUM(j, pw, l) \in Plans(j.n)
<1>1. <<SetRange(j.range, {}, Modes, Modes, Modes, Lock(l))>> \in Seq(QuietMethods(j.n))
  BY SetRangeSound, LockTyped, JobFields
<1>2. Owner(j.range) \in Users
  BY AuthoritiesDiffer, JobFields
<1>. QED
  BY <1>1, <1>2, ByOwnerSound, InvalidSound, JobFields DEF setLockingRange_SUM

LEMMA setMBRSound ==
  ASSUME NEW j \in JobRecords, NEW on \in BOOLEAN
  PROVE  setMBRDone(j, on) \in Plans(j.n) /\ setMBREnable(j, on) \in Plans(j.n)
<1>. DEFINE m == SetMBR("Enable", on)
            s == [sp |-> "Locking", auth |-> Admin1, pin |-> HashPwd(j, j.pw), methods |-> <<m>>]
            t == [sp |-> "Locking", auth |-> Admin1, pin |-> HashPwd(j, j.pw),
                  methods |-> <<SetMBR("Done", TRUE)>>]
<1>1. \A b \in BOOLEAN : setMBRDone(j, b) \in Plans(j.n)
  <2>1. \A b \in BOOLEAN : <<SetMBR("Done", b)>> \in Seq(QuietMethods(j.n))
    BY MethodsSound, JobFields
  <2>. QED
    BY <2>1, ByAdmin1Sound DEF setMBRDone
<1>2. m \in SoundMethods(j.n) /\ m \in Methods
  BY DEF SoundMethods, Methods, LeavesPSID, KeepsOwner, SetMBR
<1>3. m.op = "setMBR" /\ (Raising(m) => m = SetMBR("Enable", TRUE))
  BY DEF SetMBR, Raising
<1>. HIDE DEF m
<1>4. <<m>> \in Seq(SoundMethods(j.n)) /\ <<m>> \in Seq(Methods)
  BY <1>2
<1>5. s \in SoundSessions(j.n)
  <2>1. HashPwd(j, j.pw) \in Pins
    BY PinsTyped, JobFields
  <2>2. s \in Sessions
    BY <1>4, <2>1, AuthoritiesDiffer DEF Sessions
  <2>3. ~Activates(s)
    BY <1>3 DEF Activates
  <2>. QED
    BY <1>4, <2>2, <2>3 DEF SoundSessions
<1>6. Raises(s) => s.methods = <<SetMBR("Enable", TRUE)>>
  <2>1. s.methods = <<m>> /\ \A i \in 1..Len(<<m>>) : <<m>>[i] = m
    OBVIOUS
  <2>. HIDE DEF s
  <2>2. Raises(s) => Raising(m)
    BY <2>1, Zenon DEF Raises
  <2>. QED
    BY <1>3, <2>1, <2>2
<1>7. setMBRDone(j, TRUE) = <<t>> /\ t.methods = <<SetMBR("Done", TRUE)>>
  BY DEF setMBRDone, ByAdmin1, Session
<1>8. setMBREnable(j, on) = <<t>> \o <<s>>
  BY <1>7 DEF setMBREnable, ByAdmin1, Session, m
<1>9. <<t>> \in Seq(SoundSessions(j.n)) /\ t \in SoundSessions(j.n) /\ Lowered(<<t>>)
  <2>1. <<t>> \in Plans(j.n)
    BY <1>1, <1>7
  <2>. HIDE DEF t
  <2>. QED
    BY <2>1 DEF Plans
<1>. HIDE DEF s, t
<1>10. <<t>> \o <<s>> \in Seq(SoundSessions(j.n)) /\ <<t>> \o <<s>> # <<>>
  BY <1>5, <1>9
<1>11. Lowered(<<t>> \o <<s>>)
  <2>1. ~Raises(t)
    <3>1. <<t>>[1] = t /\ 1 \in 1..Len(<<t>>) /\ ~(1 > 1)
      OBVIOUS
    <3>. QED
      BY <1>9, <3>1 DEF Lowered
  <2>2. /\ 1..Len(<<t>> \o <<s>>) = {1, 2} /\ (<<t>> \o <<s>>)[1] = t
        /\ (<<t>> \o <<s>>)[2] = s /\ 2 - 1 = 1 /\ 2 > 1
    OBVIOUS
  <2>. QED
    BY <1>6, <1>7, <2>1, <2>2, Zenon DEF Lowered
<1>. QED
  BY <1>1, <1>8, <1>10, <1>11 DEF Plans

LEMMA rekeyLockingRangeSound ==
  ASSUME NEW j \in JobRecords
  PROVE  /\ rekeyLockingRange(j) \in Plans(j.n)
         /\ <<Read, GenKey(j.range)>> \in Seq(QuietMethods(j.n))
<1>1. Read \in QuietMethods(j.n) /\ GenKey(j.range) \in QuietMethods(j.n)
  BY MethodsSound, JobFields DEF Read, GenKey
<1>2. <<Read, GenKey(j.range)>> \in Seq(QuietMethods(j.n))
  BY <1>1
<1>. QED
  BY <1>2, ByAdmin1Sound DEF rekeyLockingRange

LEMMA setupLockingRangeSound ==
  ASSUME NEW j \in JobRecords
  PROVE  setupLockingRange(j) \in Plans(j.n)
<1>1. <<SetRange(j.range, {j.place}, Modes, {}, Modes, {})>> \in Seq(QuietMethods(j.n))
  BY SetRangeSound, JobFields
<1>2. ByAdmin1(j, <<SetRange(j.range, {j.place}, Modes, {}, Modes, {})>>) \in Plans(j.n)
  BY <1>1, ByAdmin1Sound
<1>. QED
  BY <1>2, rekeyLockingRangeSound, PlansCompose, InvalidSound, JobFields DEF setupLockingRange

LEMMA setupLockingRange_SUMSound ==
  ASSUME NEW j \in JobRecords, NEW pw \in Passwords
  PROVE  setupLockingRange_SUM(j, pw) \in Plans(j.n)
<1>1. <<SetRange(j.range, {j.place}, Modes, Modes, Modes, {})>> \in Seq(QuietMethods(j.n))
  BY SetRangeSound, JobFields
<1>2. Owner(j.range) \in Users \cup {Admin1}
  BY AuthoritiesDiffer, JobFields
<1>3. /\ Session("Locking", Owner(j.range), HashPwd(j, pw),
                 <<SetRange(j.range, {j.place}, Modes, Modes, Modes, {})>>) \in Plans(j.n)
      /\ Session("Locking", Owner(j.range), HashPwd(j, pw), <<Read, GenKey(j.range)>>)
           \in Plans(j.n)
  BY <1>1, <1>2, ByOwnerSound, rekeyLockingRangeSound
<1>. QED
  BY <1>3, PlansCompose, InvalidSound, JobFields DEF setupLockingRange_SUM

LEMMA setNewPassword_SUMSound ==
  ASSUME NEW j \in JobRecords, NEW u \in Users \cup {Admin1, Anybody}, NEW pw \in Passwords
  PROVE  setNewPassword_SUM(j, u, pw) \in Plans(j.n)
<1>0. CASE u = Anybody
  BY <1>0, InvalidSound, JobFields DEF setNewPassword_SUM
<1>1. ASSUME u # Anybody PROVE <<SetPIN(u, HashPwd(j, j.new))>> \in Seq(QuietMethods(j.n))
  <2>1. HashPwd(j, j.new) \in Pins
    BY PinsTyped, JobFields
  <2>2. u \in Authorities \ {SID, PSIDOwner}
    BY <1>1, AuthoritiesDiffer DEF Authorities
  <2>. QED
    BY <2>1, <2>2, MethodsSound, JobFields
<1>. QED
  BY <1>0, <1>1, ByOwnerSound DEF setNewPassword_SUM

(* A user nobody knows ends in a session without a method, and an error.   *)
LEMMA OnUserSound ==
  ASSUME NEW j \in JobRecords, NEW m, j.user # Anybody => m \in QuietMethods(j.n)
  PROVE  OnUser(j, m) \in Plans(j.n)
<1>1. CASE j.user = Anybody
  <2>1. <<>> \in Seq(QuietMethods(j.n))
    OBVIOUS
  <2>. QED
    BY <1>1, <2>1, ByAdmin1Sound, InvalidSound, PlansCompose, JobFields DEF OnUser
<1>2. CASE j.user # Anybody
  <2>1. <<m>> \in Seq(QuietMethods(j.n))
    BY <1>2
  <2>. QED
    BY <1>2, <2>1, ByAdmin1Sound DEF OnUser
<1>. QED
  BY <1>1, <1>2

(* The handlers of one session of one method.                              *)
LEMMA SingleSound ==
  ASSUME NEW j \in JobRecords
  PROVE  /\ eraseLockingRange_SUM(j) \in Plans(j.n)
         /\ getLockingRange_status(j) \in Plans(j.n)
         /\ \A keep \in BOOLEAN : revertLockingSP(j, keep) \in Plans(j.n)
         /\ setPassword(j) \in Plans(j.n)
         /\ j.user \in Users \cup {Anybody} => enableUser(j) \in Plans(j.n)
<1>1. /\ <<[op |-> "erase", range |-> j.range]>> \in Seq(QuietMethods(j.n))
      /\ <<[op |-> "isRange"]>> \in Seq(QuietMethods(j.n))
      /\ \A keep \in BOOLEAN : <<RevertSP(keep)>> \in Seq(QuietMethods(j.n))
      /\ j.user \in Users => [op |-> "enable", auth |-> j.user] \in QuietMethods(j.n)
  BY MethodsSound, JobFields
<1>2. ASSUME j.user # Anybody PROVE SetPIN(j.user, HashPwd(j, j.new)) \in QuietMethods(j.n)
  <2>1. HashPwd(j, j.new) \in Pins
    BY PinsTyped, JobFields
  <2>2. j.user \in Authorities \ {SID, PSIDOwner}
    BY <1>2, AuthoritiesDiffer DEF Authorities, JobRecords
  <2>. QED
    BY <2>1, <2>2, MethodsSound, JobFields
<1>3. setPassword(j) \in Plans(j.n)
  BY <1>2, OnUserSound DEF setPassword
<1>4. j.user \in Users \cup {Anybody} => enableUser(j) \in Plans(j.n)
  BY <1>1, OnUserSound DEF enableUser
<1>. QED
  BY <1>1, <1>3, <1>4, ByAdmin1Sound
  DEF eraseLockingRange_SUM, getLockingRange_status, revertLockingSP

LEMMA revertTPerSound ==
  ASSUME NEW j \in JobRecords, NEW psid \in BOOLEAN
  PROVE  revertTPer(j, psid) \in Plans(j.n)
<1>1. <<[op |-> "revert"]>> \in Seq(QuietMethods(j.n))
  BY MethodsSound, JobFields
<1>2. HashPwd(j, j.pw) \in Pins /\ Raw(j.pw) \in Pins
  BY PinsTyped, JobFields
<1>3. ASSUME NEW a \in {SID, PSIDOwner}, NEW pin \in Pins
      PROVE  Session("Admin", a, pin, <<[op |-> "revert"]>>) \in Plans(j.n)
  BY <1>1, QuietSession, JobFields, AuthoritiesDiffer
<1>. QED
  BY <1>2, <1>3 DEF revertTPer

LEMMA initialSetupSound ==
  ASSUME NEW j \in JobRecords
  PROVE  initialSetup(j) \in Plans(j.n)
<1>1. 0 \in Ranges /\ {} \in SUBSET Modes
  BY RangesAreNumbers
<1>. QED
  BY <1>1, takeOwnershipSound, activateLockingSPSound, configureLockingRangeSound,
     setLockingRangeSound, setMBRSound, PlansCompose DEF initialSetup

LEMMA setup_SUMSound ==
  ASSUME NEW j \in JobRecords, NEW d
  PROVE  setup_SUM(j, d) \in Plans(j.n)
<1>. DEFINE first == IF d.active THEN <<>>
                     ELSE takeOwnership(j) \o activateLockingSP_SUM(j)
                          \o setupLockingRange_SUM(j, Empty)
<1>1. Owner(j.range) \in Users \cup {Admin1, Anybody} /\ Empty \in Passwords
  BY AuthoritiesDiffer, JobFields
<1>2. first \o eraseLockingRange_SUM(j) \in Plans(j.n)
  <2>1. CASE d.active
    <3>1. eraseLockingRange_SUM(j) \in Seq(SoundSessions(j.n))
      BY SingleSound DEF Plans
    <3>2. <<>> \o eraseLockingRange_SUM(j) = eraseLockingRange_SUM(j)
      BY <3>1, ConcatEmptySeq
    <3>. QED
      BY <2>1, <3>2, SingleSound
  <2>2. CASE ~d.active
    BY <1>1, <2>2, SingleSound, takeOwnershipSound, activateLockingSPSound,
       setupLockingRange_SUMSound, PlansCompose
  <2>. QED
    BY <2>1, <2>2
<1>. HIDE DEF first
<1>3. first \o eraseLockingRange_SUM(j) \o getLockingRange_status(j)
      \o setLockingRange_SUM(j, Empty, "RW") \o setNewPassword_SUM(j, Owner(j.range), Empty)
        \in Plans(j.n)
  BY <1>1, <1>2, SingleSound, setLockingRange_SUMSound, setNewPassword_SUMSound, PlansCompose
<1>4. CASE SumRefused(d)
  BY <1>4, InvalidSound, JobFields DEF setup_SUM
<1>5. CASE ~SumRefused(d)
  BY <1>3, <1>5 DEF setup_SUM, first
<1>. QED
  BY <1>4, <1>5

LEMMA HandlerSound ==
  ASSUME NEW j \in JobRecords, j.cmd \in CommandNames, Addressed(j), NEW d
  PROVE  Handler(j, d) \in Plans(j.n)
<1>1. HashPwd(j, j.pw) \in Pins
  BY PinsTyped, JobFields
<1>2. CASE j.cmd \in {"initialSetup", "takeOwnership", "setSIDPassword", "activateLockingSP",
                      "activateLockingSP_SUM"}
  BY <1>1, <1>2, JobFields, initialSetupSound, takeOwnershipSound, setSIDPasswordSound,
     activateLockingSPSound DEF Handler
<1>3. CASE j.cmd \in {"configureLockingRange", "setLockingRange", "setLockingRange_SUM",
                      "setMBRDone", "setMBREnable"}
  BY <1>3, JobFields, configureLockingRangeSound, setLockingRangeSound, setLockingRange_SUMSound,
     setMBRSound DEF Handler
<1>4. CASE j.cmd \in {"rekeyLockingRange", "setupLockingRange", "setupLockingRange_SUM",
                      "eraseLockingRange_SUM"}
  BY <1>4, JobFields, rekeyLockingRangeSound, setupLockingRangeSound, setupLockingRange_SUMSound,
     SingleSound DEF Handler
<1>5. CASE j.cmd \in {"setPassword", "setNewPassword_SUM", "enableUser", "revertLockingSP",
                      "revertNoErase"}
  <2>1. j.user \in Users \cup {Admin1, Anybody}
    BY DEF JobRecords
  <2>. QED
    BY <1>5, <2>1, JobFields, SingleSound, setNewPassword_SUMSound DEF Handler, Addressed
<1>6. CASE j.cmd \in {"revertTPer", "PSIDrevert", "setup_SUM"}
  BY <1>6, revertTPerSound, setup_SUMSound DEF Handler
<1>. QED
  BY <1>2, <1>3, <1>4, <1>5, <1>6 DEF CommandNames
=============================================================================
