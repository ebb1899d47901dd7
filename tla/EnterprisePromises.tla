-------------------------- MODULE EnterprisePromises ---------------------------
(***************************************************************************)
(* What the commands of DtaDevEnterprise promise: that success means done, *)
(* that a clean failure has changed nothing, and that the MSID finishes    *)
(* what takeOwnership has begun.                                           *)
(*                                                                         *)
(* The inductive invariant (Promises) says of each kind of command what is *)
(* left to do, and what has been done, between any two exchanges:          *)
(*   Singly    the commands of one method: it waits at the end of todo, or *)
(*             it has been called and nothing is left;                     *)
(*   Listing   a band has been listed, or one is still to be;              *)
(*   Enabling  each band is enabled or to be; once one is, all that is     *)
(*             left are sessions of the EraseMaster that let it in;        *)
(*   Owning    each master has the password or is to get it, never twice,  *)
(*             and BandMaster0 before the first band is used with it.      *)
(***************************************************************************)
EXTENDS DtaDevEnterpriseProof, Functions

(* The bands that setband does not take for others (those up to 254).      *)
Unmasked == Bands \cup Named \subseteq 0 .. 254

(* What asks the drive and changes nothing.                                *)
Asks ==
  {s \in SoundSessions :
     /\ s.sp # "none" /\ s.auth = Anybody
     /\ \/ s.err = "return" /\ s.methods \in {<<>>, <<Read>>, <<[op |-> "infoOpal"]>>}
        \/ s.err = "opal" /\ s.methods \in {<<>>, <<[op |-> "info"]>>}}

(* The commands of which one method does what they promise, or that do     *)
(* nothing.                                                                *)
Singles ==
  {"setSIDPassword", "setPassword", "configureLockingRange", "setLockingRange",
   "setupLockingRange", "rekeyLockingRange", "eraseLockingRange", "setBandEnabled",
   "revertLockingSP", "revertNoErase", "revertTPer", "PSIDrevert"} \cup Ignored \cup Rejected

Effect(j) ==
  CASE j.cmd = "setSIDPassword" -> SetPIN(SID, HashPwd(j, j.new))
    [] j.cmd = "setPassword"    -> SetPIN(j.user, OrMSID(j, j.new))
    [] j.cmd = "configureLockingRange" ->
         SetBand(setband(j.band), {}, Modes, j.guard, {}, {}, {TRUE})
    [] j.cmd = "setLockingRange" ->
         SetBand(setband(j.band), {}, {}, {}, Modes, IF j.lock = "LK" THEN Modes ELSE {}, {})
    [] j.cmd = "setupLockingRange" ->
         SetBand(setband(j.band), {j.place}, Modes, {}, Modes, {}, {FALSE})
    [] j.cmd = "rekeyLockingRange" ->
         IF setband(j.band) \in Plain THEN Read ELSE [op |-> "genKey", band |-> setband(j.band)]
    [] j.cmd = "eraseLockingRange" -> [op |-> "erase", band |-> setband(j.band)]
    [] j.cmd = "setBandEnabled"    -> [op |-> "enable", band |-> setband(j.band)]
    [] j.cmd \in {"revertLockingSP", "revertNoErase", "revertTPer", "PSIDrevert"} ->
         [op |-> "revert"]
    [] j.cmd \in Ignored \cup Rejected -> Read

(* The last session of such a command: it calls that method, or refuses    *)
(* the arguments.                                                          *)
Lasts(j) ==
  {s \in SoundSessions :
     /\ s.err = "return"
     /\ s.sp = "none" \/ s.methods \in {<<Effect(j)>>, <<Read, Effect(j)>>}
     /\ j.cmd \in Rejected => s.sp = "none"
     /\ j.cmd = "setPassword" =>
          /\ s.sp # "none" /\ s.auth = j.user /\ s.pin = OrMSID(j, j.pw)
          /\ s.methods = <<Effect(j)>>}

(* A sequence of members of A, the last of which is in F.                  *)
Shape(ss, A, F) ==
  Len(ss) >= 1 /\ ss[Len(ss)] \in F /\ \A k \in 1 .. Len(ss) - 1 : ss[k] \in A

Waiting == drive = was /\ Shape(todo, Asks, Lasts(job))

Finished ==
  /\ job.cmd \notin Rejected
  /\ drive = Performed(was, Effect(job))
  /\ Effect(job).op \in {"setBand", "genKey", "erase", "enable"} => Effect(job).band \in Bands
  /\ todo = <<>> \/ (state = "session" /\ Len(todo) = 1 /\ todo[1].methods = <<>>)

Singly == Runs /\ job.cmd \in Singles => seen = "none" /\ (Waiting \/ Finished)

(* A command that runs is one, nothing is noted before it, and a session   *)
(* that is open is one.                                                    *)
Calm ==
  /\ Runs => job \in Jobs
  /\ ~Runs => seen = "none"
  /\ state = "session" => todo[1].sp # "none"

-----------------------------------------------------------------------------
(* Sequences                                                               *)

LEMMA ShapeSteps ==
  ASSUME NEW S, NEW ss \in Seq(S), NEW A, NEW F, Shape(ss, A, F)
  PROVE  /\ ss # <<>> /\ Head(ss) = ss[1] /\ Head(ss) \in S /\ Tail(ss) \in Seq(S)
         /\ \/ Head(ss) \in F /\ Tail(ss) = <<>> /\ \A x \in F : Shape(<<x>> \o Tail(ss), A, F)
            \/ /\ Head(ss) \in A /\ Shape(Tail(ss), A, F)
               /\ \A x \in A \cap S : Shape(<<x>> \o Tail(ss), A, F)
<1>1. /\ ss # <<>> /\ Head(ss) = ss[1] /\ Head(ss) \in S /\ Tail(ss) \in Seq(S)
      /\ Len(ss) \in Nat /\ Len(ss) >= 1
  BY DEF Shape
<1>2. CASE Len(ss) = 1
  <2>1. Len(Tail(ss)) = 0 /\ ss[1] \in F
    BY <1>1, <1>2 DEF Shape
  <2>2. \A t \in Seq(S) : Len(t) = 0 => t = <<>>
    OBVIOUS
  <2>3. Tail(ss) = <<>>
    BY <1>1, <2>1, <2>2, Zenon
  <2>4. \A x \in F : <<x>> \o <<>> = <<x>> /\ Shape(<<x>>, A, F)
    BY DEF Shape
  <2>. QED
    BY <1>1, <2>1, <2>3, <2>4, Zenon
<1>3. CASE Len(ss) > 1
  <2>1. ss[1] \in A
    BY <1>1, <1>3 DEF Shape
  <2>2. Len(Tail(ss)) = Len(ss) - 1 /\ \A k \in 1 .. Len(ss) - 1 : Tail(ss)[k] = ss[k + 1]
    BY <1>1
  <2>3. Shape(Tail(ss), A, F)
    BY <1>1, <1>3, <2>2 DEF Shape
  <2>4. ASSUME NEW x \in A \cap S PROVE Shape(<<x>> \o Tail(ss), A, F)
    <3>1. /\ Len(<<x>> \o Tail(ss)) = Len(ss) /\ (<<x>> \o Tail(ss))[1] = x
          /\ \A k \in 2 .. Len(ss) : (<<x>> \o Tail(ss))[k] = ss[k]
      BY <1>1, <2>2
    <3>. QED
      BY <1>1, <1>3, <3>1 DEF Shape
  <2>. QED
    BY <1>1, <2>1, <2>3, <2>4
<1>4. \A n \in Nat : n >= 1 => n = 1 \/ n > 1
  OBVIOUS
<1>. QED
  BY <1>1, <1>2, <1>3, <1>4, Zenon

LEMMA ShapeMore ==
  ASSUME NEW S, NEW A, NEW F, NEW ss \in Seq(S), Shape(ss, A, F), A \subseteq S, NEW p \in Seq(A)
  PROVE  Shape(p \o ss, A, F)
<1>1. p \in Seq(S) /\ Len(p) \in Nat /\ Len(ss) \in Nat /\ Len(ss) >= 1
  BY DEF Shape
<1>2. /\ Len(p \o ss) = Len(p) + Len(ss)
      /\ \A k \in 1 .. Len(p) : (p \o ss)[k] = p[k] /\ p[k] \in A
      /\ \A k \in 1 .. Len(ss) : (p \o ss)[Len(p) + k] = ss[k]
  BY <1>1
<1>3. (p \o ss)[Len(p \o ss)] \in F
  BY <1>1, <1>2 DEF Shape
<1>4. ASSUME NEW k \in 1 .. Len(p \o ss) - 1 PROVE (p \o ss)[k] \in A
  <2>1. CASE k <= Len(p)
    BY <1>2, <2>1
  <2>2. CASE k > Len(p)
    <3>1. k - Len(p) \in 1 .. Len(ss) - 1
      BY <1>1, <1>2, <2>2
    <3>2. Len(p) + (k - Len(p)) = k
      BY <1>1
    <3>. QED
      BY <1>2, <3>1, <3>2 DEF Shape
  <2>. QED
    BY <1>1, <2>1, <2>2
<1>. QED
  BY <1>1, <1>2, <1>3, <1>4 DEF Shape

LEMMA ShapeOne ==
  ASSUME NEW A, NEW F, NEW x \in F
  PROVE  Shape(<<x>>, A, F)
BY DEF Shape

(* What a sequence has, and what comes before what in it.                  *)
Ordered(ss, R) == \A k, l \in 1 .. Len(ss) : k < l => <<ss[k], ss[l]>> \in R

LEMMA Parts ==
  ASSUME NEW S, NEW ss \in Seq(S), ss # <<>>
  PROVE  /\ Head(ss) \in S /\ Tail(ss) \in Seq(S)
         /\ Range(ss) = {Head(ss)} \cup Range(Tail(ss))
         /\ \A R : Ordered(ss, R) =>
              Ordered(Tail(ss), R) /\ \A y \in Range(Tail(ss)) : <<Head(ss), y>> \in R
<1>1. /\ Len(ss) \in Nat /\ Len(ss) >= 1 /\ Head(ss) = ss[1] /\ Tail(ss) \in Seq(S)
      /\ Len(Tail(ss)) = Len(ss) - 1 /\ \A k \in 1 .. Len(ss) - 1 : Tail(ss)[k] = ss[k + 1]
      /\ DOMAIN ss = 1 .. Len(ss) /\ DOMAIN Tail(ss) = 1 .. Len(ss) - 1 /\ Head(ss) \in S
  OBVIOUS
<1>2. Range(ss) \subseteq {Head(ss)} \cup Range(Tail(ss))
  <2>. SUFFICES ASSUME NEW k \in 1 .. Len(ss), k # 1 PROVE ss[k] \in Range(Tail(ss))
    BY <1>1 DEF Range
  <2>1. k - 1 \in 1 .. Len(ss) - 1 /\ ss[(k - 1) + 1] = ss[k]
    BY <1>1
  <2>. QED
    BY <1>1, <2>1 DEF Range
<1>3. {Head(ss)} \cup Range(Tail(ss)) \subseteq Range(ss)
  <2>1. \A k \in 1 .. Len(ss) - 1 : k + 1 \in 1 .. Len(ss)
    BY <1>1
  <2>. QED
    BY <1>1, <2>1 DEF Range
<1>4. ASSUME NEW R, Ordered(ss, R) PROVE Ordered(Tail(ss), R)
  BY <1>1, <1>4 DEF Ordered
<1>5. ASSUME NEW R, Ordered(ss, R), NEW k \in 1 .. Len(ss) - 1 PROVE <<Head(ss), Tail(ss)[k]>> \in R
  BY <1>1, <1>5 DEF Ordered
<1>. QED
  BY <1>1, <1>2, <1>3, <1>4, <1>5 DEF Range

LEMMA HeadInRange == \A S : \A ss \in Seq(S) : ss # <<>> => Head(ss) \in Range(ss)
BY Parts

LEMMA Joined ==
  ASSUME NEW S, NEW s \in Seq(S), NEW t \in Seq(S)
  PROVE  /\ s \o t \in Seq(S) /\ Range(s \o t) = Range(s) \cup Range(t)
         /\ \A R : Ordered(s, R) /\ Ordered(t, R) /\ Range(s) \X Range(t) \subseteq R =>
              Ordered(s \o t, R)
<1>1. /\ Len(s) \in Nat /\ Len(t) \in Nat /\ s \o t \in Seq(S) /\ Len(s \o t) = Len(s) + Len(t)
      /\ \A k \in 1 .. Len(s) : (s \o t)[k] = s[k]
      /\ \A k \in 1 .. Len(t) : (s \o t)[Len(s) + k] = t[k]
      /\ DOMAIN s = 1 .. Len(s) /\ DOMAIN t = 1 .. Len(t) /\ DOMAIN (s \o t) = 1 .. Len(s \o t)
  OBVIOUS
<1>2. \A k \in 1 .. Len(s) + Len(t) :
        k \in 1 .. Len(s) \/ (k - Len(s) \in 1 .. Len(t) /\ Len(s) + (k - Len(s)) = k)
  BY <1>1
<1>3. \A k \in 1 .. Len(s \o t) :
        \/ k \in 1 .. Len(s) /\ (s \o t)[k] = s[k]
        \/ k - Len(s) \in 1 .. Len(t) /\ (s \o t)[k] = t[k - Len(s)]
  BY <1>1, <1>2
<1>4. Range(s \o t) \subseteq Range(s) \cup Range(t)
  BY <1>1, <1>3 DEF Range
<1>5. Range(s) \subseteq Range(s \o t)
  BY <1>1 DEF Range
<1>6. Range(t) \subseteq Range(s \o t)
  <2>1. \A k \in 1 .. Len(t) : Len(s) + k \in 1 .. Len(s) + Len(t)
    BY <1>1
  <2>. QED
    BY <1>1, <2>1 DEF Range
<1>7. ASSUME NEW R, Ordered(s, R), Ordered(t, R), Range(s) \X Range(t) \subseteq R,
             NEW k \in 1 .. Len(s \o t), NEW l \in 1 .. Len(s \o t), k < l
      PROVE  <<(s \o t)[k], (s \o t)[l]>> \in R
  <2>1. CASE k \in 1 .. Len(s) /\ l \in 1 .. Len(s)
    BY <1>1, <1>7, <2>1 DEF Ordered
  <2>2. CASE k \in 1 .. Len(s) /\ l \notin 1 .. Len(s)
    <3>1. (s \o t)[k] \in Range(s) /\ (s \o t)[l] \in Range(t)
      BY <1>1, <1>3, <2>2 DEF Range
    <3>. QED
      BY <1>7, <3>1
  <2>3. CASE k \notin 1 .. Len(s)
    <3>1. k - Len(s) \in 1 .. Len(t) /\ l - Len(s) \in 1 .. Len(t) /\ k - Len(s) < l - Len(s)
          /\ l \notin 1 .. Len(s)
      BY <1>1, <1>7, <2>3
    <3>2. (s \o t)[k] = t[k - Len(s)] /\ (s \o t)[l] = t[l - Len(s)]
      BY <1>3, <2>3, <3>1
    <3>. QED
      BY <1>7, <3>1, <3>2 DEF Ordered
  <2>. QED
    BY <2>1, <2>2, <2>3
<1>. QED
  BY <1>1, <1>4, <1>5, <1>6, <1>7 DEF Ordered

LEMMA Single ==
  /\ Range(<<>>) = {} /\ \A R : Ordered(<<>>, R)
  /\ \A S : <<>> \in Seq(S)
  /\ \A x : Range(<<x>>) = {x} /\ \A R : Ordered(<<x>>, R)
  /\ \A S : \A x \in S : <<x>> \in Seq(S)
BY DEF Range, Ordered

LEMMA OneMore ==
  ASSUME NEW S, NEW x \in S, NEW t \in Seq(S)
  PROVE  /\ <<x>> \o t \in Seq(S) /\ Range(<<x>> \o t) = {x} \cup Range(t)
         /\ \A R : Ordered(t, R) /\ (\A y \in Range(t) : <<x, y>> \in R) => Ordered(<<x>> \o t, R)
<1>1. <<x>> \in Seq(S) /\ Range(<<x>>) = {x} /\ \A R : Ordered(<<x>>, R)
  BY DEF Range, Ordered
<1>. DEFINE s == <<x>>
<1>. HIDE DEF s
<1>2. s \in Seq(S) /\ Range(s) = {x} /\ \A R : Ordered(s, R)
  BY <1>1 DEF s
<1>3. /\ s \o t \in Seq(S) /\ Range(s \o t) = Range(s) \cup Range(t)
      /\ \A R : Ordered(s, R) /\ Ordered(t, R) /\ Range(s) \X Range(t) \subseteq R =>
              Ordered(s \o t, R)
  BY <1>2, Joined
<1>4. ASSUME NEW R, Ordered(t, R), \A y \in Range(t) : <<x, y>> \in R PROVE Ordered(s \o t, R)
  <2>1. Range(s) \X Range(t) \subseteq R
    BY <1>2, <1>4
  <2>. QED
    BY <1>2, <1>3, <1>4, <2>1
<1>. QED
  BY <1>2, <1>3, <1>4 DEF s

-----------------------------------------------------------------------------
(* The handlers                                                            *)

LEMMA AskingAsks ==
  /\ getDefaultPassword \in Seq(Asks) /\ getMaxRanges \in Seq(Asks)
  /\ Head(getMaxRangesOpal) \in Asks /\ getMaxRangesOpal = <<Head(getMaxRangesOpal)>>
  /\ \A pws : DefaultFor(pws) \in Seq(Asks)
<1>1. /\ Head(getDefaultPassword) \in SoundSessions /\ Head(getMaxRanges) \in SoundSessions
      /\ Head(getMaxRangesOpal) \in SoundSessions
  BY AskingSound DEF getDefaultPassword, getMaxRanges, getMaxRangesOpal, Session, Locking
<1>2. /\ Head(getDefaultPassword) \in Asks /\ Head(getMaxRanges) \in Asks
      /\ Head(getMaxRangesOpal) \in Asks
  BY <1>1 DEF Asks, getDefaultPassword, getMaxRanges, getMaxRangesOpal, Session, Locking
<1>3. /\ getDefaultPassword = <<Head(getDefaultPassword)>> /\ getMaxRanges = <<Head(getMaxRanges)>>
      /\ getMaxRangesOpal = <<Head(getMaxRangesOpal)>>
  BY DEF getDefaultPassword, getMaxRanges, getMaxRangesOpal, Session, Locking
<1>4. getDefaultPassword \in Seq(Asks) /\ getMaxRanges \in Seq(Asks)
  <2>1. \A x \in Asks : <<x>> \in Seq(Asks)
    OBVIOUS
  <2>. QED
    BY <1>2, <1>3, <2>1, Zenon
<1>. QED
  BY <1>2, <1>3, <1>4 DEF DefaultFor

LEMMA EffectIs ==
  ASSUME NEW j
  PROVE  /\ j.cmd = "setSIDPassword" => Effect(j) = SetPIN(SID, HashPwd(j, j.new))
         /\ j.cmd = "setPassword" => Effect(j) = SetPIN(j.user, OrMSID(j, j.new))
         /\ j.cmd = "configureLockingRange" =>
              Effect(j) = SetBand(setband(j.band), {}, Modes, j.guard, {}, {}, {TRUE})
         /\ j.cmd = "setLockingRange" =>
              Effect(j) = SetBand(setband(j.band), {}, {}, {}, Modes,
                                  IF j.lock = "LK" THEN Modes ELSE {}, {})
         /\ j.cmd = "setupLockingRange" =>
              Effect(j) = SetBand(setband(j.band), {j.place}, Modes, {}, Modes, {}, {FALSE})
         /\ j.cmd = "rekeyLockingRange" =>
              Effect(j) = IF setband(j.band) \in Plain THEN Read
                          ELSE [op |-> "genKey", band |-> setband(j.band)]
         /\ j.cmd = "eraseLockingRange" => Effect(j) = [op |-> "erase", band |-> setband(j.band)]
         /\ j.cmd = "setBandEnabled" => Effect(j) = [op |-> "enable", band |-> setband(j.band)]
         /\ j.cmd \in {"revertLockingSP", "revertNoErase", "revertTPer", "PSIDrevert"} =>
              Effect(j) = [op |-> "revert"]
         /\ j.cmd \in Ignored \cup Rejected => Effect(j) = Read
BY DEF Effect, Ignored, Rejected

LEMMA EffectSound ==
  ASSUME NEW j \in JobRecords, j.cmd \in Singles
  PROVE  Effect(j) \in SoundMethods
<1>1. /\ j.user \in Claimed \ {PSIDOwner} /\ SID \in Claimed \ {PSIDOwner}
      /\ j.band \in Bands \cup Named /\ setband(j.band) \in Int
  BY BandsAreIntegers, AuthoritiesClaimed DEF JobRecords
<1>2. HashPwd(j, j.new) \in Pins /\ OrMSID(j, j.new) \in Pins
  BY PinsTyped DEF JobRecords
<1>3. CASE j.cmd \in {"setSIDPassword", "setPassword"}
  BY <1>1, <1>2, <1>3, MethodsSound, EffectIs
<1>4. CASE j.cmd \in {"configureLockingRange", "setLockingRange", "setupLockingRange"}
  <2>. DEFINE B(place, guardOf, guard, lockOf, lock, reset) ==
         SetBand(setband(j.band), place, guardOf, guard, lockOf, lock, reset)
  <2>1. \A m : <<m>> \in Seq(SoundMethods) => m \in SoundMethods
    OBVIOUS
  <2>2. /\ j.guard \in SUBSET Modes /\ {j.place} \in SUBSET Places /\ Modes \in SUBSET Modes
        /\ {} \in SUBSET Modes /\ {} \in SUBSET Places
        /\ {TRUE} \in SUBSET BOOLEAN /\ {FALSE} \in SUBSET BOOLEAN /\ {} \in SUBSET BOOLEAN
        /\ (IF j.lock = "LK" THEN Modes ELSE {}) \in SUBSET Modes
    BY DEF JobRecords
  <2>3. /\ B({}, Modes, j.guard, {}, {}, {TRUE}) \in SoundMethods
        /\ B({}, {}, {}, Modes, IF j.lock = "LK" THEN Modes ELSE {}, {}) \in SoundMethods
        /\ B({j.place}, Modes, {}, Modes, {}, {FALSE}) \in SoundMethods
    BY <1>1, <2>1, <2>2, SetBandSound, Zenon
  <2>. QED
    BY <1>4, <2>3, EffectIs, Zenon
<1>5. CASE j.cmd \in {"rekeyLockingRange", "eraseLockingRange", "setBandEnabled"}
  BY <1>1, <1>5, MethodsSound, EffectIs DEF Read
<1>6. CASE j.cmd \in {"revertLockingSP", "revertNoErase", "revertTPer", "PSIDrevert"}
                    \cup Ignored \cup Rejected
  BY <1>6, MethodsSound, EffectIs DEF Read
<1>. QED
  BY <1>3, <1>4, <1>5, <1>6 DEF Singles

(* Its last session, and the ways the handlers get to it.                  *)
LEMMA LastShape ==
  ASSUME NEW j \in JobRecords, j.cmd \in Singles, j.cmd # "setPassword", j.cmd \notin Rejected,
         NEW sp \in {"Admin", "Locking"}, NEW auth \in Claimed, NEW pin \in Pins,
         NEW methods \in {<<Effect(j)>>, <<Read, Effect(j)>>}
  PROVE  /\ Session(sp, auth, pin, methods, "return") \in Seq(SoundSessions)
         /\ Shape(Session(sp, auth, pin, methods, "return"), Asks, Lasts(j))
<1>. DEFINE s == [sp |-> sp, auth |-> auth, pin |-> pin, methods |-> methods, err |-> "return"]
<1>1. Effect(j) \in SoundMethods /\ Read \in SoundMethods
  BY EffectSound, MethodsSound DEF Read
<1>2. methods \in Seq(SoundMethods)
  <2>1. \A m, r \in SoundMethods : <<m>> \in Seq(SoundMethods) /\ <<r, m>> \in Seq(SoundMethods)
    OBVIOUS
  <2>. QED
    BY <1>1, <2>1, Zenon
<1>3. Session(sp, auth, pin, methods, "return") \in Seq(SoundSessions) /\ s \in SoundSessions
  <2>1. Session(sp, auth, pin, methods, "return") = <<s>>
    BY DEF Session
  <2>2. /\ sp \in {"Admin", "Locking", "none"} /\ "return" \in {"return", "skip", "opal", "list"}
        /\ Head(<<s>>) = s
    OBVIOUS
  <2>3. /\ Session(sp, auth, pin, methods, "return") \in Seq(SoundSessions)
        /\ Head(Session(sp, auth, pin, methods, "return")) \in SoundSessions
    BY <1>2, <2>2, SessionSound
  <2>. QED
    BY <2>1, <2>2, <2>3
<1>4. s \in Lasts(j)
  BY <1>3 DEF Lasts
<1>. QED
  BY <1>3, <1>4, ShapeOne DEF Session

LEMMA InvalidShape ==
  ASSUME NEW j, j.cmd # "setPassword"
  PROVE  Shape(Invalid, Asks, Lasts(j)) /\ Invalid \in Seq(SoundSessions)
<1>1. Head(Invalid) \in SoundSessions /\ Invalid \in Seq(SoundSessions)
  BY AskingSound DEF Invalid, Session
<1>2. Head(Invalid) \in Lasts(j)
  BY <1>1 DEF Lasts, Invalid, Session
<1>. QED
  BY <1>1, <1>2, ShapeOne DEF Invalid, Session

LEMMA DefaultForShape ==
  ASSUME NEW j, NEW ss \in Seq(SoundSessions), Shape(ss, Asks, Lasts(j)), NEW pws
  PROVE  /\ Shape(DefaultFor(pws) \o ss, Asks, Lasts(j))
         /\ DefaultFor(pws) \o ss \in Seq(SoundSessions)
<1>1. Asks \subseteq SoundSessions /\ DefaultFor(pws) \in Seq(Asks)
  BY AskingAsks DEF Asks
<1>2. DefaultFor(pws) \o ss \in Seq(SoundSessions)
  BY DefaultForSound
<1>. QED
  BY <1>1, <1>2, ShapeMore

LEMMA AskedShape ==
  ASSUME NEW j, NEW ss \in Seq(SoundSessions), Shape(ss, Asks, Lasts(j))
  PROVE  Shape(getMaxRanges \o ss, Asks, Lasts(j))
<1>1. Asks \subseteq SoundSessions /\ getMaxRanges \in Seq(Asks)
  BY AskingAsks DEF Asks
<1>. QED
  BY <1>1, ShapeMore

LEMMA WithinShape ==
  ASSUME NEW j, NEW ss \in Seq(SoundSessions), Shape(ss, Asks, Lasts(j)), NEW b,
         j.cmd # "setPassword"
  PROVE  Shape(Within(b, ss), Asks, Lasts(j))
<1>1. CASE InBounds(b)
  BY <1>1, AskedShape DEF Within
<1>2. CASE ~InBounds(b)
  BY <1>2, InvalidShape, AskedShape DEF Within
<1>. QED
  BY <1>1, <1>2

LEMMA setPasswordShape ==
  ASSUME NEW j \in JobRecords, j.cmd = "setPassword"
  PROVE  Shape(setPassword(j), Asks, Lasts(j))
<1>. DEFINE s == [sp |-> "Locking", auth |-> j.user, pin |-> OrMSID(j, j.pw),
                  methods |-> <<Effect(j)>>, err |-> "return"]
<1>1. Effect(j) = SetPIN(j.user, OrMSID(j, j.new)) /\ Effect(j) \in SoundMethods
  BY EffectIs, EffectSound DEF Singles
<1>2. Locking(j.user, OrMSID(j, j.pw), <<Effect(j)>>) = <<s>>
  BY DEF Locking, Session
<1>3. <<Effect(j)>> \in Seq(SoundMethods)
  BY <1>1
<1>4. j.user \in Claimed /\ OrMSID(j, j.pw) \in Pins /\ Head(<<s>>) = s
  BY PinsTyped DEF JobRecords
<1>5. s \in SoundSessions /\ <<s>> \in Seq(SoundSessions)
  BY <1>2, <1>3, <1>4, LockingSound, Zenon
<1>6. s \in Lasts(j)
  BY <1>5 DEF Lasts, Rejected
<1>7. setPassword(j) = DefaultFor({j.pw, j.new}) \o <<s>>
  BY <1>1, <1>2 DEF setPassword
<1>. QED
  BY <1>5, <1>6, <1>7, ShapeOne, DefaultForShape, Zenon

LEMMA rekeyShape ==
  ASSUME NEW j \in JobRecords, j.cmd = "rekeyLockingRange"
  PROVE  Shape(rekeyLockingRange(j), Asks, Lasts(j))
<1>. DEFINE ms == IF setband(j.band) \in Plain THEN <<Effect(j)>> ELSE <<Read, Effect(j)>>
<1>1. rekeyLockingRange(j) = Session("Locking", Master(j.band), HashPwd(j, j.pw), ms, "return")
  BY EffectIs DEF rekeyLockingRange, Locking
<1>2. Master(j.band) \in Claimed /\ HashPwd(j, j.pw) \in Pins
  BY AuthoritiesClaimed, PinsTyped DEF JobRecords
<1>. QED
  BY <1>1, <1>2, LastShape DEF Singles, Rejected

LEMMA setBandEnabledShape ==
  ASSUME NEW j \in JobRecords, j.cmd = "setBandEnabled"
  PROVE  Shape(setBandsEnabled(j, j.band), Asks, Lasts(j))
<1>. DEFINE enable(b) == Locking(EraseMaster, OrMSID(j, j.pw),
                                 <<[op |-> "enable", band |-> setband(b)]>>)
            last == Session("Locking", EraseMaster, OrMSID(j, j.pw), <<Effect(j)>>, "return")
<1>1. j.band # -1
  BY BandsAreNumbers, NamedAssumption DEF JobRecords
<1>2. [i \in 1 .. Len(<<j.band>>) |-> Head(enable(<<j.band>>[i]))] = last
  <2>1. enable(j.band) = last
    BY EffectIs DEF Locking
  <2>2. last = <<Head(last)>>
    BY DEF Session
  <2>. HIDE DEF last, enable
  <2>. QED
    BY <2>1, <2>2
<1>3. Chosen(j.band) = <<j.band>>
  BY <1>1 DEF Chosen
<1>4. setBandsEnabled(j, j.band) =
        getMaxRanges \o IF MaxRanges >= 1024 \/ j.band > MaxRanges THEN Invalid
                        ELSE DefaultFor({j.pw}) \o last
  BY <1>2, <1>3, Zenon DEF setBandsEnabled
<1>5. EraseMaster \in Claimed /\ OrMSID(j, j.pw) \in Pins
  BY AuthoritiesClaimed, PinsTyped DEF JobRecords
<1>6. last \in Seq(SoundSessions) /\ Shape(last, Asks, Lasts(j))
  BY <1>5, LastShape DEF Singles, Rejected
<1>. HIDE DEF last
<1>. QED
  BY <1>4, <1>6, InvalidShape, DefaultForShape, AskedShape

LEMMA HandlerShape ==
  ASSUME NEW j \in JobRecords, j.cmd \in Singles \ Ignored
  PROVE  Shape(Handler(j), Asks, Lasts(j))
<1>1. /\ j.pw \in Passwords /\ j.new \in Passwords /\ j.band \in Bands \cup Named
      /\ HashPwd(j, j.pw) \in Pins /\ OrMSID(j, j.pw) \in Pins /\ Raw(j.pw) \in Pins
      /\ Raw(MSID) \in Pins
      /\ {SID, EraseMaster, PSIDOwner, Master(j.band)} \subseteq Claimed
  BY PinsTyped, PasswordAssumption, AuthoritiesClaimed DEF JobRecords
<1>. DEFINE Last(sp, a, pin) == Session(sp, a, pin, <<Effect(j)>>, "return")
<1>2. ASSUME j.cmd # "setPassword", j.cmd \notin Rejected
      PROVE  \A sp \in {"Admin", "Locking"}, a \in Claimed, pin \in Pins :
               Last(sp, a, pin) \in Seq(SoundSessions) /\ Shape(Last(sp, a, pin), Asks, Lasts(j))
  BY <1>2, LastShape
<1>. HIDE DEF Last
<1>3. CASE j.cmd = "setPassword"
  BY <1>3, setPasswordShape DEF Handler, Ignored, Rejected
<1>4. CASE j.cmd = "rekeyLockingRange"
  BY <1>4, rekeyShape DEF Handler, Ignored, Rejected
<1>5. CASE j.cmd = "setBandEnabled"
  BY <1>5, setBandEnabledShape DEF Handler, Ignored, Rejected
<1>6. CASE j.cmd = "setSIDPassword"
  <2>. DEFINE pin == IF HashPwd(j, j.pw).pw = Empty THEN Raw(MSID) ELSE HashPwd(j, j.pw)
  <2>1. Handler(j) = DefaultFor({HashPwd(j, j.pw).pw}) \o Last("Admin", SID, pin)
    BY <1>6, EffectIs DEF Handler, Ignored, Rejected, setSIDPassword, Last
  <2>2. pin \in Pins
    BY <1>1
  <2>. HIDE DEF pin
  <2>. QED
    BY <1>1, <1>2, <1>6, <2>1, <2>2, DefaultForShape DEF Rejected
<1>7. CASE j.cmd = "configureLockingRange"
  <2>1. Handler(j) = Last("Locking", Master(j.band), HashPwd(j, j.pw))
    BY <1>7, EffectIs DEF Handler, Ignored, Rejected, configureLockingRange, Locking, Last
  <2>. QED
    BY <1>1, <1>2, <1>7, <2>1 DEF Rejected
<1>8. CASE j.cmd = "setLockingRange"
  <2>1. Handler(j) = IF j.lock \in {"RW", "LK"}
                     THEN Within(j.band, Last("Locking", Master(j.band), HashPwd(j, j.pw)))
                     ELSE Invalid
    BY <1>8, EffectIs DEF Handler, Ignored, Rejected, setLockingRange, Locking, Last
  <2>. QED
    BY <1>1, <1>2, <1>8, <2>1, WithinShape, InvalidShape DEF Rejected
<1>9. CASE j.cmd = "setupLockingRange"
  <2>1. Handler(j) = Within(j.band, Last("Locking", Master(j.band), HashPwd(j, j.pw)))
    BY <1>9, EffectIs DEF Handler, Ignored, Rejected, setupLockingRange, Locking, Last
  <2>. QED
    BY <1>1, <1>2, <1>9, <2>1, WithinShape DEF Rejected
<1>10. CASE j.cmd = "eraseLockingRange"
  <2>. DEFINE ss == Within(j.band, Last("Locking", EraseMaster, OrMSID(j, j.pw)))
  <2>1. Handler(j) = DefaultFor({j.pw}) \o ss
    BY <1>10, EffectIs DEF Handler, Ignored, Rejected, eraseLockingRange, Locking, Last
  <2>2. Shape(ss, Asks, Lasts(j)) /\ ss \in Seq(SoundSessions)
    BY <1>1, <1>2, <1>10, WithinShape, WithinSound, BandsAreIntegers DEF Rejected
  <2>. QED
    BY <2>1, <2>2, DefaultForShape
<1>11. CASE j.cmd \in {"revertLockingSP", "revertNoErase", "revertTPer", "PSIDrevert"}
  <2>1. \E a \in {SID, PSIDOwner}, pin \in {HashPwd(j, j.pw), Raw(j.pw)} :
          Handler(j) = Last("Admin", a, pin)
    BY <1>11, EffectIs DEF Handler, Ignored, Rejected, revertLockingSP, revertTPer, Last
  <2>. QED
    BY <1>1, <1>2, <1>11, <2>1 DEF Rejected
<1>12. CASE j.cmd \in Rejected
  BY <1>12, InvalidShape DEF Handler, Ignored, Rejected
<1>. QED
  BY <1>3, <1>4, <1>5, <1>6, <1>7, <1>8, <1>9, <1>10, <1>11, <1>12 DEF Singles

-----------------------------------------------------------------------------
(* The steps of a command of one method                                    *)

LEMMA AskCalled ==
  ASSUME NEW s \in Asks
  PROVE  /\ s.err \in {"return", "opal"} /\ s.sp # "none" /\ s.auth = Anybody
         /\ s.methods # <<>> =>
              /\ Head(s.methods).op \in {"read", "info", "infoOpal"}
              /\ \A d : Performed(d, Head(s.methods)) = d
              /\ [s EXCEPT !.methods = Tail(@)] \in Asks
              /\ [s EXCEPT !.methods = Tail(@)].methods = <<>>
<1>1. s \in SoundSessions /\ s.err \in {"return", "opal"} /\ s.sp # "none" /\ s.auth = Anybody
  BY DEF Asks
<1>2. ASSUME s.methods # <<>>
      PROVE  \E op \in {"read", "info", "infoOpal"} : s.methods = <<[op |-> op]>>
  BY <1>2 DEF Asks, Read
<1>3. ASSUME s.methods # <<>>
      PROVE  Head(s.methods).op \in {"read", "info", "infoOpal"} /\ Tail(s.methods) = <<>>
  <2>1. PICK op \in {"read", "info", "infoOpal"} : s.methods = <<[op |-> op]>>
    BY <1>2, <1>3
  <2>2. Head(<<[op |-> op]>>) = [op |-> op] /\ Tail(<<[op |-> op]>>) = <<>>
    OBVIOUS
  <2>. QED
    BY <2>1, <2>2
<1>4. ASSUME s.methods # <<>> PROVE \A d : Performed(d, Head(s.methods)) = d
  BY <1>3, <1>4 DEF Performed
<1>5. ASSUME s.methods # <<>>
      PROVE  /\ [s EXCEPT !.methods = Tail(@)] \in Asks
             /\ [s EXCEPT !.methods = Tail(@)].methods = <<>>
  BY <1>1, <1>3, <1>5 DEF Asks, SoundSessions, Sessions
<1>. QED
  BY <1>1, <1>3, <1>4, <1>5

LEMMA AskOnly ==
  ASSUME NEW s \in Asks, NEW m, s.methods = <<m>>
  PROVE  m.op \in {"read", "info", "infoOpal"}
<1>1. \A x : <<x>> # <<>> /\ Head(<<x>>) = x
  OBVIOUS
<1>. QED
  BY <1>1, AskCalled

LEMMA LastCalled ==
  ASSUME NEW j, NEW s \in Lasts(j), s.sp # "none"
  PROVE  /\ s.err = "return" /\ s.methods # <<>>
         /\ \/ Head(s.methods) = Effect(j) /\ [s EXCEPT !.methods = Tail(@)].methods = <<>>
            \/ Head(s.methods) = Read /\ [s EXCEPT !.methods = Tail(@)] \in Lasts(j)
<1>1. s \in SoundSessions /\ s.err = "return" /\ s.methods \in {<<Effect(j)>>, <<Read, Effect(j)>>}
  BY DEF Lasts
<1>2. s \in Sessions
  BY <1>1 DEF SoundSessions
<1>3. CASE s.methods = <<Effect(j)>>
  BY <1>1, <1>2, <1>3 DEF Sessions
<1>4. CASE s.methods = <<Read, Effect(j)>> /\ s.methods # <<Effect(j)>>
  <2>1. Tail(s.methods) = <<Effect(j)>> /\ Head(s.methods) = Read
    BY <1>4
  <2>2. s.methods \in Seq(SoundMethods) /\ Tail(s.methods) \in Seq(SoundMethods)
        /\ Tail(s.methods) \in Seq(Methods)
    <3>1. s.methods \in Seq(SoundMethods)
      BY <1>1 DEF SoundSessions
    <3>2. Tail(s.methods) \in Seq(SoundMethods)
      BY <1>4, <3>1
    <3>3. \A t \in Seq(SoundMethods) : t \in Seq(Methods)
      BY DEF SoundMethods
    <3>. QED
      BY <3>1, <3>2, <3>3
  <2>3. [s EXCEPT !.methods = Tail(@)] \in SoundSessions
    BY <1>1, <2>2 DEF SoundSessions, Sessions
  <2>4. j.cmd # "setPassword"
    BY <1>4 DEF Lasts
  <2>5. [s EXCEPT !.methods = Tail(@)] \in Lasts(j)
    BY <1>1, <1>2, <2>1, <2>3, <2>4 DEF Lasts, Sessions
  <2>. QED
    BY <1>1, <1>4, <2>1, <2>5
<1>. QED
  BY <1>1, <1>3, <1>4

LEMMA CalmStep == IInv /\ Calm /\ [Next]_vars => Calm'
<1>. SUFFICES ASSUME IInv, Calm, [Next]_vars PROVE Calm'
  OBVIOUS
<1>0. \A result : Ends(result) /\ result \notin {"running", "session"} => Calm'
  BY DEF Ends, Calm, Runs
<1>1. ASSUME NEW rest, GoesOn(rest), Runs PROVE Calm'
  BY <1>1 DEF GoesOn, Calm, Runs
<1>2. CASE Runs /\ (StartError \/ CallError)
  BY <1>0, <1>1, <1>2 DEF StartError, CallError
<1>3. CASE Launch
  BY <1>3 DEF Launch, Calm, Runs
<1>4. CASE Return \/ Interrupt \/ PowerCycle
  BY <1>0, <1>4 DEF Return, Interrupt, PowerCycle, Runs
<1>5. CASE Start
  BY <1>5, SessionsGoOn DEF Start, Calm, Runs, Here, IInv, Process
<1>6. CASE Call
  <2>1. CASE Ends("ok")
    BY <1>0, <2>1
  <2>2. CASE /\ todo' = <<[Here EXCEPT !.methods = Tail(@)]>> \o Tail(todo)
             /\ UNCHANGED <<state, job>>
    <3>1. todo # <<>> /\ state = "session"
      BY <1>6 DEF Call, IInv, Process
    <3>2. Here \in Sessions /\ Tail(todo) \in Seq(SoundSessions) /\ Here = todo[1]
      BY <3>1, SessionsGoOn DEF IInv, Process, Here
    <3>3. todo'[1] = [Here EXCEPT !.methods = Tail(@)]
      BY <2>2, <3>2
    <3>4. todo'[1].sp = todo[1].sp
      BY <3>2, <3>3 DEF Sessions
    <3>. QED
      BY <2>2, <3>1, <3>4 DEF Calm, Runs
  <2>. QED
    BY <1>6, <2>1, <2>2 DEF Call
<1>7. CASE Close \/ CloseFails
  BY <1>1, <1>7 DEF Close, CloseFails, Runs
<1>8. CASE SessionTimeout \/ UNCHANGED vars
  BY <1>8 DEF SessionTimeout, vars, Calm, Runs
<1>. QED
  BY <1>2, <1>3, <1>4, <1>5, <1>6, <1>7, <1>8
  DEF Next, Refused, Busy, StartFails, CallRefused, CallFails, Runs

(* What a command of one method does next.                                 *)
LEMMA WaitingStep ==
  ASSUME IInv, Calm, Runs, todo # <<>>, Shape(todo, Asks, Lasts(job))
  PROVE  /\ Here = todo[1] /\ Here.err \in {"return", "opal"}
         /\ \/ Here \in Lasts(job) /\ Tail(todo) = <<>>
               /\ \A x \in Lasts(job) : Shape(<<x>> \o Tail(todo), Asks, Lasts(job))
            \/ /\ Here \in Asks /\ Shape(Tail(todo), Asks, Lasts(job))
               /\ \A x \in Asks : Shape(<<x>> \o Tail(todo), Asks, Lasts(job))
<1>1. todo \in Seq(SoundSessions)
  BY DEF IInv, Process
<1>2. Asks \cap SoundSessions = Asks
  BY DEF Asks
<1>3. Here = todo[1] /\ Here = Head(todo)
  BY <1>1, ShapeSteps DEF Here
<1>4. \/ Here \in Lasts(job) /\ Tail(todo) = <<>>
         /\ \A x \in Lasts(job) : Shape(<<x>> \o Tail(todo), Asks, Lasts(job))
      \/ /\ Here \in Asks /\ Shape(Tail(todo), Asks, Lasts(job))
         /\ \A x \in Asks : Shape(<<x>> \o Tail(todo), Asks, Lasts(job))
  <2>. DEFINE F == Lasts(job)
  <2>1. Shape(todo, Asks, F)
    OBVIOUS
  <2>. HIDE DEF F
  <2>2. \/ Head(todo) \in F /\ Tail(todo) = <<>> /\ \A x \in F : Shape(<<x>> \o Tail(todo), Asks, F)
        \/ /\ Head(todo) \in Asks /\ Shape(Tail(todo), Asks, F)
           /\ \A x \in Asks \cap SoundSessions : Shape(<<x>> \o Tail(todo), Asks, F)
    BY <1>1, <2>1, ShapeSteps, Zenon
  <2>. QED
    BY <1>2, <1>3, <2>2 DEF F
<1>5. Here.err \in {"return", "opal"}
  BY <1>4 DEF Asks, Lasts
<1>. QED
  BY <1>3, <1>4, <1>5, Zenon

LEMMA BandsPermitted ==
  ASSUME NEW d, NEW auth, NEW m, Permits(d, auth, m)
  PROVE  m.op \in {"setBand", "genKey", "erase", "enable"} => m.band \in Bands
BY DEF Permits

LEMMA WaitingCalls ==
  ASSUME IInv, Calm, Call, seen = "none", Waiting
  PROVE  \/ Head(Here.methods) = Effect(job) /\ Effect(job).op = "revert" /\ Ends("ok")
         \/ seen' = "none" /\ job' = job /\ was' = was /\ state' = state /\ (Waiting' \/ Finished')
<1>1. state = "session" /\ Runs /\ todo # <<>> /\ Shape(todo, Asks, Lasts(job)) /\ drive = was
  BY DEF Call, Runs, Waiting, IInv, Process
<1>2. /\ Here = todo[1] /\ Here.sp # "none" /\ Here.err \in {"return", "opal"}
      /\ \/ Here \in Lasts(job) /\ Tail(todo) = <<>>
            /\ \A x \in Lasts(job) : Shape(<<x>> \o Tail(todo), Asks, Lasts(job))
         \/ /\ Here \in Asks /\ Shape(Tail(todo), Asks, Lasts(job))
            /\ \A x \in Asks : Shape(<<x>> \o Tail(todo), Asks, Lasts(job))
  BY <1>1, WaitingStep DEF Calm
<1>. DEFINE rest == [Here EXCEPT !.methods = Tail(@)]
            m == Head(Here.methods)
<1>3. /\ Here.methods # <<>> /\ Permits(drive, Here.auth, m) /\ drive' = Performed(drive, m)
      /\ m.op # "revert" =>
           todo' = <<rest>> \o Tail(todo) /\ seen' = "none" /\ UNCHANGED <<state, job, was>>
      /\ m.op = "revert" => Ends("ok")
  BY <1>2 DEF Call
<1>. HIDE DEF rest, m
<1>4. CASE Here \in Asks /\ \A x \in Asks : Shape(<<x>> \o Tail(todo), Asks, Lasts(job))
  <2>1. m.op # "revert" /\ drive' = drive /\ rest \in Asks
    BY <1>3, <1>4, AskCalled DEF m, rest
  <2>2. Shape(todo', Asks, Lasts(job))
    BY <1>3, <1>4, <2>1
  <2>. QED
    BY <1>1, <1>3, <2>1, <2>2 DEF Waiting
<1>5. CASE /\ Here \in Lasts(job) /\ Tail(todo) = <<>>
           /\ \A x \in Lasts(job) : Shape(<<x>> \o Tail(todo), Asks, Lasts(job))
  <2>1. \/ m = Effect(job) /\ rest.methods = <<>>
        \/ m = Read /\ rest \in Lasts(job)
    BY <1>2, <1>5, LastCalled DEF m, rest
  <2>2. CASE m = Read /\ rest \in Lasts(job)
    <3>1. m.op # "revert" /\ drive' = drive
      BY <1>3, <2>2 DEF Read, Performed
    <3>2. Shape(todo', Asks, Lasts(job))
      BY <1>3, <1>5, <2>2, <3>1
    <3>. QED
      BY <1>1, <1>3, <3>1, <3>2 DEF Waiting
  <2>3. CASE m = Effect(job) /\ rest.methods = <<>> /\ m.op # "revert"
    <3>1. todo' = <<rest>>
      <4>1. \A x : <<x>> \o <<>> = <<x>>
        OBVIOUS
      <4>2. Tail(todo) = <<>> /\ todo' = <<rest>> \o Tail(todo)
        BY <1>3, <1>5, <2>3
      <4>. QED
        BY <4>1, <4>2, Zenon
    <3>2. Len(todo') = 1 /\ todo'[1].methods = <<>>
      BY <2>3, <3>1
    <3>3. Effect(job).op \in {"setBand", "genKey", "erase", "enable"} => Effect(job).band \in Bands
      BY <1>3, <2>3, BandsPermitted
    <3>4. Effect(job') = Effect(job)
      BY <1>3, <2>3
    <3>5. job.cmd \notin Rejected
      BY <1>2, <1>5 DEF Lasts
    <3>. QED
      BY <1>1, <1>3, <2>3, <3>2, <3>3, <3>4, <3>5 DEF Finished
  <2>. QED
    BY <1>3, <2>1, <2>2, <2>3 DEF m
<1>. QED
  BY <1>2, <1>4, <1>5

(* A refusal or a failure: the command ends, or asks as of an Opal drive.  *)
LEMMA WaitingErrs ==
  ASSUME IInv, Calm, Runs, todo # <<>>, Waiting
  PROVE  /\ StartError => Ends("err")
         /\ CallError => \/ Ends("err")
                         \/ /\ Here \in Asks /\ Shape(todo', Asks, Lasts(job))
                            /\ UNCHANGED <<job, was, seen>> /\ state' = "running"
<1>1. /\ Here.err \in {"return", "opal"}
      /\ \/ Here \in Lasts(job)
         \/ Here \in Asks /\ \A x \in Asks : Shape(<<x>> \o Tail(todo), Asks, Lasts(job))
  BY WaitingStep DEF Waiting
<1>2. Here \in Lasts(job) => Here.err = "return"
  BY DEF Lasts
<1>3. ASSUME CallError, Here.err # "return"
      PROVE  /\ Here \in Asks /\ Shape(todo', Asks, Lasts(job))
             /\ UNCHANGED <<job, was, seen>> /\ state' = "running"
  <2>1. todo' = getMaxRangesOpal \o Tail(todo) /\ UNCHANGED <<job, was, seen>> /\ state' = "running"
    BY <1>1, <1>3 DEF CallError, GoesOn
  <2>2. Shape(getMaxRangesOpal \o Tail(todo), Asks, Lasts(job))
    BY <1>1, <1>2, <1>3, AskingAsks
  <2>. QED
    BY <1>1, <1>2, <1>3, <2>1, <2>2
<1>. QED
  BY <1>1, <1>3 DEF StartError, CallError

LEMMA FailedAsk ==
  ASSUME Here \in Asks, CallFails
  PROVE  drive' = drive
BY AskCalled DEF CallFails

LEMMA SinglyLaunch == IInv /\ Calm /\ Launch => Singly'
<1>. SUFFICES ASSUME IInv, Calm, Launch, job'.cmd \in Singles
              PROVE  seen' = "none" /\ (Waiting' \/ Finished')
  BY DEF Singly
<1>1. job' \in JobRecords /\ todo' = Handler(job') /\ was' = drive /\ drive' = drive
  BY JobTyped DEF Launch
<1>2. seen' = "none"
  BY DEF Launch, Calm
<1>3. CASE job'.cmd \in Ignored
  <2>1. todo' = <<>>
    BY <1>1, <1>3 DEF Handler, Ignored, Rejected
  <2>2. Effect(job') = Read
    BY <1>3, EffectIs
  <2>3. Performed(was', Read) = was' /\ Read.op = "read"
    BY DEF Performed, Read
  <2>. QED
    BY <1>1, <1>2, <1>3, <2>1, <2>2, <2>3 DEF Finished, Ignored, Rejected
<1>4. CASE job'.cmd \notin Ignored
  BY <1>1, <1>2, <1>4, HandlerShape DEF Waiting
<1>. QED
  BY <1>3, <1>4

LEMMA SinglyStep == IInv /\ Calm /\ Singly /\ [Next]_vars => Singly'
<1>. SUFFICES ASSUME IInv, Calm, Singly, [Next]_vars PROVE Singly'
  OBVIOUS
<1>0. \A result : Ends(result) => Singly'
  BY DEF Ends, NoJob, Singly, Singles, Ignored, Rejected
<1>1. CASE Launch
  BY <1>1, SinglyLaunch
<1>2. CASE Return \/ Interrupt \/ PowerCycle
  BY <1>0, <1>2 DEF Return, Interrupt, PowerCycle
<1>3. CASE UNCHANGED vars \/ Start \/ SessionTimeout
  BY <1>3 DEF vars, Start, SessionTimeout, Singly, Runs, Waiting, Finished
<1>4. ASSUME NEW rest, GoesOn(rest), ~Singly'
      PROVE  Runs => seen = "none" /\ (Waiting \/ Finished) /\ job.cmd \in Singles
  BY <1>4 DEF GoesOn, Singly
<1>5. CASE (Refused \/ Busy \/ StartFails) /\ ~Singly'
  <2>1. StartError /\ todo # <<>> /\ state = "running" /\ Runs
    BY <1>5 DEF Refused, Busy, StartFails, Runs
  <2>2. Waiting
    BY <1>0, <1>4, <1>5, <2>1 DEF StartError, Finished
  <2>. QED
    BY <1>0, <2>1, <2>2, WaitingErrs
<1>6. CASE (CallRefused \/ CallFails) /\ ~Singly'
  <2>1. CallError /\ todo # <<>> /\ Runs /\ Here.methods # <<>>
    BY <1>6 DEF CallRefused, CallFails, Runs, IInv, Process
  <2>2. Waiting /\ seen = "none"
    BY <1>0, <1>4, <1>6, <2>1 DEF CallError, Finished, Here
  <2>3. /\ Here \in Asks /\ Shape(todo', Asks, Lasts(job))
        /\ UNCHANGED <<job, was, seen>> /\ state' = "running"
    BY <1>0, <1>6, <2>1, <2>2, WaitingErrs
  <2>4. drive' = drive
    BY <1>6, <2>3, FailedAsk DEF CallRefused
  <2>. QED
    BY <2>2, <2>3, <2>4 DEF Singly, Waiting
<1>7. CASE (Close \/ CloseFails) /\ ~Singly'
  <2>1. /\ GoesOn(Tail(todo)) /\ todo # <<>> /\ Runs /\ Here.methods = <<>> /\ state = "session"
        /\ drive' = drive /\ seen' = seen
    BY <1>7 DEF Close, CloseFails, Runs, IInv, Process
  <2>2. seen = "none" /\ (Waiting \/ Finished)
    BY <1>4, <1>7, <2>1
  <2>3. CASE Waiting
    <3>1. \/ Here \in Lasts(job)
          \/ Here \in Asks /\ Shape(Tail(todo), Asks, Lasts(job))
      BY <2>1, <2>3, WaitingStep DEF Waiting
    <3>2. Here \notin Lasts(job)
      BY <2>1, <2>3, WaitingStep, LastCalled DEF Waiting, Calm
    <3>. QED
      BY <2>1, <2>2, <2>3, <3>1, <3>2 DEF GoesOn, Waiting, Singly
  <2>4. CASE Finished
    <3>1. Tail(todo) = <<>>
      <4>1. Len(todo) = 1 /\ todo \in Seq(SoundSessions)
        BY <2>1, <2>4 DEF Finished, IInv, Process
      <4>2. \A ss \in Seq(SoundSessions) : Len(ss) = 1 => Tail(ss) = <<>>
        <5>1. \A ss \in Seq(SoundSessions) :
                Len(ss) = 1 => Tail(ss) \in Seq(SoundSessions) /\ Len(Tail(ss)) = 0
          OBVIOUS
        <5>2. \A ss \in Seq(SoundSessions) : Len(ss) = 0 => ss = <<>>
          OBVIOUS
        <5>. QED
          BY <5>1, <5>2, Zenon
      <4>. QED
        BY <4>1, <4>2, Zenon
    <3>. QED
      BY <2>1, <2>2, <2>4, <3>1 DEF GoesOn, Finished, Singly
  <2>. QED
    BY <2>2, <2>3, <2>4
<1>8. CASE Call /\ ~Singly'
  <2>1. Runs /\ Here.methods # <<>> /\ state = "session"
    BY <1>8 DEF Call, Runs
  <2>2. seen = "none" /\ (Waiting \/ Finished)
    BY <1>0, <1>8, <2>1 DEF Call, Singly
  <2>3. Waiting
    BY <2>1, <2>2, <1>8 DEF Finished, Here, IInv, Process
  <2>4. seen' = "none" /\ (Waiting' \/ Finished')
    BY <1>0, <1>8, <2>2, <2>3, WaitingCalls
  <2>. QED
    BY <1>8, <2>4 DEF Singly
<1>. QED
  BY <1>1, <1>2, <1>3, <1>5, <1>6, <1>7, <1>8 DEF Next

-----------------------------------------------------------------------------
(* What any command does in a step                                         *)

CalledMethod == Head(Here.methods)
CalledRest   == [Here EXCEPT !.methods = Tail(@)]

Idles  ==
  /\ UNCHANGED <<drive, todo, seen, fault>>
  /\ \/ state' = state
     \/ state' = "session" /\ todo # <<>> /\ Here.sp # "none" /\ Admits(drive, Here)
Closes ==
  /\ state = "session" /\ Here.methods = <<>>
  /\ todo' = Tail(todo) /\ drive' = drive /\ seen' = seen /\ state' = "running"
Skips ==
  /\ state = "running" /\ Here.err \in {"skip", "list"}
  /\ todo' = Tail(todo) /\ drive' = drive /\ state' = "running"
  /\ seen' = IF Here.err = "list" /\ seen = "none" THEN "failed" ELSE seen
  /\ fault' \/ Here.sp = "none" \/ ~Admits(drive, Here)
Calls ==
  /\ state = "session" /\ Here.methods # <<>> /\ CalledMethod.op # "revert"
  /\ Permits(drive, Here.auth, CalledMethod) /\ drive' = Performed(drive, CalledMethod)
  /\ todo' = <<CalledRest>> \o Tail(todo)
  /\ seen' = IF Here.err = "list" THEN "one" ELSE seen
  /\ state' = state /\ Here.sp # "none"
Misses ==
  /\ state = "session" /\ Here.methods # <<>> /\ Here.err # "return"
  /\ todo' = (IF Here.err = "opal" THEN getMaxRangesOpal ELSE <<>>) \o Tail(todo)
  /\ \/ drive' = drive
     \/ Permits(drive, Here.auth, CalledMethod) /\ drive' = Performed(drive, CalledMethod)
  /\ fault' \/ (drive' = drive /\ ~Permits(drive, Here.auth, CalledMethod))
  /\ seen' = seen /\ state' = "running" /\ Here.sp # "none"

(* It goes on: ...                                                         *)
LEMMA RunningStep ==
  ASSUME IInv, Calm, [Next]_vars, Runs, Runs'
  PROVE  /\ job' = job /\ was' = was /\ (fault => fault')
         /\ Idles \/ (todo # <<>> /\ (Closes \/ Skips \/ Calls \/ Misses))
<1>0. \A result \in {"ok", "err", "killed"} : ~Ends(result)
  BY DEF Ends, Runs
<1>1. state = "session" => todo # <<>> /\ Here.sp # "none"
  BY DEF IInv, Process, Calm, Here
<1>2. CASE Refused \/ Busy \/ StartFails
  BY <1>0, <1>2 DEF Refused, Busy, StartFails, StartError, GoesOn, Skips
<1>3. CASE Call
  BY <1>0, <1>1, <1>3 DEF Call, Calls, CalledMethod, CalledRest
<1>4. CASE CallRefused
  BY <1>0, <1>1, <1>4 DEF CallRefused, CallError, GoesOn, Misses, CalledMethod
<1>5. CASE CallFails
  <2>1. /\ drive' = drive \/ (Permits(drive, Here.auth, CalledMethod)
                              /\ drive' = Performed(drive, CalledMethod))
        /\ fault' /\ state = "session" /\ Here.methods # <<>> /\ CallError
    BY <1>5 DEF CallFails, CalledMethod
  <2>. QED
    BY <1>0, <1>1, <2>1 DEF CallError, GoesOn, Misses
<1>6. CASE Close \/ CloseFails
  BY <1>1, <1>6 DEF Close, CloseFails, GoesOn, Closes
<1>7. CASE Start \/ SessionTimeout \/ UNCHANGED vars
  BY <1>7 DEF Start, SessionTimeout, vars, Idles
<1>8. CASE Launch \/ Return \/ Interrupt \/ PowerCycle
  BY <1>0, <1>8 DEF Launch, Return, Interrupt, PowerCycle
<1>. QED
  BY <1>2, <1>3, <1>4, <1>5, <1>6, <1>7, <1>8 DEF Next

(* ... it returns an error: ...                                            *)
LEMMA ErrStep ==
  ASSUME IInv, Calm, Next, Returns("err"), ~fault'
  PROVE  /\ drive' = drive /\ ~fault
         /\ \/ todo = <<>> /\ seen = "failed"
            \/ /\ todo # <<>> /\ state = "running" /\ Here.err \notin {"skip", "list"}
               /\ Here.sp = "none" \/ ~Admits(drive, Here)
            \/ /\ todo # <<>> /\ state = "session" /\ Here.sp # "none" /\ Here.err = "return"
               /\ Here.methods # <<>> /\ ~Permits(drive, Here.auth, CalledMethod)
<1>1. state = "session" => todo # <<>> /\ Here.sp # "none"
  BY DEF IInv, Process, Calm, Here
<1>2. state' = "err" /\ Runs
  BY DEF Returns
<1>3. CASE Return
  BY <1>2, <1>3 DEF Return, Ends
<1>4. CASE Refused \/ Busy \/ StartFails
  BY <1>2, <1>4 DEF Refused, Busy, StartFails, StartError, GoesOn
<1>5. CASE CallRefused \/ CallFails
  BY <1>1, <1>2, <1>5 DEF CallRefused, CallFails, CallError, GoesOn, CalledMethod
<1>6. CASE Call
  BY <1>2, <1>6 DEF Call, Ends
<1>7. CASE Launch \/ Start \/ Close \/ CloseFails \/ SessionTimeout
  BY <1>2, <1>7 DEF Launch, Start, Close, CloseFails, SessionTimeout, GoesOn, Runs
<1>8. CASE Interrupt \/ PowerCycle
  BY <1>2, <1>8 DEF Interrupt, PowerCycle, Ends
<1>. QED
  BY <1>3, <1>4, <1>5, <1>6, <1>7, <1>8 DEF Next

(* ... or success.                                                         *)
LEMMA OkStep ==
  ASSUME IInv, Calm, Next, Returns("ok")
  PROVE  /\ fault' = fault
         /\ \/ state = "running" /\ todo = <<>> /\ seen # "failed" /\ drive' = drive
            \/ /\ state = "session" /\ todo # <<>> /\ Here.methods # <<>>
               /\ CalledMethod.op = "revert" /\ drive' = Performed(drive, CalledMethod)
<1>1. state = "session" => todo # <<>>
  BY DEF IInv, Process
<1>2. state' = "ok" /\ Runs
  BY DEF Returns
<1>3. CASE Return
  BY <1>2, <1>3 DEF Return, Ends
<1>4. CASE Refused \/ Busy \/ StartFails \/ CallRefused \/ CallFails
  BY <1>2, <1>4 DEF Refused, Busy, StartFails, StartError, GoesOn, CallRefused, CallFails,
     CallError, Ends
<1>5. CASE Call
  BY <1>1, <1>2, <1>5 DEF Call, Ends, CalledMethod
<1>6. CASE Launch \/ Start \/ Close \/ CloseFails \/ SessionTimeout
  BY <1>2, <1>6 DEF Launch, Start, Close, CloseFails, SessionTimeout, GoesOn, Runs
<1>7. CASE Interrupt \/ PowerCycle
  BY <1>2, <1>7 DEF Interrupt, PowerCycle, Ends
<1>. QED
  BY <1>3, <1>4, <1>5, <1>6, <1>7 DEF Next

(* A command comes to run by being launched.                               *)
LEMMA LaunchRuns ==
  ASSUME [Next]_vars, ~Runs, Runs'
  PROVE  Launch
BY DEF Next, vars, Runs, Return, Start, Refused, Busy, StartFails, Call, CallRefused, CallFails,
   Close, CloseFails, Interrupt, SessionTimeout, PowerCycle, Ends

(* The sessions left to do, step by step.                                  *)
OpalAsk == Head(getMaxRangesOpal)

LEMMA OpalAskIs ==
  /\ OpalAsk = [sp |-> "Locking", auth |-> Anybody, pin |-> Raw(Empty),
                methods |-> <<[op |-> "infoOpal"]>>, err |-> "return"]
  /\ OpalAsk \in SoundSessions /\ OpalAsk \in Asks /\ getMaxRangesOpal = <<OpalAsk>>
<1>1. OpalAsk \in Asks /\ getMaxRangesOpal = <<OpalAsk>>
  BY AskingAsks DEF OpalAsk
<1>. QED
  BY <1>1 DEF OpalAsk, getMaxRangesOpal, Locking, Session, Asks

LEMMA LeftToDo ==
  ASSUME IInv, todo # <<>>
  PROVE  /\ Here \in SoundSessions /\ Tail(todo) \in Seq(SoundSessions)
         /\ Range(todo) = {Here} \cup Range(Tail(todo))
         /\ \A R : Ordered(todo, R) =>
              Ordered(Tail(todo), R) /\ \A y \in Range(Tail(todo)) : <<Here, y>> \in R
         /\ Calls =>
              /\ CalledRest \in SoundSessions /\ Range(todo') = {CalledRest} \cup Range(Tail(todo))
              /\ \A R : Ordered(Tail(todo), R)
                        /\ (\A y \in Range(Tail(todo)) : <<CalledRest, y>> \in R) =>
                          Ordered(todo', R)
         /\ Misses /\ Here.err # "opal" => todo' = Tail(todo)
         /\ Misses /\ Here.err = "opal" =>
              /\ Range(todo') = {OpalAsk} \cup Range(Tail(todo))
              /\ \A R : Ordered(Tail(todo), R)
                        /\ (\A y \in Range(Tail(todo)) : <<OpalAsk, y>> \in R) =>
                          Ordered(todo', R)
<1>1. todo \in Seq(SoundSessions)
  BY DEF IInv, Process
<1>2. /\ Here \in SoundSessions /\ Tail(todo) \in Seq(SoundSessions)
      /\ Range(todo) = {Here} \cup Range(Tail(todo))
      /\ \A R : Ordered(todo, R) =>
           Ordered(Tail(todo), R) /\ \A y \in Range(Tail(todo)) : <<Here, y>> \in R
  BY <1>1, Parts DEF Here
<1>3. ASSUME Calls
      PROVE  /\ CalledRest \in SoundSessions
             /\ Range(todo') = {CalledRest} \cup Range(Tail(todo))
             /\ \A R : Ordered(Tail(todo), R)
                       /\ (\A y \in Range(Tail(todo)) : <<CalledRest, y>> \in R) =>
                         Ordered(todo', R)
  <2>1. todo' = <<CalledRest>> \o Tail(todo) /\ Here.methods # <<>>
    BY <1>3 DEF Calls
  <2>2. Tail(Here.methods) \in Seq(SoundMethods) /\ Tail(Here.methods) \in Seq(Methods)
    BY <2>1, HeadMethodSound DEF IInv, SoundMethods
  <2>3. CalledRest \in SoundSessions
    BY <1>2, <2>2 DEF CalledRest, SoundSessions, Sessions
  <2>. QED
    BY <1>2, <2>1, <2>3, OneMore
<1>4. ASSUME Misses, Here.err # "opal"
      PROVE  todo' = Tail(todo)
  <2>1. \A ss \in Seq(SoundSessions) : <<>> \o ss = ss
    OBVIOUS
  <2>. QED
    BY <1>2, <1>4, <2>1 DEF Misses
<1>5. ASSUME Misses, Here.err = "opal"
      PROVE  /\ Range(todo') = {OpalAsk} \cup Range(Tail(todo))
             /\ \A R : Ordered(Tail(todo), R)
                       /\ (\A y \in Range(Tail(todo)) : <<OpalAsk, y>> \in R) =>
                         Ordered(todo', R)
  <2>1. todo' = <<OpalAsk>> \o Tail(todo)
    BY <1>5, OpalAskIs DEF Misses
  <2>2. OpalAsk \in SoundSessions
    BY OpalAskIs
  <2>. QED
    BY <1>2, <2>1, <2>2, OneMore
<1>. QED
  BY <1>2, <1>3, <1>4, <1>5

-----------------------------------------------------------------------------
(* setPassword asks for nothing but the MSID.                              *)
Reading ==
  Runs /\ job.cmd = "setPassword" =>
    \A s \in Range(todo) :
      /\ s.err = "return"
      /\ s.methods # <<>> => Head(s.methods).op \in {"read", "setPIN"} /\ Tail(s.methods) = <<>>

LEMMA setPasswordReads ==
  ASSUME NEW j \in JobRecords, j.cmd = "setPassword", NEW s \in Range(Handler(j))
  PROVE  /\ s.err = "return" /\ Head(s.methods).op \in {"read", "setPIN"}
         /\ Tail(s.methods) = <<>>
<1>. DEFINE m   == SetPIN(j.user, OrMSID(j, j.new))
            ask == [sp |-> "Admin", auth |-> Anybody, pin |-> Raw(Empty), methods |-> <<Read>>,
                    err |-> "return"]
            set == [sp |-> "Locking", auth |-> j.user, pin |-> OrMSID(j, j.pw),
                    methods |-> <<m>>, err |-> "return"]
<1>1. Handler(j) = DefaultFor({j.pw, j.new}) \o <<set>>
  BY DEF Handler, Ignored, Rejected, setPassword, Locking, Session
<1>2. DefaultFor({j.pw, j.new}) \in {<<ask>>, <<>>}
  BY DEF DefaultFor, getDefaultPassword, Session
<1>3. s \in {ask, set}
  <2>. HIDE DEF ask, set
  <2>. DEFINE S == {ask, set}
  <2>1. /\ <<ask>> \in Seq(S) /\ <<set>> \in Seq(S) /\ <<>> \in Seq(S)
        /\ Range(<<ask>>) = {ask} /\ Range(<<set>>) = {set} /\ Range(<<>>) = {}
    <3>. HIDE DEF ask, set
    <3>. QED
      BY Single
  <2>. DEFINE first == DefaultFor({j.pw, j.new})
              last  == <<set>>
  <2>. HIDE DEF S, ask, set
  <2>2. Range(Handler(j)) = Range(first) \cup Range(last)
    <3>1. first \in Seq(S) /\ last \in Seq(S) /\ Handler(j) = first \o last
      BY <1>1, <1>2, <2>1
    <3>. HIDE DEF first, last
    <3>. QED
      BY <3>1, Joined
  <2>. QED
    BY <1>2, <2>1, <2>2
<1>4. m.op = "setPIN" /\ Read.op = "read"
  BY DEF SetPIN, Read
<1>. QED
  <2>. HIDE DEF m
  <2>1. \A x : Head(<<x>>) = x /\ Tail(<<x>>) = <<>>
    OBVIOUS
  <2>2. /\ ask.err = "return" /\ set.err = "return"
        /\ ask.methods = <<Read>> /\ set.methods = <<m>>
    OBVIOUS
  <2>. HIDE DEF ask, set
  <2>. QED
    BY <1>3, <1>4, <2>1, <2>2, Zenon

LEMMA ReadingStep == IInv /\ Calm /\ Reading /\ [Next]_vars => Reading'
<1>. SUFFICES ASSUME IInv, Calm, Reading, [Next]_vars, Runs', job'.cmd = "setPassword",
                     NEW s \in Range(todo')
              PROVE  /\ s.err = "return"
                     /\ s.methods # <<>> =>
                          Head(s.methods).op \in {"read", "setPIN"} /\ Tail(s.methods) = <<>>
  BY DEF Reading
<1>1. CASE ~Runs
  <2>1. Launch
    BY <1>1, LaunchRuns
  <2>2. job' \in JobRecords /\ todo' = Handler(job')
    BY <2>1, JobTyped DEF Launch
  <2>. QED
    BY <2>2, setPasswordReads
<1>2. CASE Runs
  <2>1. job' = job /\ (Idles \/ (todo # <<>> /\ (Closes \/ Skips \/ Calls \/ Misses)))
    BY <1>2, RunningStep
  <2>2. \A x \in Range(todo) :
          /\ x.err = "return"
          /\ x.methods # <<>> =>
               Head(x.methods).op \in {"read", "setPIN"} /\ Tail(x.methods) = <<>>
    BY <1>2, <2>1 DEF Reading
  <2>3. CASE Idles
    BY <2>2, <2>3 DEF Idles
  <2>4. CASE todo # <<>> /\ (Closes \/ Skips)
    BY <2>2, <2>4, LeftToDo DEF Closes, Skips
  <2>5. CASE todo # <<>> /\ Calls
    <3>1. s \in Range(Tail(todo)) \/ s = CalledRest
      BY <2>5, LeftToDo
    <3>2. CalledRest.methods = Tail(Here.methods) /\ CalledRest.err = Here.err
      BY <2>5, LeftToDo DEF CalledRest, SoundSessions, Sessions
    <3>. QED
      BY <2>2, <2>5, <3>1, <3>2, LeftToDo DEF Calls
  <2>6. CASE todo # <<>> /\ Misses
    BY <2>2, <2>6, LeftToDo DEF Misses
  <2>. QED
    BY <2>1, <2>3, <2>4, <2>5, <2>6
<1>. QED
  BY <1>1, <1>2

LEMMA AskedStep ==
  ASSUME Here \in Asks
  PROVE  /\ Calls => drive' = drive /\ CalledRest \in Asks /\ CalledRest.methods = <<>>
         /\ Misses => drive' = drive
         /\ Here.sp # "none" /\ Admits(drive, Here) /\ Here.err \in {"return", "opal"}
BY AskCalled DEF Calls, Misses, CalledMethod, CalledRest, Asks, Admits

Refusals == {s \in SoundSessions : s.sp = "none" /\ s.err = "return" /\ s.methods = <<>>}

LEMMA AskPieces ==
  /\ \A pws : /\ DefaultFor(pws) \in Seq(SoundSessions) /\ Range(DefaultFor(pws)) \subseteq Asks
              /\ \A R : Ordered(DefaultFor(pws), R)
  /\ getDefaultPassword \in Seq(SoundSessions) /\ Range(getDefaultPassword) \subseteq Asks
  /\ \A R : Ordered(getDefaultPassword, R)
  /\ getMaxRanges \in Seq(SoundSessions) /\ Range(getMaxRanges) \subseteq Asks
  /\ \A R : Ordered(getMaxRanges, R)
  /\ Invalid \in Seq(SoundSessions) /\ Range(Invalid) \subseteq Refusals /\ Range(Invalid) # {}
  /\ \A R : Ordered(Invalid, R)
<1>. DEFINE Piece(ss, K) ==
         /\ ss \in Seq(SoundSessions) /\ Range(ss) \subseteq K /\ Range(ss) # {}
         /\ \A R : Ordered(ss, R)
<1>1. \A x \in SoundSessions : Range(<<x>>) = {x} /\ <<x>> \in Seq(SoundSessions)
                               /\ \A R : Ordered(<<x>>, R)
  BY Single
<1>2. /\ Head(Invalid) \in SoundSessions /\ Invalid = <<Head(Invalid)>>
      /\ Head(Invalid).sp = "none" /\ Head(Invalid).err = "return"
      /\ Head(Invalid).methods = <<>>
  BY AskingSound DEF Invalid, Session
<1>3. Piece(Invalid, Refusals)
  <2>1. Head(Invalid) \in Refusals
    BY <1>2 DEF Refusals
  <2>. QED
    BY <1>1, <1>2, <2>1
<1>4. /\ getDefaultPassword = <<Head(getDefaultPassword)>> /\ getMaxRanges = <<Head(getMaxRanges)>>
  BY DEF getDefaultPassword, getMaxRanges, Session
<1>5. Head(getDefaultPassword) \in Asks /\ Head(getMaxRanges) \in Asks
  BY <1>4, AskingAsks
<1>6. Asks \subseteq SoundSessions
  BY DEF Asks
<1>7. Piece(getDefaultPassword, Asks) /\ Piece(getMaxRanges, Asks)
  <2>1. \A x \in Asks : Piece(<<x>>, Asks)
    BY <1>1, <1>6
  <2>. HIDE DEF Piece
  <2>. QED
    BY <1>4, <1>5, <2>1, Zenon
<1>. HIDE DEF Piece
<1>8. ASSUME NEW pws
      PROVE  DefaultFor(pws) = getDefaultPassword \/ DefaultFor(pws) = <<>>
  BY DEF DefaultFor
<1>. USE DEF Piece
<1>. QED
  BY <1>3, <1>7, <1>8, Single

-----------------------------------------------------------------------------
(* The commands that list bands                                            *)

Lists    == {s \in SoundSessions :
               s.err = "list" /\ s.sp = "Locking" /\ s.methods \in {<<>>, <<Read>>}}

Listing ==
  Runs /\ job.cmd \in {"listLockingRanges", "listLockingRange"} =>
    /\ drive = was
    /\ Range(todo) \subseteq Asks \cup Refusals \cup Lists
    /\ \/ fault \/ seen # "none"
       \/ \E s \in Range(todo) : s.sp = "none" \/ (s \in Lists /\ s.methods # <<>>)

LEMMA ListCalled ==
  ASSUME Here \in Lists
  PROVE  /\ Calls => drive' = drive /\ CalledRest \in Lists
         /\ Misses => drive' = drive /\ fault'
         /\ Here.sp # "none"
<1>1. Here.methods # <<>> => /\ CalledMethod = Read /\ CalledRest.methods = <<>>
                             /\ CalledRest.err = "list" /\ CalledRest.sp = "Locking"
                             /\ CalledRest \in SoundSessions
  <2>1. Here.methods # <<>> => CalledMethod = Read /\ Tail(Here.methods) = <<>>
    <3>1. Here.methods \in {<<>>, <<Read>>}
      BY DEF Lists
    <3>2. \A x : Head(<<x>>) = x /\ Tail(<<x>>) = <<>>
      OBVIOUS
    <3>. QED
      BY <3>1, <3>2, Zenon DEF CalledMethod
  <2>. QED
    BY <2>1 DEF Lists, CalledRest, SoundSessions, Sessions
<1>2. \A d : Performed(d, Read) = d /\ \A a : Permits(d, a, Read)
  BY DEF Performed, Permits, Read
<1>. QED
  BY <1>1, <1>2 DEF Calls, Misses, Lists

LEMMA ListingKeeps ==
  ASSUME IInv, Calm, Listing, [Next]_vars, Runs, Runs'
  PROVE  Listing'
<1>. SUFFICES ASSUME job'.cmd \in {"listLockingRanges", "listLockingRange"}
              PROVE  /\ drive' = was'
                     /\ Range(todo') \subseteq Asks \cup Refusals \cup Lists
                     /\ \/ fault' \/ seen' # "none"
                        \/ \E s \in Range(todo') :
                             s.sp = "none" \/ (s \in Lists /\ s.methods # <<>>)
  BY DEF Listing
<1>1. /\ job' = job /\ was' = was /\ (fault => fault')
      /\ Idles \/ (todo # <<>> /\ (Closes \/ Skips \/ Calls \/ Misses))
  BY RunningStep
<1>2. /\ drive = was
      /\ Range(todo) \subseteq Asks \cup Refusals \cup Lists
      /\ \/ fault \/ seen # "none"
         \/ \E s \in Range(todo) : s.sp = "none" \/ (s \in Lists /\ s.methods # <<>>)
  BY <1>1 DEF Listing
<1>3. CASE Idles
  BY <1>1, <1>2, <1>3 DEF Idles
<1>. DEFINE Owed(ss) == \E s \in Range(ss) : s.sp = "none" \/ (s \in Lists /\ s.methods # <<>>)
<1>4. ASSUME todo # <<>>
      PROVE  /\ Range(todo) = {Here} \cup Range(Tail(todo))
             /\ Range(Tail(todo)) \subseteq Asks \cup Refusals \cup Lists
             /\ Here \in Asks \/ Here \in Refusals \/ Here \in Lists
             /\ \/ fault \/ seen # "none" \/ Owed(Tail(todo)) \/ Here.sp = "none"
                \/ Here \in Lists /\ Here.methods # <<>>
  BY <1>2, <1>4, LeftToDo
<1>5. CASE todo # <<>> /\ Closes
  <2>1. Here.sp # "none"
    BY <1>5 DEF Calm, Closes, Here, IInv, Process
  <2>. QED
    BY <1>1, <1>2, <1>4, <1>5, <2>1 DEF Closes
<1>6. CASE todo # <<>> /\ Skips
  <2>1. Here \in Lists
    BY <1>4, <1>6 DEF Skips, Asks, Refusals
  <2>2. seen' # "none"
    BY <1>6, <2>1 DEF Skips, Lists
  <2>. QED
    BY <1>1, <1>2, <1>4, <1>6, <2>2 DEF Skips
<1>7. CASE todo # <<>> /\ Calls
  <2>1. Range(todo') = {CalledRest} \cup Range(Tail(todo)) /\ Here.sp # "none"
    BY <1>7, LeftToDo DEF Calls
  <2>2. seen' = IF Here.err = "list" THEN "one" ELSE seen
    BY <1>7 DEF Calls
  <2>3. CASE Here \in Asks
    <3>1. Here.err # "list"
      BY <2>3 DEF Asks
    <3>. QED
      BY <1>1, <1>2, <1>4, <1>7, <2>1, <2>2, <2>3, <3>1, AskedStep DEF Lists
  <2>4. CASE Here \in Lists
    BY <1>1, <1>2, <1>4, <1>7, <2>1, <2>2, <2>4, ListCalled DEF Lists
  <2>. QED
    BY <1>4, <1>7, <2>1, <2>3, <2>4 DEF Refusals
<1>8. CASE todo # <<>> /\ Misses
  <2>1. Here.err # "return" /\ seen' = seen /\ Here.sp # "none"
    BY <1>8 DEF Misses
  <2>2. CASE Here \in Asks
    <3>1. Range(todo') = {OpalAsk} \cup Range(Tail(todo)) /\ OpalAsk \in Asks
      BY <1>8, <2>1, <2>2, LeftToDo, OpalAskIs DEF Asks
    <3>2. Here \notin Lists
      BY <2>2 DEF Asks, Lists
    <3>. QED
      BY <1>1, <1>2, <1>4, <1>8, <2>1, <2>2, <3>1, <3>2, AskedStep
  <2>3. CASE Here \in Lists
    <3>1. todo' = Tail(todo)
      BY <1>8, <2>3, LeftToDo DEF Lists
    <3>. QED
      BY <1>1, <1>2, <1>4, <1>8, <2>3, <3>1, ListCalled
  <2>. QED
    BY <1>4, <1>8, <2>1, <2>2, <2>3 DEF Refusals
<1>. QED
  BY <1>1, <1>3, <1>5, <1>6, <1>7, <1>8

LEMMA ListingStarts ==
  ASSUME NEW j \in JobRecords, NEW n \in {-1} \cup Bands \cup Named
  PROVE  /\ Range(listLockingRanges(j, n)) \subseteq Asks \cup Refusals \cup Lists
         /\ \E s \in Range(listLockingRanges(j, n)) :
              s.sp = "none" \/ (s \in Lists /\ s.methods # <<>>)
<1>. DEFINE h(b) == Head(Session("Locking", Master(b), OrMSID(j, j.pw), <<Read>>, "list"))
            bands == Chosen(n)
            lists == [i \in 1..Len(bands) |-> h(bands[i])]
            last  == IF n = -1 /\ MaxRanges >= 1024 THEN Invalid ELSE lists
            asked == IF n = -1 THEN getMaxRanges ELSE <<>>
            first == DefaultFor({j.pw})
<1>1. OrMSID(j, j.pw) \in Pins /\ <<Read>> \in Seq(SoundMethods)
  BY PinsTyped, MethodsSound DEF JobRecords, Read
<1>2. ASSUME NEW b \in Bands \cup Named
      PROVE  h(b) \in SoundSessions /\ h(b) \in Lists /\ h(b).methods # <<>>
  <2>1. h(b) \in SoundSessions
    BY <1>1, AuthoritiesClaimed, SessionSound
  <2>2. h(b) = [sp |-> "Locking", auth |-> Master(b), pin |-> OrMSID(j, j.pw),
                methods |-> <<Read>>, err |-> "list"]
    BY DEF Session
  <2>3. h(b).methods = <<Read>> /\ h(b).sp = "Locking" /\ h(b).err = "list"
    BY <2>2
  <2>. HIDE DEF h
  <2>4. h(b).methods \in {<<>>, <<Read>>} /\ h(b).methods # <<>>
    BY <2>3
  <2>. QED
    BY <2>1, <2>3, <2>4, Zenon DEF Lists
<1>3. bands \in Seq(Bands \cup Named) /\ Len(bands) \in Nat /\ Len(bands) >= 1
  <2>1. Len(<<n>>) = 1 /\ Len(BandSeq) >= 1
    BY BandAssumption
  <2>. QED
    BY <2>1, ChosenTyped DEF Chosen
<1>4. listLockingRanges(j, n) = (first \o asked) \o last
  BY DEF listLockingRanges
<1>. HIDE DEF h, bands
<1>5. /\ lists \in Seq(SoundSessions) /\ Range(lists) \subseteq Lists
      /\ \E s \in Range(lists) : s \in Lists /\ s.methods # <<>>
  <2>1. \A i \in 1..Len(bands) : bands[i] \in Bands \cup Named
    BY <1>3
  <2>2. DOMAIN lists = 1..Len(bands) /\ 1 \in 1..Len(bands)
    BY <1>3
  <2>3. lists \in Seq(SoundSessions)
    BY <1>2, <1>3
  <2>. QED
    BY <1>2, <2>1, <2>2, <2>3 DEF Range
<1>. HIDE DEF lists
<1>6. /\ last \in Seq(SoundSessions) /\ Range(last) \subseteq Refusals \cup Lists
      /\ \E s \in Range(last) : s.sp = "none" \/ (s \in Lists /\ s.methods # <<>>)
  BY <1>5, AskPieces DEF Refusals
<1>7. asked \in Seq(SoundSessions) /\ Range(asked) \subseteq Asks
  BY AskPieces, Single
<1>8. first \in Seq(SoundSessions) /\ Range(first) \subseteq Asks
  BY AskPieces
<1>. HIDE DEF first, asked, last
<1>9. first \o asked \in Seq(SoundSessions) /\ Range(first \o asked) \subseteq Asks
  BY <1>7, <1>8, Joined
<1>10. Range(listLockingRanges(j, n)) = Range(first \o asked) \cup Range(last)
  <2>. DEFINE f == first \o asked
  <2>1. f \in Seq(SoundSessions) /\ listLockingRanges(j, n) = f \o last
    BY <1>4, <1>9
  <2>. HIDE DEF f
  <2>2. Range(listLockingRanges(j, n)) = Range(f) \cup Range(last)
    BY <1>6, <2>1, Joined
  <2>. QED
    BY <2>2 DEF f
<1>. QED
  BY <1>6, <1>9, <1>10

LEMMA ListingStep == IInv /\ Calm /\ Listing /\ [Next]_vars => Listing'
<1>. SUFFICES ASSUME IInv, Calm, Listing, [Next]_vars, Runs', ~Runs,
                     job'.cmd \in {"listLockingRanges", "listLockingRange"}
              PROVE  Listing'
  BY ListingKeeps DEF Listing
<1>1. Launch
  BY LaunchRuns
<1>2. job' \in JobRecords /\ todo' = Handler(job') /\ was' = drive /\ drive' = drive
  BY <1>1, JobTyped DEF Launch
<1>3. job'.band \in Bands \cup Named
  BY <1>2 DEF JobRecords
<1>4. \E n \in {-1} \cup Bands \cup Named : Handler(job') = listLockingRanges(job', n)
  BY <1>3 DEF Handler, Ignored, Rejected
<1>. QED
  BY <1>2, <1>4, ListingStarts DEF Listing

-----------------------------------------------------------------------------
(* setBandsEnabled                                                         *)

Enable(b)  == [op |-> "enable", band |-> b]
Enables(j) == {s \in SoundSessions :
                 /\ s.err = "return" /\ s.sp = "Locking"
                 /\ s.auth = EraseMaster /\ s.pin = OrMSID(j, j.pw)
                 /\ s.methods = <<>> \/ \E b \in Bands : s.methods = <<Enable(b)>>}

(* Nothing is asked any more once the first band is enabled.               *)
EnablesLast(j) ==
  {p \in SoundSessions \X SoundSessions : p[1] \in Enables(j) => p[2] \in Enables(j)}

Enabling ==
  Runs /\ job.cmd = "setBandsEnabled" =>
    /\ seen = "none"
    /\ drive = [was EXCEPT !.enabled = drive.enabled]
    /\ Range(todo) \subseteq Asks \cup Refusals \cup Enables(job)
    /\ Ordered(todo, EnablesLast(job))
    /\ drive # was =>
         Range(todo) \subseteq Enables(job) /\ drive.pin[EraseMaster] = OrMSID(job, job.pw)
    /\ state = "session" /\ Here \in Enables(job) =>
         drive.pin[EraseMaster] = OrMSID(job, job.pw)
    /\ \A b \in Bands :
         b \in drive.enabled \/ \E s \in Range(todo) : s.sp = "none" \/ s.methods = <<Enable(b)>>

LEMMA EnableCalled ==
  ASSUME NEW j, Here \in Enables(j), drive \in Drives, Calls
  PROVE  \E b \in Bands :
           /\ Here.methods = <<Enable(b)>>
           /\ drive' = [drive EXCEPT !.enabled = @ \cup {b}]
           /\ CalledRest \in Enables(j) /\ CalledRest.methods = <<>>
<1>1. PICK b \in Bands : Here.methods = <<Enable(b)>>
  BY DEF Calls, Enables
<1>2. CalledMethod = Enable(b) /\ Tail(Here.methods) = <<>>
  <2>1. \A x : Head(<<x>>) = x /\ Tail(<<x>>) = <<>>
    OBVIOUS
  <2>. QED
    BY <1>1, <2>1, Zenon DEF CalledMethod
<1>3. Performed(drive, Enable(b)) = [drive EXCEPT !.enabled = @ \cup {b}]
  BY DEF Performed, Enable
<1>4. CalledRest \in Enables(j) /\ CalledRest.methods = <<>>
  <2>1. Here \in SoundSessions /\ <<>> \in Seq(SoundMethods) /\ <<>> \in Seq(Methods)
    BY Single DEF Enables
  <2>2. CalledRest = [Here EXCEPT !.methods = <<>>]
    BY <1>2 DEF CalledRest
  <2>3. CalledRest \in SoundSessions /\ CalledRest.methods = <<>>
    BY <2>1, <2>2 DEF SoundSessions, Sessions
  <2>4. /\ CalledRest.err = Here.err /\ CalledRest.sp = Here.sp
        /\ CalledRest.auth = Here.auth /\ CalledRest.pin = Here.pin
    BY <2>1, <2>2 DEF SoundSessions, Sessions
  <2>. QED
    BY <2>3, <2>4 DEF Enables
<1>. QED
  BY <1>1, <1>2, <1>3, <1>4 DEF Calls

LEMMA EnablingKeeps ==
  ASSUME IInv, Calm, Enabling, [Next]_vars, Runs, Runs'
  PROVE  Enabling'
<1>. SUFFICES ASSUME job'.cmd = "setBandsEnabled" PROVE Enabling'
  BY DEF Enabling
<1>. DEFINE pin    == OrMSID(job, job.pw)
            E      == Enables(job)
            R      == EnablesLast(job)
            Due(b) == \E s \in Range(todo) : s.sp = "none" \/ s.methods = <<Enable(b)>>
            More(b) == \E s \in Range(Tail(todo)) : s.sp = "none" \/ s.methods = <<Enable(b)>>
<1>1. /\ job' = job /\ was' = was
      /\ Idles \/ (todo # <<>> /\ (Closes \/ Skips \/ Calls \/ Misses))
  BY RunningStep
<1>2. /\ seen = "none" /\ drive = [was EXCEPT !.enabled = drive.enabled]
      /\ Range(todo) \subseteq Asks \cup Refusals \cup E
      /\ Ordered(todo, R)
      /\ drive # was => Range(todo) \subseteq E /\ drive.pin[EraseMaster] = pin
      /\ state = "session" /\ Here \in E => drive.pin[EraseMaster] = pin
      /\ \A b \in Bands : b \in drive.enabled \/ Due(b)
  BY <1>1 DEF Enabling
<1>3. E' = E /\ R' = R /\ pin' = pin /\ drive \in Drives /\ was \in Drives
  BY <1>1 DEF IInv, Machine, Process
<1>. SUFFICES /\ seen' = "none" /\ drive' = [was EXCEPT !.enabled = drive'.enabled]
              /\ Range(todo') \subseteq Asks \cup Refusals \cup E
              /\ Ordered(todo', R)
              /\ drive' # was => Range(todo') \subseteq E /\ drive'.pin[EraseMaster] = pin
              /\ state' = "session" /\ Here' \in E => drive'.pin[EraseMaster] = pin
              /\ \A b \in Bands : b \in drive'.enabled \/ Due(b)'
  BY <1>1, <1>3 DEF Enabling
<1>4. ASSUME todo # <<>>
      PROVE  /\ Here \in SoundSessions /\ Tail(todo) \in Seq(SoundSessions)
             /\ Range(todo) = {Here} \cup Range(Tail(todo))
             /\ Range(Tail(todo)) \subseteq Asks \cup Refusals \cup E
             /\ Here \in Asks \/ Here \in Refusals \/ Here \in E
             /\ Ordered(Tail(todo), R) /\ \A y \in Range(Tail(todo)) : <<Here, y>> \in R
             /\ Here \in E => Range(Tail(todo)) \subseteq E
             /\ \A y \in Range(Tail(todo)) : y \in SoundSessions
             /\ \A b \in Bands : \/ b \in drive.enabled \/ More(b)
                                 \/ Here.sp = "none" \/ Here.methods = <<Enable(b)>>
  <2>1. /\ Here \in SoundSessions /\ Tail(todo) \in Seq(SoundSessions)
        /\ Range(todo) = {Here} \cup Range(Tail(todo))
        /\ Ordered(Tail(todo), R) /\ \A y \in Range(Tail(todo)) : <<Here, y>> \in R
    BY <1>2, <1>4, LeftToDo
  <2>2. \A y \in Range(Tail(todo)) : y \in SoundSessions
    BY <2>1 DEF Range
  <2>3. Here \in E => Range(Tail(todo)) \subseteq E
    BY <2>1 DEF EnablesLast
  <2>. QED
    BY <1>2, <2>1, <2>2, <2>3
<1>5. CASE Idles
  <2>1. UNCHANGED <<drive, todo, seen>> /\ Here' = Here
    BY <1>5 DEF Idles, Here
  <2>2. ASSUME state' = "session", Here \in E PROVE drive.pin[EraseMaster] = pin
    <3>1. CASE state' = state
      BY <1>2, <2>2, <3>1
    <3>2. CASE state' # state
      <4>1. Admits(drive, Here)
        BY <1>5, <3>2 DEF Idles
      <4>2. Here.auth = EraseMaster /\ Here.pin = pin /\ EraseMaster # Anybody
        BY <2>2 DEF Enables, EraseMaster, Anybody
      <4>. QED
        BY <4>1, <4>2 DEF Admits
    <3>. QED
      BY <3>1, <3>2
  <2>. HIDE DEF E, R, pin
  <2>. QED
    BY <1>1, <1>2, <2>1, <2>2
<1>6. CASE todo # <<>> /\ Closes
  <2>1. Here.sp # "none" /\ Here.methods = <<>> /\ todo' = Tail(todo)
        /\ UNCHANGED <<drive, seen>> /\ state' # "session"
    BY <1>6 DEF Calm, Closes, Here, IInv, Process
  <2>2. \A b : Here.methods # <<Enable(b)>>
    BY <2>1
  <2>. HIDE DEF E, R, pin
  <2>. QED
    BY <1>2, <1>4, <1>6, <2>1, <2>2
<1>7. CASE todo # <<>> /\ Skips
  BY <1>4, <1>7 DEF Skips, Asks, Refusals, Enables
<1>8. CASE todo # <<>> /\ Calls
  <2>1. /\ Here.sp # "none" /\ Here.methods # <<>> /\ state' = state /\ state = "session"
        /\ Range(todo') = {CalledRest} \cup Range(Tail(todo))
        /\ Ordered(Tail(todo), R) /\ (\A y \in Range(Tail(todo)) : <<CalledRest, y>> \in R)
             => Ordered(todo', R)
        /\ CalledRest \in SoundSessions
    BY <1>8, LeftToDo DEF Calls
  <2>2. seen' = seen
    BY <1>4, <1>8 DEF Calls, Asks, Refusals, Enables
  <2>3. Here' = CalledRest
    BY <1>4, <1>8 DEF Calls, Here
  <2>4. CASE Here \in Asks
    <3>1. drive' = drive /\ CalledRest \in Asks /\ CalledRest.methods = <<>>
      BY <1>8, <2>4, AskedStep
    <3>2. CalledRest \notin E /\ Here \notin E
      BY <2>4, <3>1 DEF Asks, Enables, EraseMaster, Anybody
    <3>3. \A y \in Range(Tail(todo)) : <<CalledRest, y>> \in R
      BY <1>4, <1>8, <2>1, <3>2 DEF EnablesLast
    <3>4. drive = was
      BY <1>2, <1>4, <1>8, <3>2
    <3>5. \A b : Here.methods # <<Enable(b)>>
      BY <2>4, AskOnly DEF Enable
    <3>. HIDE DEF E, R, pin
    <3>. QED
      BY <1>2, <1>4, <1>8, <2>1, <2>2, <2>3, <3>1, <3>2, <3>3, <3>4, <3>5
  <2>5. CASE Here \in E
    <3>1. PICK b \in Bands :
            /\ Here.methods = <<Enable(b)>>
            /\ drive' = [drive EXCEPT !.enabled = @ \cup {b}]
            /\ CalledRest \in E /\ CalledRest.methods = <<>>
      BY <1>3, <1>8, <2>5, EnableCalled
    <3>2. \A y \in Range(Tail(todo)) : <<CalledRest, y>> \in R
      BY <1>4, <1>8, <2>1, <2>5, <3>1 DEF EnablesLast
    <3>3. /\ drive' = [was EXCEPT !.enabled = drive'.enabled] /\ drive'.pin = drive.pin
          /\ drive'.enabled = drive.enabled \cup {b}
      BY <1>2, <1>3, <3>1 DEF Drives
    <3>4. drive.pin[EraseMaster] = pin
      BY <1>2, <2>1, <2>5
    <3>5. \A c : Here.methods = <<Enable(c)>> => c = b
      <4>1. \A x, y : <<x>> = <<y>> => x = y
        OBVIOUS
      <4>. QED
        BY <3>1, <4>1 DEF Enable
    <3>. HIDE DEF E, R, pin
    <3>. QED
      BY <1>2, <1>4, <1>8, <2>1, <2>2, <2>5, <3>1, <3>2, <3>3, <3>4, <3>5
  <2>. QED
    BY <1>4, <1>8, <2>1, <2>4, <2>5 DEF Refusals
<1>9. CASE todo # <<>> /\ Misses
  <2>1. Here.err # "return" /\ seen' = seen /\ Here.sp # "none" /\ state' # "session"
    BY <1>9 DEF Misses
  <2>2. Here \in Asks /\ Here.err = "opal"
    BY <1>4, <1>9, <2>1 DEF Asks, Refusals, Enables
  <2>3. /\ Range(todo') = {OpalAsk} \cup Range(Tail(todo)) /\ OpalAsk \in Asks
        /\ Ordered(Tail(todo), R) /\ (\A y \in Range(Tail(todo)) : <<OpalAsk, y>> \in R)
             => Ordered(todo', R)
        /\ OpalAsk \in SoundSessions
    BY <1>9, <2>2, LeftToDo, OpalAskIs
  <2>4. OpalAsk \notin E /\ Here \notin E
    BY <2>2, <2>3 DEF Asks, Enables, EraseMaster, Anybody
  <2>5. \A y \in Range(Tail(todo)) : <<OpalAsk, y>> \in R
    BY <1>4, <1>9, <2>3, <2>4 DEF EnablesLast
  <2>6. drive = was /\ drive' = drive
    BY <1>2, <1>4, <1>9, <2>2, <2>4, AskedStep
  <2>7. \A b : Here.methods # <<Enable(b)>>
    BY <2>2, AskOnly DEF Enable
  <2>. HIDE DEF E, R, pin
  <2>. QED
    BY <1>2, <1>4, <1>9, <2>1, <2>3, <2>5, <2>6, <2>7
<1>. QED
  BY <1>1, <1>5, <1>6, <1>7, <1>8, <1>9

LEMMA EnablingStarts ==
  ASSUME Unmasked, NEW j \in JobRecords
  PROVE  LET ss == setBandsEnabled(j, -1) IN
         /\ Range(ss) \subseteq Asks \cup Refusals \cup Enables(j)
         /\ Ordered(ss, EnablesLast(j))
         /\ \A b \in Bands : \E s \in Range(ss) : s.sp = "none" \/ s.methods = <<Enable(b)>>
<1>. DEFINE h(b)  == Head(Locking(EraseMaster, OrMSID(j, j.pw),
                                  <<[op |-> "enable", band |-> setband(b)]>>))
            R     == EnablesLast(j)
            each  == [i \in 1..Len(BandSeq) |-> h(BandSeq[i])]
            first == DefaultFor({j.pw})
            last  == IF MaxRanges >= 1024 \/ -1 > MaxRanges THEN Invalid ELSE first \o each
            Due(b, ss) == \E s \in Range(ss) : s.sp = "none" \/ s.methods = <<Enable(b)>>
<1>1. OrMSID(j, j.pw) \in Pins
  BY PinsTyped DEF JobRecords
<1>2. ASSUME NEW b \in Bands
      PROVE  h(b) \in Enables(j) /\ h(b) \in SoundSessions /\ h(b).methods = <<Enable(b)>>
  <2>1. setband(b) = b
    BY DEF Unmasked, setband
  <2>2. <<Enable(b)>> \in Seq(SoundMethods)
    BY MethodsSound, BandsAreIntegers DEF Enable
  <2>3. h(b) = Head(Locking(EraseMaster, OrMSID(j, j.pw), <<Enable(b)>>))
    BY <2>1 DEF Enable
  <2>4. h(b) \in SoundSessions
    BY <1>1, <2>2, <2>3, AuthoritiesClaimed, LockingSound
  <2>5. h(b) = [sp |-> "Locking", auth |-> EraseMaster, pin |-> OrMSID(j, j.pw),
                methods |-> <<Enable(b)>>, err |-> "return"]
    BY <2>3 DEF Locking, Session
  <2>6. /\ h(b).sp = "Locking" /\ h(b).auth = EraseMaster /\ h(b).pin = OrMSID(j, j.pw)
        /\ h(b).methods = <<Enable(b)>> /\ h(b).err = "return"
    BY <2>5
  <2>. HIDE DEF h
  <2>. QED
    BY <2>4, <2>6 DEF Enables
<1>3. setBandsEnabled(j, -1) = getMaxRanges \o last
  BY DEF setBandsEnabled, Chosen
<1>. HIDE DEF h
<1>4. Len(BandSeq) \in Nat /\ (\A i \in 1..Len(BandSeq) : BandSeq[i] \in Bands)
      /\ \A b \in Bands : \E i \in 1..Len(BandSeq) : b = BandSeq[i]
  BY BandAssumption DEF Bands
<1>5. /\ each \in Seq(SoundSessions) /\ Range(each) \subseteq Enables(j)
      /\ \A b \in Bands : Due(b, each)
  <2>1. DOMAIN each = 1..Len(BandSeq) /\ each \in Seq(SoundSessions)
    BY <1>2, <1>4
  <2>2. \A i \in 1..Len(BandSeq) : each[i] = h(BandSeq[i])
    OBVIOUS
  <2>. HIDE DEF each
  <2>. QED
    BY <1>2, <1>4, <2>1, <2>2 DEF Range
<1>. HIDE DEF each
<1>6. ASSUME NEW s, NEW t, s \in Seq(SoundSessions), t \in Seq(SoundSessions),
             Range(s) \subseteq Asks, Ordered(t, R), Ordered(s, R)
      PROVE  /\ s \o t \in Seq(SoundSessions) /\ Range(s \o t) = Range(s) \cup Range(t)
             /\ Ordered(s \o t, R)
  <2>1. Range(s) \subseteq SoundSessions /\ Range(t) \subseteq SoundSessions
    BY <1>6 DEF Range
  <2>2. \A x \in Asks : x \notin Enables(j)
    BY DEF Asks, Enables, EraseMaster, Anybody
  <2>3. Range(s) \X Range(t) \subseteq R
    BY <1>6, <2>1, <2>2 DEF EnablesLast
  <2>. HIDE DEF R
  <2>. QED
    BY <1>6, <2>3, Joined
<1>7. Ordered(each, R)
  <2>1. \A k \in 1..Len(each) : each[k] \in Enables(j) /\ each[k] \in SoundSessions
    BY <1>5 DEF Range
  <2>. QED
    BY <1>5, <2>1 DEF Ordered, EnablesLast
<1>8. first \in Seq(SoundSessions) /\ Range(first) \subseteq Asks /\ Ordered(first, R)
  BY AskPieces
<1>9. getMaxRanges \in Seq(SoundSessions) /\ Range(getMaxRanges) \subseteq Asks
      /\ Ordered(getMaxRanges, R)
  BY AskPieces
<1>. HIDE DEF R, first
<1>10. /\ first \o each \in Seq(SoundSessions) /\ Ordered(first \o each, R)
       /\ Range(first \o each) = Range(first) \cup Range(each)
  BY <1>5, <1>6, <1>7, <1>8
<1>11. /\ Invalid \in Seq(SoundSessions) /\ Ordered(Invalid, R)
       /\ Range(Invalid) \subseteq Refusals /\ \A b : Due(b, Invalid)
  BY AskPieces DEF Refusals
<1>12. /\ Ordered(first \o each, R) /\ first \o each \in Seq(SoundSessions)
       /\ Range(first \o each) \subseteq Asks \cup Refusals \cup Enables(j)
       /\ \A b \in Bands : Due(b, first \o each)
  <2>1. Range(first \o each) \subseteq Asks \cup Enables(j)
    BY <1>5, <1>8, <1>10
  <2>2. \A b \in Bands : Due(b, first \o each)
    BY <1>5, <1>10
  <2>. QED
    BY <1>10, <2>1, <2>2
<1>13. last = Invalid \/ last = first \o each
  OBVIOUS
<1>. HIDE DEF last, Due
<1>14. /\ last \in Seq(SoundSessions) /\ Ordered(last, R)
       /\ Range(last) \subseteq Asks \cup Refusals \cup Enables(j)
       /\ \A b \in Bands : Due(b, last)
  BY <1>11, <1>12, <1>13
<1>15. /\ Ordered(getMaxRanges \o last, R)
       /\ Range(getMaxRanges \o last) = Range(getMaxRanges) \cup Range(last)
  BY <1>6, <1>9, <1>14
<1>16. Range(getMaxRanges \o last) \subseteq Asks \cup Refusals \cup Enables(j)
  BY <1>9, <1>14, <1>15
<1>17. \A b \in Bands : Due(b, getMaxRanges \o last)
  BY <1>14, <1>15 DEF Due
<1>. QED
  BY <1>3, <1>15, <1>16, <1>17 DEF R, Due

LEMMA EnablingStep ==
  ASSUME Unmasked
  PROVE  IInv /\ Calm /\ Enabling /\ [Next]_vars => Enabling'
<1>. SUFFICES ASSUME IInv, Calm, Enabling, [Next]_vars, Runs', ~Runs,
                     job'.cmd = "setBandsEnabled"
              PROVE  Enabling'
  BY EnablingKeeps DEF Enabling
<1>1. Launch
  BY LaunchRuns
<1>2. job' \in JobRecords /\ todo' = Handler(job') /\ was' = drive /\ drive' = drive
      /\ seen' = "none" /\ state' # "session" /\ drive \in Drives
  BY <1>1, JobTyped DEF Launch, Calm, IInv, Machine
<1>3. Handler(job') = setBandsEnabled(job', -1)
  BY DEF Handler, Ignored, Rejected
<1>4. drive' = [was' EXCEPT !.enabled = drive'.enabled]
  BY <1>2 DEF Drives
<1>. QED
  BY <1>2, <1>3, <1>4, EnablingStarts DEF Enabling

-----------------------------------------------------------------------------
(* takeOwnership and initialSetup                                          *)

Owner(j) == j.cmd \in {"takeOwnership", "initialSetup"}

(* The masters whose refusal is an error, and all that get the password.   *)
Firsts == {SID, EraseMaster, BandMaster(0)}
Owners == {SID, EraseMaster} \cup {BandMaster(b) : b \in Bands}

Gives(j, a) == <<SetPIN(a, HashPwd(j, j.pw))>>
Unlocks     == <<SetBand(0, {}, {}, {}, Modes, {}, {})>>
Guards      == <<SetBand(0, {}, Modes, Modes, {}, {}, {TRUE})>>

Takes(j) ==
  {s \in SoundSessions :
     /\ s.sp # "none" /\ s.auth \in Owners /\ s.pin = Raw(MSID)
     /\ s.methods \in {<<>>, Gives(j, s.auth)}
     /\ s.err = IF s.auth \in Firsts THEN "return" ELSE "skip"}
Uses(j) ==
  {s \in SoundSessions :
     /\ j.cmd = "initialSetup" /\ s.sp # "none"
     /\ s.auth = BandMaster(0) /\ s.pin = HashPwd(j, j.pw) /\ s.err = "return"
     /\ s.methods \in {<<>>, Unlocks, Guards}}

(* No master is given the password twice, nor once the first band is used  *)
(* with it; and only of the first session all may have been called.        *)
InTurn(j) ==
  {p \in SoundSessions \X SoundSessions :
     /\ p[2].methods # <<>> \/ p[2].sp = "none"
     /\ p[2].methods = Gives(j, p[2].auth) =>
          p[1].methods \notin {Unlocks, Guards, Gives(j, p[2].auth)}}

Due(ms)  == \E s \in Range(todo) : s.sp = "none" \/ s.methods = ms
Owed(a)  == \E s \in Range(todo) : s.sp = "none" \/ (s.auth = a /\ s.methods = Gives(job, a))
Given(a) == drive.pin[a] = HashPwd(job, job.pw) \/ Owed(a)

(* What CleanFailureIsAtomic asks of the drive.                            *)
Ready == Fresh(was) /\ 0 \in was.enabled /\ MaxRanges > 0

OwnFrame ==
  /\ seen = "none"
  /\ drive.enabled = was.enabled /\ drive.info = was.info
  /\ job.cmd = "takeOwnership" => drive = [was EXCEPT !.pin = drive.pin]
  /\ \A a \in Authorities : drive.pin[a] \in {was.pin[a], HashPwd(job, job.pw)}

OwnTodo ==
  /\ Range(todo) \subseteq Asks \cup Refusals \cup Takes(job) \cup Uses(job)
  /\ Ordered(todo, InTurn(job))
  /\ todo # <<>> /\ state = "running" => Here.methods # <<>> \/ Here.sp = "none"

OwnGiven ==
  /\ \A a \in Firsts : Given(a)
  /\ \A b \in was.enabled :
       was.pin[BandMaster(b)] = Raw(MSID) => fault \/ Given(BandMaster(b))
  /\ job.cmd = "initialSetup" =>
       /\ drive.locked[0] = {} \/ Due(Unlocks)
       /\ (drive.guard[0] = Modes /\ 0 \in drive.reset) \/ Due(Guards)

OwnClean ==
  Ready => \A s \in Range(todo) :
             /\ s.sp # "none"
             /\ s.auth \in Firsts /\ s.methods = Gives(job, s.auth) =>
                  drive.pin[s.auth] = Raw(MSID)

Owning == Runs /\ Owner(job) => OwnFrame /\ OwnTodo /\ OwnGiven /\ OwnClean

LEMMA BandUsed ==
  ASSUME NEW d \in Drives
  PROVE  /\ LET p == Performed(d, SetBand(0, {}, {}, {}, Modes, {}, {})) IN
              /\ p.pin = d.pin /\ p.enabled = d.enabled /\ p.info = d.info
              /\ p.guard[0] = d.guard[0] /\ p.reset = d.reset /\ p.locked[0] = {}
         /\ LET p == Performed(d, SetBand(0, {}, Modes, Modes, {}, {}, {TRUE})) IN
              /\ p.pin = d.pin /\ p.enabled = d.enabled /\ p.info = d.info
              /\ p.guard[0] = Modes /\ 0 \in p.reset /\ p.locked[0] = d.locked[0]
<1>0. 0 \in Bands /\ TRUE \notin {} /\ FALSE \notin {}
  BY BandsAreNumbers
<1>. DEFINE p(x, l, r) == [d EXCEPT !.place[0] = d.place[0], !.stale = d.stale, !.guard[0] = x,
                                !.locked[0] = l, !.reset = r]
<1>1. /\ Performed(d, SetBand(0, {}, {}, {}, Modes, {}, {})) =
           p((d.guard[0] \ {}) \cup {}, (d.locked[0] \ Modes) \cup {}, d.reset)
      /\ Performed(d, SetBand(0, {}, Modes, Modes, {}, {}, {TRUE})) =
           p((d.guard[0] \ Modes) \cup Modes, (d.locked[0] \ {}) \cup {}, d.reset \cup {0})
  BY <1>0 DEF Performed, SetBand
<1>2. \A x, l, r : /\ p(x, l, r).pin = d.pin /\ p(x, l, r).enabled = d.enabled
                   /\ p(x, l, r).info = d.info /\ p(x, l, r).reset = r
                   /\ p(x, l, r).guard[0] = x /\ p(x, l, r).locked[0] = l
  BY <1>0 DEF Drives
<1>3. /\ (d.guard[0] \ {}) \cup {} = d.guard[0] /\ (d.locked[0] \ Modes) \cup {} = {}
      /\ (d.guard[0] \ Modes) \cup Modes = Modes /\ (d.locked[0] \ {}) \cup {} = d.locked[0]
      /\ 0 \in d.reset \cup {0}
  BY <1>0 DEF Drives
<1>. HIDE DEF p
<1>. DEFINE u == Performed(d, SetBand(0, {}, {}, {}, Modes, {}, {}))
            g == Performed(d, SetBand(0, {}, Modes, Modes, {}, {}, {TRUE}))
<1>. SUFFICES /\ u.pin = d.pin /\ u.enabled = d.enabled /\ u.info = d.info
              /\ u.guard[0] = d.guard[0] /\ u.reset = d.reset /\ u.locked[0] = {}
              /\ g.pin = d.pin /\ g.enabled = d.enabled /\ g.info = d.info
              /\ g.guard[0] = Modes /\ 0 \in g.reset /\ g.locked[0] = d.locked[0]
  BY Zenon
<1>4. /\ u = p((d.guard[0] \ {}) \cup {}, (d.locked[0] \ Modes) \cup {}, d.reset)
      /\ g = p((d.guard[0] \ Modes) \cup Modes, (d.locked[0] \ {}) \cup {}, d.reset \cup {0})
  BY <1>1
<1>. HIDE DEF u, g
<1>5. /\ u.pin = d.pin /\ u.enabled = d.enabled /\ u.info = d.info
      /\ u.guard[0] = d.guard[0] /\ u.reset = d.reset /\ u.locked[0] = {}
  BY <1>2, <1>3, <1>4
<1>6. /\ g.pin = d.pin /\ g.enabled = d.enabled /\ g.info = d.info
      /\ g.guard[0] = Modes /\ 0 \in g.reset /\ g.locked[0] = d.locked[0]
  <2>1. g = p(Modes, d.locked[0], d.reset \cup {0})
    BY <1>3, <1>4
  <2>. QED
    BY <1>2, <2>1
<1>. QED
  BY <1>5, <1>6

LEMMA MethodsDiffer ==
  ASSUME NEW j
  PROVE  /\ Unlocks # <<>> /\ Guards # <<>> /\ \A a : Gives(j, a) # <<>>
         /\ Unlocks # Guards /\ \A a : Gives(j, a) \notin {Unlocks, Guards}
         /\ \A a, b : Gives(j, a) = Gives(j, b) => a = b
         /\ OpalAsk.methods \notin {<<>>, Unlocks, Guards} /\ \A a : OpalAsk.methods # Gives(j, a)
<1>. DEFINE u == SetBand(0, {}, {}, {}, Modes, {}, {})
            g == SetBand(0, {}, Modes, Modes, {}, {}, {TRUE})
            p(a) == SetPIN(a, HashPwd(j, j.pw))
            i == [op |-> "infoOpal"]
<1>1. u.op = "setBand" /\ g.op = "setBand" /\ u.reset = {} /\ g.reset = {TRUE} /\ i.op = "infoOpal"
  BY DEF SetBand
<1>2. \A a : p(a).op = "setPIN" /\ p(a).auth = a
  BY DEF SetPIN
<1>3. /\ Unlocks = <<u>> /\ Guards = <<g>> /\ (\A a : Gives(j, a) = <<p(a)>>)
      /\ OpalAsk.methods = <<i>>
  BY OpalAskIs DEF Unlocks, Guards, Gives
<1>. HIDE DEF u, g, p, i
<1>4. \A x : <<x>> # <<>>
  OBVIOUS
<1>5. \A x, y : <<x>> = <<y>> => x = y
  OBVIOUS
<1>6. /\ Unlocks # <<>> /\ Guards # <<>> /\ (\A a : Gives(j, a) # <<>>) /\ OpalAsk.methods # <<>>
  BY <1>3, <1>4
<1>7. u # g /\ (\A a : p(a) # u /\ p(a) # g /\ i # p(a)) /\ i # u /\ i # g
      /\ \A a, b : p(a) = p(b) => a = b
  <2>1. {TRUE} # {}
    OBVIOUS
  <2>2. u # g
    BY <1>1, <2>1
  <2>3. (\A a : p(a) # u /\ p(a) # g /\ i # p(a)) /\ i # u /\ i # g
    BY <1>1, <1>2
  <2>4. \A a, b : p(a) = p(b) => a = b
    <3>. SUFFICES ASSUME NEW a, NEW b, p(a) = p(b) PROVE a = b
      OBVIOUS
    <3>1. p(a).auth = a /\ p(b).auth = b
      BY <1>2
    <3>. QED
      BY <3>1
  <2>. QED
    BY <2>2, <2>3, <2>4
<1>8. \A a, b : Gives(j, a) = Gives(j, b) => a = b
  BY <1>3, <1>5, <1>7
<1>9. Unlocks # Guards /\ \A a : Gives(j, a) \notin {Unlocks, Guards}
  BY <1>3, <1>5, <1>7
<1>10. OpalAsk.methods \notin {Unlocks, Guards} /\ \A a : OpalAsk.methods # Gives(j, a)
  BY <1>3, <1>5, <1>7
<1>. QED
  BY <1>6, <1>8, <1>9, <1>10

LEMMA OwnersAre ==
  /\ Firsts \subseteq Owners /\ Owners \subseteq Authorities /\ Anybody \notin Owners
  /\ 0 \in Bands /\ \A b \in Bands : BandMaster(b) \in Owners
BY BandsAreNumbers DEF Firsts, Owners, Authorities, Anybody, SID, EraseMaster, BandMaster

(* The method of such a session, if it is called.                          *)
OwnerMethod(d) ==
  \/ d = drive /\ Here \in Asks
  \/ /\ Here \in Takes(job) /\ Here.methods = Gives(job, Here.auth)
     /\ d = [drive EXCEPT !.pin[Here.auth] = HashPwd(job, job.pw)]
  \/ /\ Here \in Uses(job) /\ Here.methods = Unlocks
     /\ d.pin = drive.pin /\ d.enabled = drive.enabled /\ d.info = drive.info
     /\ d.guard[0] = drive.guard[0] /\ d.reset = drive.reset /\ d.locked[0] = {}
  \/ /\ Here \in Uses(job) /\ Here.methods = Guards
     /\ d.pin = drive.pin /\ d.enabled = drive.enabled /\ d.info = drive.info
     /\ d.guard[0] = Modes /\ 0 \in d.reset /\ d.locked[0] = drive.locked[0]

LEMMA OwnerMethods ==
  ASSUME drive \in Drives, Here.methods # <<>>,
         Here \in Asks \cup Takes(job) \cup Uses(job)
  PROVE  /\ OwnerMethod(Performed(drive, CalledMethod))
         /\ Here \in Takes(job) \cup Uses(job) => Permits(drive, Here.auth, CalledMethod)
         /\ CalledRest \in Asks \cup Takes(job) \cup Uses(job)
         /\ CalledRest.methods = <<>> /\ CalledRest.sp # "none"
<1>. DEFINE m == SetPIN(Here.auth, HashPwd(job, job.pw))
            u == SetBand(0, {}, {}, {}, Modes, {}, {})
            g == SetBand(0, {}, Modes, Modes, {}, {}, {TRUE})
<1>1. \A x : Head(<<x>>) = x /\ Tail(<<x>>) = <<>>
  OBVIOUS
<1>2. \/ Here \in Asks
      \/ Here \in Takes(job) /\ Here.methods = Gives(job, Here.auth) /\ CalledMethod = m
      \/ Here \in Uses(job) /\ Here.methods = Unlocks /\ CalledMethod = u
      \/ Here \in Uses(job) /\ Here.methods = Guards /\ CalledMethod = g
  <2>1. Here.methods = Gives(job, Here.auth) => CalledMethod = m
    BY <1>1 DEF CalledMethod, Gives
  <2>2. Here.methods = Unlocks => CalledMethod = u
    BY <1>1 DEF CalledMethod, Unlocks
  <2>3. Here.methods = Guards => CalledMethod = g
    BY <1>1 DEF CalledMethod, Guards
  <2>. HIDE DEF m, u, g
  <2>. QED
    BY <2>1, <2>2, <2>3 DEF Takes, Uses
<1>3. Tail(Here.methods) = <<>>
  <2>1. Here \notin Asks => Here.methods \in {Gives(job, Here.auth), Unlocks, Guards}
    BY DEF Takes, Uses
  <2>2. Here \notin Asks => Tail(Here.methods) = <<>>
    BY <1>1, <2>1 DEF Gives, Unlocks, Guards
  <2>3. Here \in Asks => Tail(Here.methods) = <<>>
    <3>1. Here \in Asks => [Here EXCEPT !.methods = Tail(@)].methods = <<>> /\ Here \in Sessions
      BY AskCalled DEF Asks, SoundSessions
    <3>. QED
      BY <3>1 DEF Sessions
  <2>. QED
    BY <2>2, <2>3
<1>4. Here \in SoundSessions /\ Here.sp # "none"
  BY DEF Asks, Takes, Uses
<1>5. /\ CalledRest \in SoundSessions /\ CalledRest.methods = <<>>
      /\ CalledRest.err = Here.err /\ CalledRest.sp = Here.sp
      /\ CalledRest.auth = Here.auth /\ CalledRest.pin = Here.pin
  <2>1. CalledRest = [Here EXCEPT !.methods = <<>>]
    BY <1>3 DEF CalledRest
  <2>2. <<>> \in Seq(SoundMethods) /\ <<>> \in Seq(Methods)
    BY Single
  <2>. QED
    BY <1>4, <2>1, <2>2 DEF SoundSessions, Sessions
<1>6. CalledRest \in Asks \cup Takes(job) \cup Uses(job)
  BY <1>4, <1>5 DEF Asks, Takes, Uses
<1>7. Here \in Asks => Performed(drive, CalledMethod) = drive
  BY AskCalled DEF CalledMethod
<1>8. /\ Performed(drive, m) = [drive EXCEPT !.pin[Here.auth] = HashPwd(job, job.pw)]
      /\ Permits(drive, Here.auth, m)
  BY DEF Performed, Permits, SetPIN
<1>9. Permits(drive, BandMaster(0), u) /\ Permits(drive, BandMaster(0), g)
  BY OwnersAre DEF Permits, SetBand
<1>10. Here \in Uses(job) => Here.auth = BandMaster(0)
  BY DEF Uses
<1>11. /\ Performed(drive, u).pin = drive.pin /\ Performed(drive, u).enabled = drive.enabled
       /\ Performed(drive, u).info = drive.info /\ Performed(drive, u).guard[0] = drive.guard[0]
       /\ Performed(drive, u).reset = drive.reset /\ Performed(drive, u).locked[0] = {}
  BY BandUsed
<1>12. /\ Performed(drive, g).pin = drive.pin /\ Performed(drive, g).enabled = drive.enabled
       /\ Performed(drive, g).info = drive.info /\ Performed(drive, g).guard[0] = Modes
       /\ 0 \in Performed(drive, g).reset /\ Performed(drive, g).locked[0] = drive.locked[0]
  BY BandUsed
<1>. HIDE DEF m, u, g
<1>13. OwnerMethod(Performed(drive, CalledMethod))
  BY <1>2, <1>7, <1>8, <1>11, <1>12 DEF OwnerMethod
<1>14. Here \in Takes(job) \cup Uses(job) => Permits(drive, Here.auth, CalledMethod)
  <2>1. Here \in Takes(job) \cup Uses(job) => Here \notin Asks
    BY OwnersAre DEF Takes, Uses, Asks, BandMaster, Anybody
  <2>. QED
    BY <1>2, <1>8, <1>9, <1>10, <2>1
<1>. QED
  BY <1>4, <1>5, <1>6, <1>13, <1>14

(* A step of such a command that is more than the drive's answer to start. *)
OwnerStep ==
  /\ todo # <<>> /\ Here.sp # "none"
  /\ Range(Tail(todo)) \subseteq Range(todo')
  /\ \A s \in Range(todo') :
       \/ s \in Range(Tail(todo))
       \/ /\ s \in Asks \cup Takes(job) \cup Uses(job)
          /\ s.sp # "none" /\ s.methods \in {<<>>, OpalAsk.methods}
  /\ Ordered(todo', InTurn(job))
  /\ todo' # <<>> /\ state' = "running" => Here'.methods # <<>> \/ Here'.sp = "none"
  /\ \/ OwnerMethod(drive')
     \/ drive' = drive /\ (Here.methods = <<>> \/ Here \in Asks)
     \/ /\ Here \in Takes(job) /\ Here.auth \notin Firsts /\ drive' = drive
        /\ fault' \/ ~Admits(drive, Here)

LEMMA OwnerSteps ==
  ASSUME IInv, Calm, Owning, [Next]_vars, Runs, Runs', Owner(job)
  PROVE  /\ job' = job /\ was' = was /\ (fault => fault') /\ seen' = "none"
         /\ \/ UNCHANGED <<drive, todo>> /\ (state' = state \/ state' = "session")
            \/ OwnerStep
<1>. DEFINE R == InTurn(job)
            K == Asks \cup Takes(job) \cup Uses(job)
<1>1. /\ job' = job /\ was' = was /\ (fault => fault')
      /\ Idles \/ (todo # <<>> /\ (Closes \/ Skips \/ Calls \/ Misses))
  BY RunningStep
<1>2. seen = "none" /\ Range(todo) \subseteq K \cup Refusals /\ Ordered(todo, R) /\ drive \in Drives
  BY DEF Owning, OwnFrame, OwnTodo, IInv, Machine
<1>3. ASSUME todo # <<>>
      PROVE  /\ Here \in SoundSessions /\ Tail(todo) \in Seq(SoundSessions)
             /\ Here \in K \/ Here \in Refusals
             /\ Ordered(Tail(todo), R) /\ \A y \in Range(Tail(todo)) : <<Here, y>> \in R
             /\ \A y \in Range(Tail(todo)) : /\ y \in SoundSessions
                                             /\ y.methods # <<>> \/ y.sp = "none"
             /\ Tail(todo) # <<>> => Head(Tail(todo)) \in Range(Tail(todo))
  <2>1. /\ Here \in SoundSessions /\ Tail(todo) \in Seq(SoundSessions)
        /\ Range(todo) = {Here} \cup Range(Tail(todo))
        /\ Ordered(Tail(todo), R) /\ \A y \in Range(Tail(todo)) : <<Here, y>> \in R
    BY <1>2, <1>3, LeftToDo
  <2>2. \A y \in Range(Tail(todo)) : y \in SoundSessions /\ (y.methods # <<>> \/ y.sp = "none")
    BY <2>1 DEF InTurn
  <2>3. Tail(todo) # <<>> => Head(Tail(todo)) \in Range(Tail(todo))
    BY <2>1, HeadInRange
  <2>. QED
    BY <1>2, <2>1, <2>2, <2>3
<1>4. ASSUME todo # <<>>, NEW x \in SoundSessions, x.methods \in {<<>>, OpalAsk.methods}
      PROVE  \A y \in Range(Tail(todo)) : <<x, y>> \in R
  BY <1>3, <1>4, MethodsDiffer DEF InTurn
<1>5. CASE Idles
  BY <1>1, <1>2, <1>5 DEF Idles
<1>6. CASE todo # <<>> /\ Closes
  <2>1. Here.sp # "none"
    BY <1>6 DEF Calm, Closes, Here, IInv, Process
  <2>2. todo' # <<>> => Here'.methods # <<>> \/ Here'.sp = "none"
    BY <1>3, <1>6 DEF Closes, Here
  <2>. HIDE DEF R, K
  <2>3. Ordered(todo', R)
    BY <1>3, <1>6 DEF Closes
  <2>. USE DEF R, K
  <2>. QED
    BY <1>1, <1>2, <1>6, <2>1, <2>2, <2>3 DEF Closes, OwnerStep
<1>7. CASE todo # <<>> /\ Skips
  <2>1. Here \in Takes(job) /\ Here.err = "skip" /\ Here.sp # "none" /\ seen' = seen
    BY <1>3, <1>7 DEF Skips, Asks, Refusals, Takes, Uses
  <2>2. todo' # <<>> => Here'.methods # <<>> \/ Here'.sp = "none"
    BY <1>3, <1>7 DEF Skips, Here
  <2>3. Ordered(todo', R) /\ Here.auth \notin Firsts
    BY <1>3, <1>7, <2>1 DEF Skips, Takes
  <2>. QED
    BY <1>1, <1>2, <1>7, <2>1, <2>2, <2>3 DEF Skips, OwnerStep
<1>8. CASE todo # <<>> /\ Calls
  <2>1. Here \in K /\ Here.sp # "none" /\ Here.methods # <<>> /\ state' = "session"
    BY <1>3, <1>8 DEF Calls, Refusals
  <2>2. seen' = seen
    BY <1>8, <2>1 DEF Calls, Asks, Takes, Uses
  <2>3. /\ OwnerMethod(drive') /\ CalledRest \in K
        /\ CalledRest.methods = <<>> /\ CalledRest.sp # "none"
    BY <1>2, <1>8, <2>1, OwnerMethods DEF Calls
  <2>4. /\ Range(todo') = {CalledRest} \cup Range(Tail(todo)) /\ CalledRest \in SoundSessions
        /\ Ordered(Tail(todo), R) /\ (\A y \in Range(Tail(todo)) : <<CalledRest, y>> \in R)
             => Ordered(todo', R)
    BY <1>8, LeftToDo
  <2>5. Ordered(todo', R)
    BY <1>3, <1>4, <1>8, <2>3, <2>4
  <2>. QED
    BY <1>1, <1>2, <1>8, <2>1, <2>2, <2>3, <2>4, <2>5 DEF OwnerStep
<1>9. CASE todo # <<>> /\ Misses
  <2>1. Here.err # "return" /\ seen' = seen /\ Here.sp # "none" /\ Here.methods # <<>>
    BY <1>9 DEF Misses
  <2>2. CASE Here \in Asks
    <3>1. Here.err = "opal" /\ drive' = drive
      BY <1>9, <2>1, <2>2, AskedStep
    <3>2. /\ Range(todo') = {OpalAsk} \cup Range(Tail(todo)) /\ OpalAsk \in Asks
          /\ OpalAsk \in SoundSessions /\ OpalAsk.sp # "none"
          /\ Ordered(Tail(todo), R) /\ (\A y \in Range(Tail(todo)) : <<OpalAsk, y>> \in R)
               => Ordered(todo', R)
      BY <1>9, <3>1, LeftToDo, OpalAskIs DEF Asks
    <3>3. Ordered(todo', R)
      BY <1>3, <1>4, <1>9, <3>2
    <3>4. todo' # <<>> => Here'.methods # <<>>
      <4>1. todo' = <<OpalAsk>> \o Tail(todo)
        BY <1>9, <3>1, OpalAskIs DEF Misses
      <4>2. Here' = OpalAsk
        BY <1>3, <1>9, <4>1 DEF Here
      <4>. QED
        BY <4>2, MethodsDiffer
    <3>. QED
      BY <1>1, <1>2, <1>9, <2>1, <2>2, <3>1, <3>2, <3>3, <3>4 DEF OwnerStep
  <2>3. CASE Here \in Takes(job)
    <3>1. Here.auth \notin Firsts /\ Here.err # "opal"
      BY <2>1, <2>3 DEF Takes
    <3>2. todo' = Tail(todo)
      BY <1>9, <3>1, LeftToDo
    <3>3. fault' /\ (drive' = drive \/ OwnerMethod(drive'))
      BY <1>2, <1>9, <2>1, <2>3, OwnerMethods DEF Misses
    <3>4. todo' # <<>> => Here'.methods # <<>> \/ Here'.sp = "none"
      BY <1>3, <1>9, <3>2 DEF Here
    <3>5. Ordered(todo', R)
      BY <1>3, <1>9, <3>2
    <3>. QED
      BY <1>1, <1>2, <1>9, <2>1, <2>3, <3>1, <3>2, <3>3, <3>4, <3>5 DEF OwnerStep
  <2>. QED
    BY <1>3, <1>9, <2>1, <2>2, <2>3 DEF Refusals, Uses
<1>. QED
  BY <1>1, <1>5, <1>6, <1>7, <1>8, <1>9

LEMMA OwningKeeps ==
  ASSUME IInv, Calm, Owning, [Next]_vars, Runs, Runs'
  PROVE  Owning'
<1>. SUFFICES ASSUME Owner(job') PROVE OwnFrame' /\ OwnTodo' /\ OwnGiven' /\ OwnClean'
  BY DEF Owning
<1>. DEFINE pin == HashPwd(job, job.pw)
<1>0. job' = job
  BY RunningStep
<1>1. /\ was' = was /\ (fault => fault') /\ seen' = "none"
      /\ (UNCHANGED <<drive, todo>> /\ (state' = state \/ state' = "session")) \/ OwnerStep
  BY <1>0, OwnerSteps
<1>2. OwnFrame /\ OwnTodo /\ OwnGiven /\ OwnClean /\ drive \in Drives /\ was \in Drives
  BY <1>0 DEF Owning, IInv, Machine, Process
<1>3. CASE UNCHANGED <<drive, todo>> /\ (state' = state \/ state' = "session")
  <2>1. OwnFrame'
    BY <1>0, <1>1, <1>2, <1>3 DEF OwnFrame
  <2>2. OwnTodo'
    BY <1>0, <1>2, <1>3 DEF OwnTodo, Here
  <2>3. OwnGiven'
    BY <1>0, <1>1, <1>2, <1>3 DEF OwnGiven, Given, Owed, Due
  <2>4. OwnClean'
    BY <1>0, <1>1, <1>2, <1>3 DEF OwnClean, Ready
  <2>. QED
    BY <2>1, <2>2, <2>3, <2>4
<1>4. CASE OwnerStep
  <2>1. /\ todo # <<>> /\ Here.sp # "none" /\ Range(Tail(todo)) \subseteq Range(todo')
        /\ Range(todo) = {Here} \cup Range(Tail(todo))
        /\ \A y \in Range(Tail(todo)) : <<Here, y>> \in InTurn(job)
    BY <1>2, <1>4, LeftToDo DEF OwnerStep, OwnTodo
  <2>2. /\ drive'.enabled = drive.enabled /\ drive'.info = drive.info
        /\ drive' = [drive EXCEPT !.pin = drive'.pin] \/ Here \in Uses(job)
        /\ \A a \in Authorities :
             \/ drive'.pin[a] = drive.pin[a]
             \/ /\ drive'.pin[a] = pin /\ Here.auth = a /\ Here.methods = Gives(job, a)
                /\ Here \in Takes(job)
    <3>. HIDE DEF pin
    <3>1. CASE drive' = drive
      BY <1>2, <3>1 DEF Drives
    <3>2. CASE drive' = [drive EXCEPT !.pin[Here.auth] = pin] /\ Here \in Takes(job)
               /\ Here.methods = Gives(job, Here.auth)
      BY <1>2, <3>2 DEF Drives
    <3>3. CASE drive'.pin = drive.pin /\ drive'.enabled = drive.enabled /\ drive'.info = drive.info
               /\ Here \in Uses(job)
      BY <3>3
    <3>. QED
      BY <1>4, <3>1, <3>2, <3>3 DEF OwnerStep, OwnerMethod, pin
  <2>3. OwnFrame'
    <3>1. job.cmd = "takeOwnership" => Uses(job) = {}
      BY DEF Uses
    <3>2. job.cmd = "takeOwnership" => drive' = [was EXCEPT !.pin = drive'.pin]
      BY <1>2, <2>2, <3>1 DEF OwnFrame, Drives
    <3>3. \A a \in Authorities : drive'.pin[a] \in {was.pin[a], pin}
      BY <1>2, <2>2 DEF OwnFrame
    <3>. QED
      BY <1>0, <1>1, <1>2, <2>2, <3>2, <3>3 DEF OwnFrame
  <2>4. OwnTodo'
    <3>1. Range(todo') \subseteq Asks \cup Refusals \cup Takes(job) \cup Uses(job)
      BY <1>2, <1>4, <2>1 DEF OwnerStep, OwnTodo
    <3>. QED
      BY <1>0, <1>4, <3>1 DEF OwnerStep, OwnTodo
  <2>5. OwnClean'
    <3>. SUFFICES ASSUME Ready, NEW s \in Range(todo')
                  PROVE  /\ s.sp # "none"
                         /\ s.auth \in Firsts /\ s.methods = Gives(job, s.auth) =>
                              drive'.pin[s.auth] = Raw(MSID)
      BY <1>0, <1>1 DEF OwnClean, Ready
    <3>1. CASE s \in Range(Tail(todo))
      <4>1. /\ s.sp # "none"
            /\ s.auth \in Firsts /\ s.methods = Gives(job, s.auth) => drive.pin[s.auth] = Raw(MSID)
        BY <1>2, <2>1, <3>1 DEF OwnClean
      <4>2. s.methods = Gives(job, s.auth) => Here.methods # Gives(job, s.auth)
        BY <2>1, <3>1 DEF InTurn
      <4>. QED
        BY <2>2, <4>1, <4>2, OwnersAre
    <3>2. CASE s \notin Range(Tail(todo))
      <4>1. s.sp # "none" /\ s.methods \in {<<>>, OpalAsk.methods}
        BY <1>4, <3>2 DEF OwnerStep
      <4>. QED
        BY <4>1, MethodsDiffer
    <3>. QED
      BY <3>1, <3>2
  <2>6. ASSUME NEW a \in Authorities, Given(a)
        PROVE  \/ Given(a)'
               \/ /\ Here.auth = a /\ Here.methods = Gives(job, a) /\ a \notin Firsts
                  /\ Here \in Takes(job)
                  /\ drive' = drive /\ (fault' \/ ~Admits(drive, Here))
    <3>1. CASE drive.pin[a] = pin
      BY <1>0, <2>2, <3>1 DEF Given
    <3>2. CASE \E s \in Range(Tail(todo)) :
                 s.sp = "none" \/ (s.auth = a /\ s.methods = Gives(job, a))
      BY <1>0, <2>1, <3>2 DEF Given, Owed
    <3>3. CASE Here.auth = a /\ Here.methods = Gives(job, a)
      <4>1. Here.methods \notin {<<>>, Unlocks, Guards}
        BY <3>3, MethodsDiffer
      <4>2. Here \notin Asks
        <5>1. ASSUME Here \in Asks PROVE SetPIN(a, pin).op \in {"read", "info", "infoOpal"}
          BY <3>3, <5>1, AskOnly DEF Gives
        <5>. QED
          BY <5>1 DEF SetPIN
      <4>3. CASE drive' = [drive EXCEPT !.pin[Here.auth] = pin]
        <5>. HIDE DEF pin
        <5>1. drive'.pin[a] = pin
          BY <1>2, <3>3, <4>3 DEF Drives
        <5>. QED
          BY <1>0, <5>1 DEF Given, pin
      <4>. QED
        BY <1>4, <3>3, <4>1, <4>2, <4>3 DEF OwnerStep, OwnerMethod
    <3>. QED
      BY <2>1, <2>6, <3>1, <3>2, <3>3 DEF Given, Owed
  <2>7. ASSUME NEW b \in was.enabled, was.pin[BandMaster(b)] = Raw(MSID)
        PROVE  fault' \/ Given(BandMaster(b))'
    <3>. DEFINE a == BandMaster(b)
    <3>1. b \in Bands /\ a \in Authorities
      BY <1>2, OwnersAre DEF Drives
    <3>2. fault \/ Given(a)
      BY <1>2, <2>7 DEF OwnGiven
    <3>3. ASSUME /\ Here.auth = a /\ Here.methods = Gives(job, a) /\ a \notin Firsts
                 /\ Here \in Takes(job) /\ drive' = drive /\ ~Admits(drive, Here)
          PROVE  Given(a)'
      <4>1. drive.pin[a] \in {Raw(MSID), pin} /\ drive.enabled = was.enabled
        BY <1>2, <2>7, <3>1 DEF OwnFrame
      <4>2. Here.pin = Raw(MSID)
        BY <3>3 DEF Takes
      <4>3. drive.pin[a] # Raw(MSID)
        BY <2>7, <3>1, <3>3, <4>1, <4>2 DEF Admits, BandMaster
      <4>. QED
        BY <1>0, <3>3, <4>1, <4>3 DEF Given
    <3>. HIDE DEF a
    <3>4. fault' \/ Given(a)'
      BY <1>1, <2>6, <3>1, <3>2, <3>3
    <3>. QED
      BY <3>4 DEF a
  <2>8. ASSUME job.cmd = "initialSetup"
        PROVE  /\ drive'.locked[0] = {} \/ Due(Unlocks)'
               /\ (drive'.guard[0] = Modes /\ 0 \in drive'.reset) \/ Due(Guards)'
    <3>1. /\ drive.locked[0] = {} \/ Due(Unlocks)
          /\ (drive.guard[0] = Modes /\ 0 \in drive.reset) \/ Due(Guards)
      BY <1>2, <2>8 DEF OwnGiven
    <3>2. \A ms : Due(ms) => Due(ms)' \/ Here.methods = ms
      BY <2>1 DEF Due
    <3>3. /\ drive.locked[0] = {} => drive'.locked[0] = {}
          /\ drive.guard[0] = Modes /\ 0 \in drive.reset =>
               drive'.guard[0] = Modes /\ 0 \in drive'.reset
          /\ Here.methods = Unlocks => drive'.locked[0] = {}
          /\ Here.methods = Guards => drive'.guard[0] = Modes /\ 0 \in drive'.reset
      <4>1. CASE drive' = drive /\ (Here.methods = <<>> \/ Here \in Asks)
        <5>1. Here \in Asks => Here.methods \notin {Unlocks, Guards}
          <6>1. \A p, g, h, l, k, t : SetBand(0, p, g, h, l, k, t).op = "setBand"
            BY DEF SetBand
          <6>2. Here \in Asks => \A p, g, h, l, k, t :
                  Here.methods # <<SetBand(0, p, g, h, l, k, t)>>
            BY <6>1, AskOnly
          <6>. QED
            BY <6>2, Zenon DEF Unlocks, Guards
        <5>. QED
          BY <4>1, <5>1, MethodsDiffer
      <4>2. CASE drive' = drive /\ Here \in Takes(job)
        BY <4>2, MethodsDiffer DEF Takes
      <4>3. CASE Here \in Takes(job) /\ Here.methods = Gives(job, Here.auth)
                 /\ drive' = [drive EXCEPT !.pin[Here.auth] = pin]
        <5>. HIDE DEF pin
        <5>1. /\ drive'.locked = drive.locked /\ drive'.guard = drive.guard
              /\ drive'.reset = drive.reset
          BY <1>2, <4>3 DEF Drives
        <5>. QED
          BY <4>3, <5>1, MethodsDiffer
      <4>4. CASE Here.methods = Unlocks /\ drive'.guard[0] = drive.guard[0]
                 /\ drive'.reset = drive.reset /\ drive'.locked[0] = {}
        BY <4>4, MethodsDiffer
      <4>5. CASE Here.methods = Guards /\ drive'.guard[0] = Modes
                 /\ 0 \in drive'.reset /\ drive'.locked[0] = drive.locked[0]
        BY <4>5, MethodsDiffer
      <4>. QED
        BY <1>4, <4>1, <4>2, <4>3, <4>4, <4>5 DEF OwnerStep, OwnerMethod
    <3>. QED
      BY <3>1, <3>2, <3>3
  <2>9. OwnGiven'
    <3>1. \A a \in Firsts : Given(a)'
      BY <1>2, <2>6, OwnersAre DEF OwnGiven
    <3>. QED
      BY <1>0, <1>1, <2>7, <2>8, <3>1 DEF OwnGiven
  <2>. QED
    BY <2>3, <2>4, <2>5, <2>9
<1>. QED
  BY <1>1, <1>3, <1>4

(* A part of what such a command has to do: the masters in G are given     *)
(* their password in it, and the first band is used as U says.             *)
Part(j, ss, G, U) ==
  /\ ss \in Seq(SoundSessions) /\ Ordered(ss, InTurn(j))
  /\ \A s \in Range(ss) :
       \/ s \in Refusals /\ ~InBounds(0)
       \/ s \in Asks /\ s.methods # <<>>
       \/ s \in Takes(j) /\ s.methods = Gives(j, s.auth) /\ s.auth \in G
       \/ s \in Uses(j) /\ s.methods \in U /\ s.methods \in {Unlocks, Guards}
  /\ \A a \in G : \E s \in Range(ss) : s.sp = "none" \/ (s.auth = a /\ s.methods = Gives(j, a))
  /\ \A m \in U : \E s \in Range(ss) : s.sp = "none" \/ s.methods = m

LEMMA PartMethods ==
  ASSUME NEW j, NEW ss, NEW G, NEW U, Part(j, ss, G, U), NEW s \in Range(ss)
  PROVE  /\ s \in SoundSessions /\ (s.methods # <<>> \/ s.sp = "none")
         /\ s.methods = Gives(j, s.auth) => s.auth \in G
         /\ \A a : s.methods = Gives(j, a) => a = s.auth
         /\ s.methods \in {Unlocks, Guards} => s.methods \in U
<1>1. \/ s \in Refusals
      \/ s \in Asks /\ s.methods # <<>>
      \/ s \in Takes(j) /\ s.methods = Gives(j, s.auth) /\ s.auth \in G
      \/ s \in Uses(j) /\ s.methods \in U /\ s.methods \in {Unlocks, Guards}
  BY DEF Part
<1>2. s \in Asks => s.methods \notin {Unlocks, Guards} /\ \A a : s.methods # Gives(j, a)
  <2>1. \A p, g, h, l, k, t : SetBand(0, p, g, h, l, k, t).op = "setBand"
    BY DEF SetBand
  <2>2. s \in Asks => \A p, g, h, l, k, t : s.methods # <<SetBand(0, p, g, h, l, k, t)>>
    BY <2>1, AskOnly
  <2>3. \A a, p : SetPIN(a, p).op = "setPIN"
    BY DEF SetPIN
  <2>4. s \in Asks => \A a, p : s.methods # <<SetPIN(a, p)>>
    BY <2>3, AskOnly
  <2>. QED
    BY <2>2, <2>4, Zenon DEF Unlocks, Guards, Gives
<1>3. s \in SoundSessions
  BY <1>1 DEF Refusals, Asks, Takes, Uses
<1>4. CASE s \in Refusals
  BY <1>3, <1>4, MethodsDiffer DEF Refusals
<1>5. CASE s \in Asks /\ s.methods # <<>>
  BY <1>2, <1>3, <1>5
<1>6. CASE s \in Takes(j) /\ s.methods = Gives(j, s.auth) /\ s.auth \in G
  BY <1>3, <1>6, MethodsDiffer
<1>7. CASE s \in Uses(j) /\ s.methods \in U /\ s.methods \in {Unlocks, Guards}
  BY <1>3, <1>7, MethodsDiffer
<1>. QED
  BY <1>1, <1>4, <1>5, <1>6, <1>7

LEMMA JoinParts ==
  ASSUME NEW j, NEW s, NEW t, NEW G, NEW H, NEW U, NEW V,
         Part(j, s, G, U), Part(j, t, H, V), G \cap H = {}, H = {} \/ U = {}
  PROVE  Part(j, s \o t, G \cup H, U \cup V)
<1>1. s \in Seq(SoundSessions) /\ t \in Seq(SoundSessions)
      /\ Ordered(s, InTurn(j)) /\ Ordered(t, InTurn(j))
  BY DEF Part
<1>2. ASSUME NEW x \in Range(s), NEW y \in Range(t) PROVE <<x, y>> \in InTurn(j)
  <2>1. /\ x \in SoundSessions /\ (x.methods = Gives(j, x.auth) => x.auth \in G)
        /\ \A a : x.methods = Gives(j, a) => a = x.auth
        /\ x.methods \in {Unlocks, Guards} => x.methods \in U
    BY PartMethods
  <2>2. /\ y \in SoundSessions /\ (y.methods # <<>> \/ y.sp = "none")
        /\ y.methods = Gives(j, y.auth) => y.auth \in H
    BY PartMethods
  <2>. QED
    BY <2>1, <2>2 DEF InTurn
<1>3. /\ s \o t \in Seq(SoundSessions) /\ Range(s \o t) = Range(s) \cup Range(t)
      /\ Ordered(s \o t, InTurn(j))
  <2>. DEFINE R == InTurn(j)
  <2>1. Range(s) \X Range(t) \subseteq R
    BY <1>2
  <2>. HIDE DEF R
  <2>2. Ordered(s, R) /\ Ordered(t, R)
    BY <1>1 DEF R
  <2>3. /\ s \o t \in Seq(SoundSessions) /\ Range(s \o t) = Range(s) \cup Range(t)
        /\ Ordered(s \o t, R)
    BY <1>1, <2>1, <2>2, Joined
  <2>. QED
    BY <2>3 DEF R
<1>4. \A x \in Range(s \o t) :
        \/ x \in Refusals /\ ~InBounds(0)
        \/ x \in Asks /\ x.methods # <<>>
        \/ x \in Takes(j) /\ x.methods = Gives(j, x.auth) /\ x.auth \in G \cup H
        \/ x \in Uses(j) /\ x.methods \in U \cup V /\ x.methods \in {Unlocks, Guards}
  BY <1>3 DEF Part
<1>5. \A a \in G \cup H :
        \E x \in Range(s \o t) : x.sp = "none" \/ (x.auth = a /\ x.methods = Gives(j, a))
  BY <1>3 DEF Part
<1>6. \A m \in U \cup V : \E x \in Range(s \o t) : x.sp = "none" \/ x.methods = m
  BY <1>3 DEF Part
<1>. QED
  BY <1>3, <1>4, <1>5, <1>6 DEF Part

LEMMA OneTakes ==
  ASSUME NEW j, NEW x \in Takes(j), x.methods = Gives(j, x.auth)
  PROVE  Part(j, <<x>>, {x.auth}, {})
<1>1. Range(<<x>>) = {x} /\ Ordered(<<x>>, InTurn(j)) /\ <<x>> \in Seq(SoundSessions)
  BY Single DEF Takes
<1>. QED
  BY <1>1 DEF Part

LEMMA OneUses ==
  ASSUME NEW j, NEW x \in Uses(j), x.methods \in {Unlocks, Guards}
  PROVE  Part(j, <<x>>, {}, {x.methods})
<1>1. Range(<<x>>) = {x} /\ Ordered(<<x>>, InTurn(j)) /\ <<x>> \in Seq(SoundSessions)
  BY Single DEF Uses
<1>. QED
  BY <1>1 DEF Part

LEMMA AskParts ==
  ASSUME NEW j
  PROVE  /\ Part(j, getDefaultPassword, {}, {}) /\ Part(j, getMaxRanges, {}, {})
         /\ ~InBounds(0) => \A G, U : Part(j, Invalid, G, U)
<1>1. /\ getDefaultPassword = <<Head(getDefaultPassword)>> /\ getMaxRanges = <<Head(getMaxRanges)>>
      /\ Head(getDefaultPassword).methods # <<>> /\ Head(getMaxRanges).methods # <<>>
  BY DEF getDefaultPassword, getMaxRanges, Session
<1>2. /\ Range(getDefaultPassword) = {Head(getDefaultPassword)}
      /\ Range(getMaxRanges) = {Head(getMaxRanges)}
  <2>1. \A x : Range(<<x>>) = {x}
    BY Single
  <2>. QED
    BY <1>1, <2>1
<1>3. /\ getDefaultPassword \in Seq(SoundSessions) /\ Range(getDefaultPassword) \subseteq Asks
      /\ Ordered(getDefaultPassword, InTurn(j))
      /\ getMaxRanges \in Seq(SoundSessions) /\ Range(getMaxRanges) \subseteq Asks
      /\ Ordered(getMaxRanges, InTurn(j))
      /\ Invalid \in Seq(SoundSessions) /\ Range(Invalid) \subseteq Refusals /\ Range(Invalid) # {}
      /\ Ordered(Invalid, InTurn(j))
  BY AskPieces
<1>4. Part(j, getDefaultPassword, {}, {}) /\ Part(j, getMaxRanges, {}, {})
  BY <1>1, <1>2, <1>3 DEF Part
<1>5. ASSUME ~InBounds(0), NEW G, NEW U PROVE Part(j, Invalid, G, U)
  <2>1. \E s \in Range(Invalid) : s.sp = "none"
    BY <1>3 DEF Refusals
  <2>. QED
    BY <1>3, <1>5, <2>1 DEF Part
<1>. QED
  BY <1>4, <1>5

LEMMA TakesParts ==
  ASSUME NEW j \in JobRecords, NEW sp \in {"Admin", "Locking"}, NEW a \in Owners,
         NEW err, NEW ss, ss = Session(sp, a, Raw(MSID), Gives(j, a), err),
         a \in Firsts => err = "return", a \notin Firsts => err = "skip"
  PROVE  Part(j, ss, {a}, {}) /\ Head(ss) \in Takes(j)
<1>. DEFINE x == [sp |-> sp, auth |-> a, pin |-> Raw(MSID), methods |-> Gives(j, a), err |-> err]
<1>1. a \in Claimed \ {PSIDOwner}
  BY DEF Claimed, Owners, Authorities, SID, EraseMaster, BandMaster, PSIDOwner
<1>2. Gives(j, a) \in Seq(SoundMethods)
  BY <1>1, PinsTyped, MethodsSound DEF Gives, JobRecords
<1>3. err \in {"return", "skip", "opal", "list"} /\ sp \in {"Admin", "Locking", "none"}
      /\ Raw(MSID) \in Pins
  BY PinsTyped, PasswordAssumption
<1>4. Session(sp, a, Raw(MSID), Gives(j, a), err) = <<x>>
  BY DEF Session
<1>5. x \in SoundSessions
  <2>1. Head(Session(sp, a, Raw(MSID), Gives(j, a), err)) \in SoundSessions
    BY <1>1, <1>2, <1>3, SessionSound
  <2>. QED
    BY <1>4, <2>1
<1>6. /\ x.sp = sp /\ x.auth = a /\ x.pin = Raw(MSID) /\ x.methods = Gives(j, a) /\ x.err = err
  OBVIOUS
<1>. HIDE DEF x
<1>7. x \in Takes(j)
  BY <1>5, <1>6 DEF Takes
<1>8. Part(j, <<x>>, {a}, {}) /\ Head(<<x>>) = x
  BY <1>6, <1>7, OneTakes
<1>. QED
  BY <1>4, <1>6, <1>7, <1>8

(* The masters of the bands.                                               *)
LEMMA InitialisedParts ==
  ASSUME Unmasked, NEW j \in JobRecords
  PROVE  Part(j, [i \in 1..Len(BandSeq) |-> Head(Initialised(j, BandSeq[i]))],
              {BandMaster(b) : b \in Bands}, {})
<1>. DEFINE h(b) == Head(Initialised(j, b))
            ss   == [i \in 1..Len(BandSeq) |-> h(BandSeq[i])]
<1>1. ASSUME NEW b \in Bands
      PROVE  /\ h(b) \in Takes(j) /\ h(b).auth = BandMaster(b)
             /\ h(b).methods = Gives(j, BandMaster(b))
  <2>1. setband(b) = b /\ Master(b) = BandMaster(b)
    BY DEF Unmasked, setband, Master
  <2>2. BandMaster(b) \in Owners /\ (BandMaster(b) \in Firsts <=> b = 0)
    BY OwnersAre DEF Firsts, BandMaster, SID, EraseMaster
  <2>3. Initialised(j, b) =
          Session("Locking", BandMaster(b), Raw(MSID), Gives(j, BandMaster(b)),
                  IF b = 0 THEN "return" ELSE "skip")
    BY <2>1 DEF Initialised, Gives
  <2>. DEFINE a   == BandMaster(b)
              err == IF b = 0 THEN "return" ELSE "skip"
              x   == Session("Locking", a, Raw(MSID), Gives(j, a), err)
  <2>4. a \in Owners /\ (a \in Firsts => err = "return") /\ (a \notin Firsts => err = "skip")
    BY <2>2
  <2>5. Initialised(j, b) = x
    BY <2>3
  <2>6. x = Session("Locking", a, Raw(MSID), Gives(j, a), err)
    OBVIOUS
  <2>7. "Locking" \in {"Admin", "Locking"}
    OBVIOUS
  <2>. HIDE DEF err, x, a
  <2>8. Head(x) \in Takes(j)
    BY <2>4, <2>6, <2>7, TakesParts
  <2>9. Head(x).auth = a /\ Head(x).methods = Gives(j, a)
    BY <2>6 DEF Session
  <2>. QED
    BY <2>5, <2>8, <2>9 DEF a
<1>2. /\ Len(BandSeq) \in Nat /\ \A i \in 1..Len(BandSeq) : BandSeq[i] \in Bands
      /\ \A b \in Bands : \E i \in 1..Len(BandSeq) : b = BandSeq[i]
      /\ \A i, k \in 1..Len(BandSeq) : i < k => BandSeq[i] # BandSeq[k]
  BY BandAssumption DEF Bands
<1>. HIDE DEF h
<1>3. \A b \in Bands : h(b) \in SoundSessions
  BY <1>1 DEF Takes
<1>4. /\ ss \in Seq(SoundSessions) /\ DOMAIN ss = 1..Len(BandSeq) /\ Len(ss) = Len(BandSeq)
      /\ \A i \in 1..Len(BandSeq) : ss[i] = h(BandSeq[i])
  BY <1>2, <1>3
<1>. HIDE DEF ss
<1>5. ASSUME NEW i \in 1..Len(ss), NEW k \in 1..Len(ss), i < k PROVE <<ss[i], ss[k]>> \in InTurn(j)
  <2>1. PICK b \in Bands, c \in Bands : b # c /\ ss[i] = h(b) /\ ss[k] = h(c)
    BY <1>2, <1>4, <1>5
  <2>2. BandMaster(b) # BandMaster(c)
    BY <2>1 DEF BandMaster
  <2>3. /\ ss[i] \in SoundSessions /\ ss[i].methods = Gives(j, BandMaster(b))
        /\ ss[k] \in SoundSessions /\ ss[k].methods = Gives(j, BandMaster(c))
        /\ ss[k].auth = BandMaster(c)
    BY <1>1, <1>3, <2>1
  <2>4. /\ Gives(j, BandMaster(b)) \notin {Unlocks, Guards, Gives(j, BandMaster(c))}
        /\ Gives(j, BandMaster(c)) # <<>>
    BY <2>2, MethodsDiffer
  <2>. QED
    BY <2>3, <2>4 DEF InTurn
<1>6. Range(ss) = {h(b) : b \in Bands}
  BY <1>2, <1>4 DEF Range
<1>7. Part(j, ss, {BandMaster(b) : b \in Bands}, {})
  <2>1. \A s \in Range(ss) :
          s \in Takes(j) /\ s.methods = Gives(j, s.auth) /\ s.auth \in {BandMaster(b) : b \in Bands}
    BY <1>1, <1>6
  <2>2. \A a \in {BandMaster(b) : b \in Bands} :
          \E s \in Range(ss) : s.auth = a /\ s.methods = Gives(j, a)
    BY <1>1, <1>6
  <2>. QED
    BY <1>4, <1>5, <2>1, <2>2 DEF Part, Ordered
<1>. QED
  BY <1>7 DEF ss, h

LEMMA NoParts == ASSUME NEW j PROVE Part(j, <<>>, {}, {})
<1>1. <<>> \in Seq(SoundSessions) /\ Range(<<>>) = {} /\ Ordered(<<>>, InTurn(j))
  BY DEF Range, Ordered
<1>. QED
  BY <1>1 DEF Part

LEMMA UsesParts ==
  ASSUME Unmasked, NEW j \in JobRecords, j.cmd = "initialSetup"
  PROVE  /\ Part(j, setLockingRange(j, 0, "RW"), {}, {Unlocks})
         /\ Part(j, configureLockingRange(j, 0, Modes), {}, {Guards})
<1>. DEFINE x(ms) == [sp |-> "Locking", auth |-> BandMaster(0), pin |-> HashPwd(j, j.pw),
                      methods |-> ms, err |-> "return"]
<1>1. setband(0) = 0 /\ Master(0) = BandMaster(0)
  BY DEF setband, Master
<1>2. ASSUME NEW ms \in {Unlocks, Guards} PROVE Part(j, <<x(ms)>>, {}, {ms})
  <2>1. BandMaster(0) \in Claimed \ {PSIDOwner}
    BY OwnersAre DEF Claimed, Owners, Authorities, BandMaster, PSIDOwner
  <2>2. ms \in Seq(SoundMethods) /\ HashPwd(j, j.pw) \in Pins
    <3>1. /\ <<SetBand(setband(0), {}, {}, {}, Modes, {}, {})>> \in Seq(SoundMethods)
          /\ <<SetBand(setband(0), {}, Modes, Modes, {}, {}, {TRUE})>> \in Seq(SoundMethods)
      BY OwnersAre, SetBandSound, {} \in SUBSET BOOLEAN, {TRUE} \in SUBSET BOOLEAN,
         {} \in SUBSET Places, Modes \in SUBSET Modes, {} \in SUBSET Modes
    <3>2. HashPwd(j, j.pw) \in Pins
      BY PinsTyped DEF JobRecords
    <3>. QED
      BY <1>1, <3>1, <3>2 DEF Unlocks, Guards
  <2>3. Session("Locking", BandMaster(0), HashPwd(j, j.pw), ms, "return") = <<x(ms)>>
    BY DEF Session
  <2>4. x(ms) \in SoundSessions
    <3>1. Head(Session("Locking", BandMaster(0), HashPwd(j, j.pw), ms, "return"))
            \in SoundSessions
      BY <2>1, <2>2, SessionSound
    <3>. QED
      BY <2>3, <3>1
  <2>5. x(ms).sp = "Locking" /\ x(ms).auth = BandMaster(0) /\ x(ms).pin = HashPwd(j, j.pw)
        /\ x(ms).methods = ms /\ x(ms).err = "return"
    OBVIOUS
  <2>. DEFINE y == x(ms)
  <2>. HIDE DEF x
  <2>6. y \in Uses(j) /\ y.methods = ms
    BY <2>4, <2>5 DEF Uses
  <2>. HIDE DEF y
  <2>7. Part(j, <<y>>, {}, {y.methods})
    BY <2>6, OneUses
  <2>. QED
    BY <2>6, <2>7 DEF y
<1>3. configureLockingRange(j, 0, Modes) = <<x(Guards)>>
  BY <1>1 DEF configureLockingRange, Locking, Session, Guards
<1>4. setLockingRange(j, 0, "RW") =
        getMaxRanges \o IF InBounds(0) THEN <<x(Unlocks)>> ELSE Invalid
  BY <1>1 DEF setLockingRange, Within, Locking, Session, Unlocks
<1>. HIDE DEF x
<1>5. Part(j, IF InBounds(0) THEN <<x(Unlocks)>> ELSE Invalid, {}, {Unlocks})
  BY <1>2, AskParts
<1>6. Part(j, getMaxRanges \o IF InBounds(0) THEN <<x(Unlocks)>> ELSE Invalid,
           {} \cup {}, {} \cup {Unlocks})
  <2>. DEFINE t == IF InBounds(0) THEN <<x(Unlocks)>> ELSE Invalid
  <2>1. Part(j, getMaxRanges, {}, {}) /\ Part(j, t, {}, {Unlocks})
    BY <1>5, AskParts
  <2>. HIDE DEF t
  <2>2. Part(j, getMaxRanges \o t, {} \cup {}, {} \cup {Unlocks})
    BY <2>1, JoinParts
  <2>. QED
    BY <2>2 DEF t
<1>7. {} \cup {Unlocks} = {Unlocks} /\ {} \cup {} = {}
  OBVIOUS
<1>. QED
  BY <1>2, <1>3, <1>4, <1>6, <1>7

LEMMA OwnershipParts ==
  ASSUME Unmasked, NEW j \in JobRecords
  PROVE  Part(j, takeOwnership(j), Owners, {})
<1>. DEFINE Masters == {BandMaster(b) : b \in Bands}
            sid     == Session("Admin", SID, Raw(MSID), Gives(j, SID), "return")
            em      == Session("Locking", EraseMaster, Raw(MSID), Gives(j, EraseMaster), "return")
            inits   == [i \in 1..Len(BandSeq) |-> Head(Initialised(j, BandSeq[i]))]
            bands   == IF InBounds(0) THEN inits ELSE Invalid
<1>1. setSIDPassword(j, Raw(MSID), j.pw) = <<>> \o sid
  BY PasswordAssumption DEF setSIDPassword, DefaultFor, Raw, Gives
<1>2. initLSPUsers(j) = em \o (getMaxRanges \o bands)
  BY DEF initLSPUsers, Locking, Within, Gives
<1>3. Part(j, sid, {SID}, {}) /\ Part(j, em, {EraseMaster}, {})
  <2>1. {SID, EraseMaster} \subseteq Owners /\ {SID, EraseMaster} \subseteq Firsts
    BY DEF Owners, Firsts
  <2>. QED
    BY <2>1, TakesParts
<1>4. Part(j, bands, Masters, {})
  BY InitialisedParts, AskParts
<1>5. SID # EraseMaster /\ SID \notin Masters /\ EraseMaster \notin Masters
  BY DEF SID, EraseMaster, BandMaster
<1>6. Owners = {SID} \cup ({EraseMaster} \cup Masters)
  BY DEF Owners
<1>. HIDE DEF sid, em, bands, Masters
<1>7. Part(j, getMaxRanges \o bands, Masters, {})
  <2>1. Part(j, getMaxRanges \o bands, {} \cup Masters, {} \cup {})
    BY <1>4, AskParts, JoinParts
  <2>2. {} \cup Masters = Masters /\ {} \cup {} = {}
    OBVIOUS
  <2>. QED
    BY <2>1, <2>2
<1>8. Part(j, initLSPUsers(j), {EraseMaster} \cup Masters, {})
  <2>1. Part(j, em \o (getMaxRanges \o bands), {EraseMaster} \cup Masters, {} \cup {})
    BY <1>3, <1>5, <1>7, JoinParts
  <2>. QED
    BY <1>2, <2>1
<1>9. Part(j, getDefaultPassword \o setSIDPassword(j, Raw(MSID), j.pw), {SID}, {})
  <2>1. Part(j, <<>> \o sid, {} \cup {SID}, {} \cup {})
    BY <1>3, NoParts, JoinParts
  <2>2. {} \cup {SID} = {SID} /\ {} \cup {} = {}
    OBVIOUS
  <2>3. Part(j, setSIDPassword(j, Raw(MSID), j.pw), {SID}, {})
    BY <1>1, <2>1, <2>2
  <2>4. Part(j, getDefaultPassword \o setSIDPassword(j, Raw(MSID), j.pw),
             {} \cup {SID}, {} \cup {})
    BY <2>3, AskParts, JoinParts
  <2>. QED
    BY <2>2, <2>4
<1>10. Part(j, takeOwnership(j), {SID} \cup ({EraseMaster} \cup Masters), {} \cup {})
  <2>. DEFINE s == getDefaultPassword \o setSIDPassword(j, Raw(MSID), j.pw)
              t == initLSPUsers(j)
  <2>1. takeOwnership(j) = s \o t
    BY DEF takeOwnership
  <2>2. Part(j, s, {SID}, {}) /\ Part(j, t, {EraseMaster} \cup Masters, {})
    BY <1>8, <1>9
  <2>3. {SID} \cap ({EraseMaster} \cup Masters) = {}
    BY <1>5
  <2>. HIDE DEF s, t
  <2>4. Part(j, s \o t, {SID} \cup ({EraseMaster} \cup Masters), {} \cup {})
    BY <2>2, <2>3, JoinParts
  <2>. QED
    BY <2>1, <2>4
<1>11. {} \cup {} = {}
  OBVIOUS
<1>. QED
  BY <1>6, <1>10, <1>11

LEMMA OwningStarts ==
  ASSUME Unmasked, NEW j \in JobRecords, Owner(j)
  PROVE  \E U : /\ Part(j, Handler(j), Owners, U)
                /\ U = IF j.cmd = "initialSetup" THEN {Unlocks, Guards} ELSE {}
<1>1. CASE j.cmd = "takeOwnership"
  <2>1. Handler(j) = takeOwnership(j)
    BY <1>1 DEF Handler, Ignored, Rejected
  <2>. QED
    BY <1>1, <2>1, OwnershipParts
<1>2. CASE j.cmd = "initialSetup"
  <2>. DEFINE s == takeOwnership(j)
              t == setLockingRange(j, 0, "RW")
              u == configureLockingRange(j, 0, Modes)
  <2>1. Handler(j) = (s \o t) \o u
    BY <1>2 DEF Handler, Ignored, Rejected, initialSetup
  <2>2. Part(j, s, Owners, {}) /\ Part(j, t, {}, {Unlocks}) /\ Part(j, u, {}, {Guards})
    BY <1>2, OwnershipParts, UsesParts
  <2>. HIDE DEF s, t, u
  <2>3. Part(j, s \o t, Owners \cup {}, {} \cup {Unlocks})
    BY <2>2, JoinParts
  <2>4. Owners \cup {} = Owners /\ {} \cup {Unlocks} = {Unlocks}
        /\ {Unlocks} \cup {Guards} = {Unlocks, Guards}
    OBVIOUS
  <2>5. Part(j, (s \o t) \o u, Owners \cup {}, {Unlocks} \cup {Guards})
    BY <2>2, <2>3, <2>4, JoinParts
  <2>. QED
    BY <1>2, <2>1, <2>4, <2>5
<1>. QED
  BY <1>1, <1>2 DEF Owner

LEMMA OwningStep ==
  ASSUME Unmasked
  PROVE  IInv /\ Calm /\ Owning /\ [Next]_vars => Owning'
<1>. SUFFICES ASSUME IInv, Calm, Owning, [Next]_vars, Runs', ~Runs, Owner(job')
              PROVE  OwnFrame' /\ OwnTodo' /\ OwnGiven' /\ OwnClean'
  BY OwningKeeps DEF Owning
<1>1. Launch
  BY LaunchRuns
<1>2. job' \in JobRecords /\ todo' = Handler(job') /\ was' = drive /\ drive' = drive
      /\ seen' = "none" /\ drive \in Drives
  BY <1>1, JobTyped DEF Launch, Calm, IInv, Machine
<1>3. PICK U : /\ Part(job', todo', Owners, U)
               /\ U = IF job'.cmd = "initialSetup" THEN {Unlocks, Guards} ELSE {}
  BY <1>2, OwningStarts
<1>4. \A s \in Range(todo') :
        /\ (s \in Refusals /\ ~InBounds(0)) \/ s \in Asks \/ s \in Takes(job') \/ s \in Uses(job')
        /\ s.methods # <<>> \/ s.sp = "none"
  <2>. DEFINE j == job'
              ss == todo'
  <2>1. Part(j, ss, Owners, U)
    BY <1>3
  <2>. HIDE DEF j, ss
  <2>2. \A s \in Range(ss) :
          (s \in Refusals /\ ~InBounds(0)) \/ s \in Asks \/ s \in Takes(j) \/ s \in Uses(j)
    BY <2>1 DEF Part
  <2>3. \A s \in Range(ss) : s.methods # <<>> \/ s.sp = "none"
    BY <2>1, PartMethods
  <2>. QED
    BY <2>2, <2>3 DEF j, ss
<1>5. OwnFrame'
  <2>1. drive' = [was' EXCEPT !.pin = drive'.pin]
    BY <1>2 DEF Drives
  <2>. QED
    BY <1>2, <2>1 DEF OwnFrame
<1>6. OwnTodo'
  <2>1. todo' # <<>> => Head(todo') \in Range(todo')
    BY <1>3, Parts DEF Part
  <2>2. todo' # <<>> => Here'.methods # <<>> \/ Here'.sp = "none"
    BY <1>4, <2>1 DEF Here
  <2>3. Range(todo') \subseteq Asks \cup Refusals \cup Takes(job') \cup Uses(job')
    BY <1>4
  <2>. QED
    BY <1>3, <2>2, <2>3 DEF OwnTodo, Part
<1>7. OwnGiven'
  <2>1. \A a \in Owners : Given(a)'
    BY <1>3 DEF Part, Given, Owed
  <2>2. \A b \in was'.enabled : BandMaster(b) \in Owners
    BY <1>2, OwnersAre DEF Drives
  <2>3. job'.cmd = "initialSetup" => Due(Unlocks)' /\ Due(Guards)'
    BY <1>3 DEF Part, Due
  <2>. QED
    BY <2>1, <2>2, <2>3, OwnersAre DEF OwnGiven
<1>8. OwnClean'
  <2>. SUFFICES ASSUME Ready', NEW s \in Range(todo')
                PROVE  /\ s.sp # "none"
                       /\ s.auth \in Firsts => drive'.pin[s.auth] = Raw(MSID)
    BY DEF OwnClean
  <2>1. InBounds(0)
    <3>1. MaxRanges \in Bands /\ 0 \in Nat
      BY BandAssumption DEF Bands, MaxRanges
    <3>2. MaxRanges \in 0 .. 254 /\ MaxRanges > 0
      BY <3>1 DEF Unmasked, Ready
    <3>. QED
      BY <3>2 DEF InBounds
  <2>2. s.sp # "none"
    BY <1>4, <2>1 DEF Asks, Takes, Uses
  <2>3. \A a \in Firsts : drive'.pin[a] = Raw(MSID)
    BY <1>2 DEF Ready, Fresh, Firsts
  <2>. QED
    BY <2>2, <2>3
<1>. QED
  BY <1>5, <1>6, <1>7, <1>8

-----------------------------------------------------------------------------
(* What a command promises                                                 *)

Promises ==
  /\ Calm /\ Singly /\ Reading /\ Listing
  /\ Unmasked => Enabling /\ Owning

LEMMA PromisesInit == Init => Promises
<1>. SUFFICES ASSUME Init PROVE Promises
  OBVIOUS
<1>1. ~Runs /\ seen = "none" /\ state # "session"
  BY DEF Init, Runs
<1>. QED
  BY <1>1 DEF Promises, Calm, Singly, Reading, Listing, Enabling, Owning

LEMMA PromisesStep == IInv /\ Promises /\ [Next]_vars => Promises'
BY CalmStep, SinglyStep, ReadingStep, ListingStep, EnablingStep, OwningStep DEF Promises

LEMMA PromisesHold == Spec => [](IInv /\ Promises)
BY InitSound, StepSound, PromisesInit, PromisesStep, PTL DEF Spec

(* The one method that matters has done what the command promises.         *)
LEMMA SingleDone ==
  ASSUME Unmasked, NEW j \in JobRecords, j.cmd \in Singles, j.cmd \notin Rejected,
         NEW d \in Drives, NEW faulty,
         Effect(j).op \in {"setBand", "genKey", "erase", "enable"} => Effect(j).band \in Bands
  PROVE  Done(j, d, Performed(d, Effect(j)), faulty)
<1>0. setband(j.band) = j.band /\ j.band \in Nat
  <2>1. j.band \in Bands \cup Named
    BY DEF JobRecords
  <2>2. j.band \in 0 .. 254
    BY <2>1 DEF Unmasked
  <2>. QED
    BY <2>2 DEF setband
<1>1. CASE j.cmd = "setSIDPassword"
  <2>1. Performed(d, SetPIN(SID, HashPwd(j, j.new))) = [d EXCEPT !.pin[SID] = HashPwd(j, j.new)]
    BY DEF Performed, SetPIN
  <2>. QED
    BY <1>1, <2>1, EffectIs DEF Done, Ignored
<1>2. CASE j.cmd = "setPassword"
  <2>1. Performed(d, SetPIN(j.user, OrMSID(j, j.new))) =
          [d EXCEPT !.pin[j.user] = OrMSID(j, j.new)]
    BY DEF Performed, SetPIN
  <2>. QED
    BY <1>2, <2>1, EffectIs DEF Done, Ignored
<1>3. CASE j.cmd \in {"configureLockingRange", "setLockingRange", "setupLockingRange"}
  <2>. DEFINE b == j.band
              m == Effect(j)
              place == IF m.place = {} THEN d.place[b] ELSE CHOOSE x \in m.place : TRUE
              stale == IF m.place = {} THEN d.stale ELSE d.stale \cup {b}
              guard == (d.guard[b] \ m.guardOf) \cup m.guard
              locked == (d.locked[b] \ m.lockOf) \cup m.lock
              reset == IF TRUE \in m.reset THEN d.reset \cup {b}
                       ELSE IF FALSE \in m.reset THEN d.reset \ {b} ELSE d.reset
              p == [d EXCEPT !.place[b] = place, !.stale = stale, !.guard[b] = guard,
                             !.locked[b] = locked, !.reset = reset]
  <2>1. m.op = "setBand" /\ m.band = b
    <3>1. CASE j.cmd = "configureLockingRange"
      <4>1. m = SetBand(setband(j.band), {}, Modes, j.guard, {}, {}, {TRUE})
        BY <3>1, EffectIs, Zenon
      <4>. QED
        BY <1>0, <4>1 DEF SetBand
    <3>2. CASE j.cmd = "setLockingRange"
      <4>1. m = SetBand(setband(j.band), {}, {}, {}, Modes,
                        IF j.lock = "LK" THEN Modes ELSE {}, {})
        BY <3>2, EffectIs, Zenon
      <4>. QED
        BY <1>0, <4>1 DEF SetBand
    <3>3. CASE j.cmd = "setupLockingRange"
      <4>1. m = SetBand(setband(j.band), {j.place}, Modes, {}, Modes, {}, {FALSE})
        BY <3>3, EffectIs, Zenon
      <4>. QED
        BY <1>0, <4>1 DEF SetBand
    <3>. QED
      BY <1>3, <3>1, <3>2, <3>3
  <2>2. Performed(d, m) = p /\ b \in Bands
    BY <2>1 DEF Performed
  <2>3. p.place[b] = place /\ p.guard[b] = guard /\ p.locked[b] = locked
    <3>. HIDE DEF place, stale, guard, locked, reset
    <3>. QED
      BY <2>2 DEF Drives
  <2>4. d.guard[b] \subseteq Modes /\ d.locked[b] \subseteq Modes
    BY <2>2 DEF Drives
  <2>5. CASE j.cmd = "configureLockingRange"
    <3>1. m.guardOf = Modes /\ m.guard = j.guard
      <4>1. m = SetBand(setband(j.band), {}, Modes, j.guard, {}, {}, {TRUE})
        BY <2>5, EffectIs, Zenon
      <4>. QED
        BY <4>1 DEF SetBand
    <3>2. guard = j.guard
      BY <2>4, <3>1
    <3>. QED
      BY <2>2, <2>3, <2>5, <3>2 DEF Done, Ignored
  <2>6. CASE j.cmd = "setLockingRange"
    <3>1. m.lockOf = Modes /\ m.lock = IF j.lock = "LK" THEN Modes ELSE {}
      <4>1. m = SetBand(setband(j.band), {}, {}, {}, Modes,
                        IF j.lock = "LK" THEN Modes ELSE {}, {})
        BY <2>6, EffectIs, Zenon
      <4>. QED
        BY <4>1 DEF SetBand
    <3>2. locked = IF j.lock = "LK" THEN Modes ELSE {}
      BY <2>4, <3>1
    <3>. QED
      BY <2>2, <2>3, <2>6, <3>2 DEF Done, Ignored
  <2>7. CASE j.cmd = "setupLockingRange"
    <3>1. /\ m.place = {j.place} /\ m.guardOf = Modes /\ m.guard = {}
          /\ m.lockOf = Modes /\ m.lock = {}
      <4>1. m = SetBand(setband(j.band), {j.place}, Modes, {}, Modes, {}, {FALSE})
        BY <2>7, EffectIs, Zenon
      <4>. QED
        BY <4>1 DEF SetBand
    <3>2. guard = {} /\ locked = {}
      BY <2>4, <3>1
    <3>3. place = j.place
      <4>1. \A x : (CHOOSE y \in {x} : TRUE) = x /\ {x} # {}
        OBVIOUS
      <4>. QED
        BY <3>1, <4>1
    <3>. QED
      BY <2>2, <2>3, <2>7, <3>2, <3>3 DEF Done, Ignored
  <2>. QED
    BY <1>3, <2>5, <2>6, <2>7
<1>4. CASE j.cmd = "rekeyLockingRange"
  <2>1. CASE j.band \in Plain
    <3>1. j.band \notin Performed(d, Effect(j)).stale \ Plain
      BY <2>1
    <3>. QED
      BY <1>4, <3>1 DEF Done, Ignored
  <2>2. CASE j.band \notin Plain
    <3>1. Effect(j) = [op |-> "genKey", band |-> j.band]
      BY <1>0, <1>4, <2>2, EffectIs
    <3>2. Performed(d, Effect(j)).stale = d.stale \ {j.band}
      BY <3>1 DEF Performed, Drives
    <3>. QED
      BY <1>4, <3>2 DEF Done, Ignored
  <2>. QED
    BY <2>1, <2>2
<1>5. CASE j.cmd = "eraseLockingRange"
  <2>1. Effect(j) = [op |-> "erase", band |-> j.band]
    BY <1>0, <1>5, EffectIs
  <2>2. j.band \in Bands /\ BandMaster(j.band) \in Authorities
    BY <2>1 DEF Authorities
  <2>. DEFINE p == [d EXCEPT !.stale = d.stale \ {j.band}, !.guard[j.band] = {},
                             !.locked[j.band] = {}, !.pin[BandMaster(j.band)] = Raw(MSID)]
  <2>3. Performed(d, Effect(j)) = p
    BY <2>1 DEF Performed
  <2>4. p.guard[j.band] = {} /\ j.band \notin p.stale /\ p.pin[BandMaster(j.band)] = Raw(MSID)
    BY <2>2 DEF Drives
  <2>. QED
    BY <1>5, <2>3, <2>4 DEF Done, Ignored
<1>6. CASE j.cmd = "setBandEnabled"
  <2>1. Effect(j) = [op |-> "enable", band |-> j.band]
    BY <1>0, <1>6, EffectIs
  <2>2. Performed(d, Effect(j)) = [d EXCEPT !.enabled = @ \cup {j.band}]
    BY <2>1 DEF Performed
  <2>. QED
    BY <1>6, <2>2 DEF Done, Ignored
<1>7. CASE j.cmd \in {"revertLockingSP", "revertNoErase", "revertTPer", "PSIDrevert"}
  <2>1. Performed(d, Effect(j)) = Factory(d.info)
    <3>1. Effect(j) = [op |-> "revert"]
      BY <1>7, EffectIs, Zenon
    <3>. QED
      BY <3>1 DEF Performed
  <2>. QED
    BY <1>7, <2>1 DEF Done, Ignored
<1>8. CASE j.cmd \in Ignored
  <2>1. Performed(d, Effect(j)) = d
    <3>1. Effect(j) = Read
      BY <1>8, EffectIs, Zenon
    <3>. QED
      BY <3>1 DEF Performed, Read
  <2>. QED
    BY <1>8, <2>1 DEF Done, Ignored
<1>. QED
  BY <1>1, <1>2, <1>3, <1>4, <1>5, <1>6, <1>7, <1>8 DEF Singles

(* Only a command of one method reverts the drive.                         *)
LEMMA RevertIsSingle ==
  ASSUME IInv, Promises, Unmasked, Runs, state = "session", todo # <<>>, Here.methods # <<>>,
         CalledMethod.op = "revert"
  PROVE  job.cmd \in Singles /\ CalledMethod = Effect(job)
<1>1. Here \notin Asks
  BY AskCalled DEF CalledMethod
<1>2. Here \notin Lists
  <2>1. \A x : Head(<<x>>) = x
    OBVIOUS
  <2>2. Read.op = "read"
    BY DEF Read
  <2>. QED
    BY <2>1, <2>2, Zenon DEF Lists, CalledMethod
<1>3. Here \notin Refusals
  BY DEF Refusals
<1>4. Here \notin Enables(job)
  <2>1. \A b : Head(<<Enable(b)>>) = Enable(b) /\ Enable(b).op = "enable"
    BY DEF Enable
  <2>. QED
    BY <2>1, Zenon DEF Enables, CalledMethod
<1>5. Here \notin Takes(job)
  <2>1. \A a : Head(Gives(job, a)).op = "setPIN"
    BY DEF Gives, SetPIN
  <2>. QED
    BY <2>1, Zenon DEF Takes, CalledMethod
<1>6. Here \notin Uses(job)
  <2>1. Head(Unlocks).op = "setBand" /\ Head(Guards).op = "setBand"
    BY DEF Unlocks, Guards, SetBand
  <2>. QED
    BY <2>1, Zenon DEF Uses, CalledMethod
<1>7. Here \in Range(todo)
  BY LeftToDo
<1>8. job.cmd \in Singles
  <2>1. job.cmd \in CommandNames
    BY JobTyped DEF Promises, Calm, JobRecords
  <2>2. job.cmd \notin {"listLockingRanges", "listLockingRange"}
    BY <1>1, <1>2, <1>3, <1>7 DEF Promises, Listing
  <2>3. job.cmd # "setBandsEnabled"
    BY <1>1, <1>3, <1>4, <1>7 DEF Promises, Enabling
  <2>4. job.cmd \notin {"takeOwnership", "initialSetup"}
    BY <1>1, <1>3, <1>5, <1>6, <1>7 DEF Promises, Owning, Owner, OwnTodo
  <2>. QED
    BY <2>1, <2>2, <2>3, <2>4 DEF CommandNames, Singles
<1>9. Waiting
  <2>1. Here = todo[1]
    BY LeftToDo DEF Here
  <2>. QED
    BY <1>8, <2>1 DEF Promises, Singly, Finished
<1>10. Here \in Lasts(job) /\ Here.sp # "none"
  BY <1>1, <1>9, WaitingStep DEF Waiting, Promises, Calm
<1>11. Head(Here.methods) = Effect(job) \/ Head(Here.methods) = Read
  BY <1>10, LastCalled
<1>. QED
  BY <1>8, <1>11 DEF CalledMethod, Read

LEMMA OkMeansDone ==
  ASSUME IInv, Promises, Unmasked, Next, Returns("ok")
  PROVE  Done(job, was, drive', fault)
<1>1. Runs /\ job \in JobRecords /\ was \in Drives /\ drive \in Drives
  BY JobTyped DEF Returns, Promises, Calm, IInv, Machine, Process
<1>2. \/ state = "running" /\ todo = <<>> /\ seen # "failed" /\ drive' = drive
      \/ /\ state = "session" /\ todo # <<>> /\ Here.methods # <<>>
         /\ CalledMethod.op = "revert" /\ drive' = Performed(drive, CalledMethod)
  BY OkStep DEF Promises
<1>3. CASE /\ state = "session" /\ todo # <<>> /\ Here.methods # <<>>
           /\ CalledMethod.op = "revert" /\ drive' = Performed(drive, CalledMethod)
  <2>1. job.cmd \in Singles /\ CalledMethod = Effect(job)
    BY <1>1, <1>3, RevertIsSingle
  <2>2. Waiting
    <3>1. Here = todo[1]
      BY <1>3, LeftToDo DEF Here
    <3>. QED
      BY <1>1, <1>3, <2>1, <3>1 DEF Promises, Singly, Finished
  <2>3. job.cmd \notin Rejected
    <3>1. job.cmd \in Rejected => Effect(job) = Read
      BY EffectIs, Zenon
    <3>. QED
      BY <1>3, <2>1, <3>1 DEF Read
  <2>4. Effect(job).op \notin {"setBand", "genKey", "erase", "enable"}
    BY <1>3, <2>1
  <2>5. drive' = Performed(was, Effect(job))
    BY <1>3, <2>1, <2>2 DEF Waiting
  <2>. QED
    BY <1>1, <2>1, <2>3, <2>4, <2>5, SingleDone
<1>4. CASE state = "running" /\ todo = <<>> /\ seen # "failed" /\ drive' = drive
  <2>1. Range(todo) = {}
    BY <1>4, Single
  <2>2. CASE job.cmd \in Singles
    <3>1. Finished
      BY <1>1, <1>4, <2>2 DEF Promises, Singly, Waiting, Shape
    <3>. QED
      BY <1>1, <1>4, <2>2, <3>1, SingleDone DEF Finished
  <2>3. CASE job.cmd \in {"listLockingRanges", "listLockingRange"}
    <3>1. drive = was /\ (fault \/ seen # "none")
      BY <1>1, <2>1, <2>3 DEF Promises, Listing
    <3>2. seen \in {"none", "one", "failed"}
      BY DEF IInv, Process
    <3>. QED
      BY <1>4, <2>3, <3>1, <3>2 DEF Done, Ignored
  <2>4. CASE job.cmd = "setBandsEnabled"
    <3>1. drive = [was EXCEPT !.enabled = drive.enabled] /\ Bands \subseteq drive.enabled
      BY <1>1, <2>1, <2>4 DEF Promises, Enabling
    <3>2. drive.enabled = Bands
      BY <1>1, <3>1 DEF Drives
    <3>. QED
      BY <1>4, <2>4, <3>1, <3>2 DEF Done, Ignored
  <2>5. CASE Owner(job)
    <3>1. OwnFrame /\ OwnGiven
      BY <1>1, <2>5 DEF Promises, Owning
    <3>2. \A a : ~Owed(a)
      BY <2>1 DEF Owed
    <3>3. ~Due(Unlocks) /\ ~Due(Guards)
      BY <2>1 DEF Due
    <3>4. Owned(was, drive, HashPwd(job, job.pw), fault)
      BY <3>1, <3>2 DEF OwnGiven, Given, Owned, Firsts
    <3>5. CASE job.cmd = "initialSetup"
      BY <1>4, <3>1, <3>3, <3>4, <3>5 DEF OwnGiven, Done, Ignored
    <3>6. CASE job.cmd = "takeOwnership"
      BY <1>4, <3>1, <3>4, <3>6 DEF OwnFrame, Done, Ignored
    <3>. QED
      BY <2>5, <3>5, <3>6 DEF Owner
  <2>6. job.cmd \in CommandNames
    BY <1>1 DEF JobRecords
  <2>. QED
    BY <2>2, <2>3, <2>4, <2>5, <2>6 DEF CommandNames, Singles, Owner
<1>. QED
  BY <1>2, <1>3, <1>4

(* A command that returns 0 has done all it promises, whatever state the   *)
(* commands, errors, ^C and power cuts before it have left the drive in,   *)
(* on a drive of bands that setband can name.                              *)
THEOREM SuccessKept ==
  ASSUME Unmasked
  PROVE  Spec => SuccessMeansDone
<1>1. IInv /\ Promises /\ [Next]_vars => [Returns("ok") => Done(job, was, drive', fault)]_vars
  BY OkMeansDone
<1>. QED
  BY <1>1, PromisesHold, PTL DEF Spec, SuccessMeansDone

-----------------------------------------------------------------------------
(* What a command leaves that fails                                        *)

(* What the drive refuses, though the transport does not fail.             *)
Refusal ==
  \/ /\ state = "running" /\ Here.err \notin {"skip", "list"}
     /\ Here.sp = "none" \/ ~Admits(drive, Here)
  \/ /\ state = "session" /\ Here.sp # "none" /\ Here.err = "return"
     /\ Here.methods # <<>> /\ ~Permits(drive, Here.auth, CalledMethod)

(* No band that is enabled after the first is refused.                     *)
LEMMA EnablingGoesThrough ==
  ASSUME IInv, Enabling, Runs, job.cmd = "setBandsEnabled", todo # <<>>, Refusal
  PROVE  drive = was
<1>. SUFFICES ASSUME drive # was PROVE FALSE
  OBVIOUS
<1>1. Here \in Enables(job) /\ drive.pin[EraseMaster] = OrMSID(job, job.pw)
  BY LeftToDo DEF Enabling
<1>2. Here.sp = "Locking" /\ Admits(drive, Here)
  BY <1>1 DEF Enables, Admits, EraseMaster, Authorities
<1>3. Here.methods # <<>> => Permits(drive, Here.auth, CalledMethod)
  <2>1. \A b : Head(<<Enable(b)>>) = Enable(b)
    OBVIOUS
  <2>2. \A b \in Bands : Permits(drive, EraseMaster, Enable(b))
    BY DEF Permits, Enable
  <2>3. Here.methods # <<>> => \E b \in Bands : CalledMethod = Enable(b)
    BY <1>1, <2>1, Zenon DEF Enables, CalledMethod
  <2>. QED
    BY <1>1, <2>2, <2>3 DEF Enables
<1>. QED
  BY <1>2, <1>3 DEF Refusal

(* Nothing that takeOwnership and initialSetup do on a fresh drive is.     *)
LEMMA OwningGoesThrough ==
  ASSUME IInv, Owning, Runs, Owner(job), Ready, todo # <<>>
  PROVE  ~Refusal
<1>1. /\ OwnFrame /\ OwnTodo /\ OwnGiven /\ OwnClean
      /\ drive \in Drives /\ Here \in Range(todo)
  BY LeftToDo DEF Owning, IInv, Machine
<1>2. Here.sp # "none" /\ (Here \in Asks \/ Here \in Takes(job) \/ Here \in Uses(job))
  BY <1>1 DEF OwnClean, OwnTodo, Refusals
<1>3. drive.info # "none" /\ 0 \in drive.enabled
  BY <1>1 DEF OwnFrame, Ready, Fresh
<1>4. \A x : Head(<<x>>) = x /\ <<x>> # <<>>
  OBVIOUS
<1>5. CASE Here \in Asks
  <2>1. Admits(drive, Here)
    BY <1>5 DEF Asks, Admits
  <2>2. Here.methods # <<>> /\ Here.err = "return" =>
          CalledMethod = Read \/ CalledMethod = [op |-> "infoOpal"]
    <3>1. Here.err = "return" => Here.methods \in {<<>>, <<Read>>, <<[op |-> "infoOpal"]>>}
      BY <1>5 DEF Asks
    <3>. QED
      BY <1>4, <3>1, Zenon DEF CalledMethod
  <2>3. Permits(drive, Here.auth, Read) /\ Permits(drive, Here.auth, [op |-> "infoOpal"])
    BY <1>3 DEF Permits, Read
  <2>. QED
    BY <1>2, <2>1, <2>2, <2>3 DEF Refusal
<1>6. CASE Here \in Takes(job)
  <2>1. /\ Here.auth \in Owners /\ Here.pin = Raw(MSID)
        /\ Here.methods \in {<<>>, Gives(job, Here.auth)}
        /\ Here.err = IF Here.auth \in Firsts THEN "return" ELSE "skip"
    BY <1>6 DEF Takes
  <2>2. ASSUME state = "running", Here.auth \in Firsts PROVE Admits(drive, Here)
    <3>1. Here.methods = Gives(job, Here.auth)
      BY <1>1, <1>2, <2>1, <2>2 DEF OwnTodo
    <3>2. drive.pin[Here.auth] = Raw(MSID)
      BY <1>1, <2>2, <3>1 DEF OwnClean
    <3>3. Here.auth[1] = "BandMaster" => Here.auth[2] = 0
      BY <2>2 DEF Firsts, SID, EraseMaster, BandMaster
    <3>. QED
      BY <1>3, <2>1, <3>2, <3>3, OwnersAre DEF Admits
  <2>3. Here.methods # <<>> => Permits(drive, Here.auth, CalledMethod)
    <3>1. Here.methods # <<>> => CalledMethod = SetPIN(Here.auth, HashPwd(job, job.pw))
      BY <1>4, <2>1, Zenon DEF CalledMethod, Gives
    <3>2. \A a, p : Permits(drive, a, SetPIN(a, p))
      BY DEF Permits, SetPIN
    <3>. QED
      BY <3>1, <3>2
  <2>. QED
    BY <1>2, <2>1, <2>2, <2>3 DEF Refusal
<1>7. CASE Here \in Uses(job)
  <2>1. /\ Here.auth = BandMaster(0) /\ Here.pin = HashPwd(job, job.pw)
        /\ Here.methods \in {<<>>, Unlocks, Guards}
    BY <1>7 DEF Uses
  <2>2. ASSUME state = "running" PROVE Admits(drive, Here)
    <3>1. Here.methods \in {Unlocks, Guards}
      BY <1>1, <1>2, <2>1, <2>2 DEF OwnTodo
    <3>2. \A y \in Range(Tail(todo)) : <<Here, y>> \in InTurn(job)
      BY <1>1, LeftToDo DEF OwnTodo
    <3>3. \A y \in Range(Tail(todo)) : y.methods # Gives(job, y.auth)
      BY <3>1, <3>2 DEF InTurn
    <3>4. ~Owed(BandMaster(0))
      <4>1. Range(todo) = {Here} \cup Range(Tail(todo)) /\ \A s \in Range(todo) : s.sp # "none"
        BY <1>1, LeftToDo DEF OwnClean
      <4>2. Here.methods # Gives(job, BandMaster(0))
        BY <3>1, MethodsDiffer
      <4>. QED
        BY <3>3, <4>1, <4>2 DEF Owed
    <3>5. drive.pin[BandMaster(0)] = HashPwd(job, job.pw)
      BY <1>1, <3>4 DEF OwnGiven, Given, Firsts
    <3>6. BandMaster(0)[2] = 0 /\ BandMaster(0) \in Authorities
      BY OwnersAre DEF BandMaster
    <3>. QED
      BY <1>3, <2>1, <3>5, <3>6 DEF Admits
  <2>3. Here.methods # <<>> => Permits(drive, Here.auth, CalledMethod)
    <3>1. /\ Permits(drive, BandMaster(0), SetBand(0, {}, {}, {}, Modes, {}, {}))
          /\ Permits(drive, BandMaster(0), SetBand(0, {}, Modes, Modes, {}, {}, {TRUE}))
      BY OwnersAre DEF Permits, SetBand
    <3>2. Here.methods # <<>> =>
            \/ CalledMethod = SetBand(0, {}, {}, {}, Modes, {}, {})
            \/ CalledMethod = SetBand(0, {}, Modes, Modes, {}, {}, {TRUE})
      BY <1>4, <2>1, Zenon DEF CalledMethod, Unlocks, Guards
    <3>. QED
      BY <2>1, <3>1, <3>2
  <2>. QED
    BY <1>2, <2>2, <2>3 DEF Refusal
<1>. QED
  BY <1>2, <1>5, <1>6, <1>7

LEMMA ErrMeansUndone ==
  ASSUME IInv, Promises, Unmasked, Next, Returns("err"), ~fault',
         job.cmd \in {"initialSetup", "takeOwnership"} =>
           Fresh(was) /\ 0 \in was.enabled /\ MaxRanges > 0
  PROVE  drive' = was
<1>1. Runs /\ job.cmd \in CommandNames
  BY JobTyped DEF Returns, Promises, Calm, JobRecords
<1>2. drive' = drive /\ \/ todo = <<>> /\ seen = "failed"
                        \/ todo # <<>> /\ Refusal
  BY ErrStep DEF Promises, Refusal
<1>3. CASE job.cmd \in Singles
  <2>1. seen = "none" /\ (Waiting \/ Finished)
    BY <1>1, <1>3 DEF Promises, Singly
  <2>2. todo # <<>> /\ Refusal
    BY <1>2, <2>1
  <2>3. Here = todo[1]
    BY <2>2, LeftToDo DEF Here
  <2>4. ~Finished
    BY <2>2, <2>3 DEF Finished, Refusal
  <2>. QED
    BY <1>2, <2>1, <2>4 DEF Waiting
<1>4. CASE job.cmd \in {"listLockingRanges", "listLockingRange"}
  BY <1>1, <1>2, <1>4 DEF Promises, Listing
<1>5. CASE job.cmd = "setBandsEnabled"
  BY <1>1, <1>2, <1>5, EnablingGoesThrough DEF Promises, Enabling
<1>6. CASE Owner(job)
  <2>1. Ready
    BY <1>6 DEF Owner, Ready
  <2>2. seen = "none"
    BY <1>1, <1>6 DEF Promises, Owning, OwnFrame
  <2>. QED
    BY <1>1, <1>2, <1>6, <2>1, <2>2, OwningGoesThrough DEF Promises
<1>. QED
  BY <1>1, <1>3, <1>4, <1>5, <1>6 DEF CommandNames, Singles, Owner

(* A command that fails although no exchange failed has left the drive as  *)
(* it found it; takeOwnership and initialSetup do, on a fresh drive.       *)
THEOREM CleanFailureKept ==
  ASSUME Unmasked
  PROVE  Spec => CleanFailureIsAtomic
<1>1. IInv /\ Promises /\ [Next]_vars =>
        [Returns("err") /\ ~fault'
         /\ (job.cmd \in {"initialSetup", "takeOwnership"} =>
               Fresh(was) /\ 0 \in was.enabled /\ MaxRanges > 0)
         => drive' = was]_vars
  BY ErrMeansUndone
<1>. QED
  BY <1>1, PromisesHold, PTL DEF Spec, CleanFailureIsAtomic

(* A takeOwnership that was interrupted can be finished by hand: setPassword *)
(* with the empty old password is refused to no master that has the MSID   *)
(* and may log in.                                                         *)
THEOREM MSIDSuffices == Spec => MSIDFinishes
<1>1. IInv /\ Promises /\ [Next]_vars =>
        [Returns("err") /\ ~fault' /\ job.cmd = "setPassword" /\ job.pw = Empty
           /\ job.user \in Authorities
           /\ (job.user[1] = "BandMaster" => job.user[2] \in was.enabled)
         => was.pin[job.user] # Raw(MSID)]_vars
  <2>. SUFFICES ASSUME IInv, Promises, Next, Returns("err"), ~fault',
                       job.cmd = "setPassword", job.pw = Empty, job.user \in Authorities,
                       job.user[1] = "BandMaster" => job.user[2] \in was.enabled
                PROVE  was.pin[job.user] # Raw(MSID)
    OBVIOUS
  <2>1. Runs /\ seen = "none" /\ (Waiting \/ Finished)
    BY DEF Promises, Singly, Singles, Returns
  <2>2. \/ /\ todo # <<>> /\ state = "running" /\ Here.err \notin {"skip", "list"}
           /\ Here.sp = "none" \/ ~Admits(drive, Here)
        \/ /\ todo # <<>> /\ state = "session" /\ Here.sp # "none" /\ Here.err = "return"
           /\ Here.methods # <<>> /\ ~Permits(drive, Here.auth, CalledMethod)
    BY <2>1, ErrStep DEF Promises
  <2>3. Waiting
    BY <2>1, <2>2 DEF Finished, Here
  <2>4. Here \in Lasts(job) \/ Here \in Asks
    BY <2>1, <2>2, <2>3, WaitingStep DEF Waiting, Promises
  <2>5. CASE Here \in Asks
    <3>1. Here.sp # "none" /\ Here.auth = Anybody
      BY <2>5 DEF Asks
    <3>2. Admits(drive, Here)
      BY <3>1 DEF Admits
    <3>3. Here.methods # <<>> => CalledMethod.op = "read"
      BY <2>1, <2>2, <2>5, AskCalled, LeftToDo DEF CalledMethod, Promises, Reading
    <3>. QED
      BY <2>2, <3>1, <3>2, <3>3 DEF Permits
  <2>6. CASE Here \in Lasts(job)
    <3>1. /\ Here.sp # "none" /\ Here.auth = job.user /\ Here.pin = OrMSID(job, job.pw)
          /\ Here.methods = <<Effect(job)>>
      BY <2>6 DEF Lasts
    <3>2. Here.pin = Raw(MSID) /\ CalledMethod = Effect(job)
      BY <3>1 DEF OrMSID, CalledMethod
    <3>3. Effect(job).op = "setPIN" /\ Effect(job).auth = job.user
      <4>1. Effect(job) = SetPIN(job.user, OrMSID(job, job.new))
        BY EffectIs, Zenon
      <4>. QED
        BY <4>1 DEF SetPIN
    <3>4. Permits(drive, Here.auth, CalledMethod)
      BY <3>1, <3>2, <3>3 DEF Permits
    <3>. QED
      BY <2>2, <2>3, <3>1, <3>2, <3>4 DEF Admits, Waiting
  <2>. QED
    BY <2>4, <2>5, <2>6
<1>. QED
  BY <1>1, PromisesHold, PTL DEF Spec, MSIDFinishes
=============================================================================
