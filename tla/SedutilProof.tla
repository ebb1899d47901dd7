---------------------------- MODULE SedutilProof ----------------------------
(***************************************************************************)
(* Proofs about a run of the program, for any disks and command lines.     *)
(* Discovery 0 and the properties exchange walk lists of any length; the   *)
(* lemmas about them need least and greatest numbers.                      *)
(***************************************************************************)
EXTENDS Sedutil, LoadPBAProof, SequenceTheorems, WellFoundedInduction

(* A set of numbers has a least element, and a bounded one has a greatest. *)
LEMMA LeastExists ==
  ASSUME NEW T \in SUBSET Nat, T # {}
  PROVE  \E x \in T : \A y \in T : x <= y
<1>. DEFINE R == OpToRel(<, Nat)
<1>1. IsWellFoundedOn(R, Nat)
  BY NatLessThanWellFounded
<1>2. \E x \in T : \A y \in T : ~(<<y, x>> \in R)
  BY <1>1, WFMin
<1>3. \A x, y \in Nat : y < x => <<y, x>> \in R
  BY Zenon DEF OpToRel
<1>4. \E x \in T : \A y \in T : ~(y < x)
  BY <1>2, <1>3, Zenon
<1>. QED
  BY <1>4

LEMMA GreatestExists ==
  ASSUME NEW n \in Nat, NEW T \in SUBSET (1 .. n), T # {}
  PROVE  \E x \in T : \A y \in T : y <= x
<1>. DEFINE U == {m \in Nat : \A y \in T : y <= m}
<1>1. n \in U /\ U \in SUBSET Nat
  OBVIOUS
<1>2. PICK m \in U : \A u \in U : m <= u
  BY <1>1, LeastExists
<1>3. m \in T
  <2>1. SUFFICES ASSUME m \notin T PROVE FALSE
    OBVIOUS
  <2>2. \A y \in T : y <= m - 1
    BY <2>1
  <2>3. PICK y \in T : TRUE
    OBVIOUS
  <2>4. m - 1 \in U
    BY <2>2, <2>3
  <2>. QED
    BY <1>2, <2>4
<1>. QED
  BY <1>3

-----------------------------------------------------------------------------
(* Discovery 0                                                             *)

(* There is a function that says where each feature begins.                *)
Begins(g, fs, n) ==
  /\ g \in [1 .. n -> Nat] /\ g[1] = 48
  /\ \A k \in 2 .. n : g[k] = g[k - 1] + fs[k - 1].length + 4

LEMMA BeginsExists ==
  ASSUME NEW fs, NEW m \in Nat, \A k \in 1 .. m : fs[k].length \in Nat
  PROVE  \E g : Begins(g, fs, m + 1)
<1>. DEFINE T == {n \in 1 .. m + 1 : ~ \E g : Begins(g, fs, n)}
<1>1. SUFFICES ASSUME T # {} PROVE FALSE
  OBVIOUS
<1>2. PICK n \in T : \A y \in T : n <= y
  <2>1. T \in SUBSET Nat
    OBVIOUS
  <2>. QED
    BY <1>1, <2>1, LeastExists
<1>3. n # 1
  <2>1. Begins([k \in 1 .. 1 |-> 48], fs, 1)
    BY DEF Begins
  <2>. QED
    BY <2>1
<1>4. n - 1 \in 1 .. m /\ n - 1 \notin T
  BY <1>2, <1>3
<1>5. PICK g : Begins(g, fs, n - 1)
  BY <1>4
<1>. DEFINE h == [k \in 1 .. n |-> IF k = n THEN g[n - 1] + fs[n - 1].length + 4 ELSE g[k]]
<1>6. g \in [1 .. n - 1 -> Nat] /\ fs[n - 1].length \in Nat /\ n \in Nat /\ n >= 2
  BY <1>4, <1>5 DEF Begins
<1>7. Begins(h, fs, n)
  <2>1. h \in [1 .. n -> Nat]
    <3>1. \A k \in 1 .. n : k # n => k \in 1 .. n - 1
      BY <1>6
    <3>. QED
      BY <1>6, <3>1
  <2>2. h[1] = 48
    BY <1>5, <1>6 DEF Begins
  <2>3. ASSUME NEW k \in 2 .. n PROVE h[k] = h[k - 1] + fs[k - 1].length + 4
    <3>1. k - 1 \in 1 .. n /\ k \in 1 .. n /\ k - 1 # n
      BY <1>6
    <3>2. h[k - 1] = g[k - 1]
      BY <3>1
    <3>3. CASE k = n
      BY <3>1, <3>2, <3>3
    <3>4. CASE k # n
      <4>1. k \in 2 .. n - 1 /\ h[k] = g[k]
        BY <1>6, <3>1, <3>4
      <4>2. g[k] = g[k - 1] + fs[k - 1].length + 4
        BY <1>5, <4>1 DEF Begins
      <4>. QED
        BY <3>2, <4>1, <4>2
    <3>. QED
      BY <3>3, <3>4
  <2>. HIDE DEF h
  <2>. QED
    BY <2>1, <2>2, <2>3 DEF Begins
<1>. QED
  BY <1>7

(* Every feature begins before the next, and its data is between.          *)
LEMMA BeginsGrows ==
  ASSUME NEW fs, NEW m \in Nat, \A k \in 1 .. m : fs[k].length \in Nat,
         NEW g, Begins(g, fs, m + 1), NEW k \in 1 .. m
  PROVE  /\ g[k + 1] = g[k] + fs[k].length + 4
         /\ \A n \in k + 1 .. m + 1 : g[n] >= g[k + 1] + 4 * (n - k - 1)
<1>1. g \in [1 .. m + 1 -> Nat]
  BY DEF Begins
<1>2. \A n \in 1 .. m : g[n + 1] = g[n] + fs[n].length + 4
  <2>1. ASSUME NEW n \in 1 .. m PROVE g[n + 1] = g[n] + fs[n].length + 4
    <3>1. n + 1 \in 2 .. m + 1 /\ (n + 1) - 1 = n
      OBVIOUS
    <3>2. g[n + 1] = g[(n + 1) - 1] + fs[(n + 1) - 1].length + 4
      BY <3>1, Zenon DEF Begins
    <3>. QED
      BY <3>1, <3>2
  <2>. QED
    BY <2>1
<1>. DEFINE T == {n \in k + 1 .. m + 1 : ~(g[n] >= g[k + 1] + 4 * (n - k - 1))}
<1>3. ASSUME T # {} PROVE FALSE
  <2>1. PICK n \in T : \A y \in T : n <= y
    <3>1. T \in SUBSET Nat
      OBVIOUS
    <3>. QED
      BY <1>3, <3>1, LeastExists
  <2>2. n # k + 1
    <3>1. g[k + 1] \in Nat
      BY <1>1
    <3>. QED
      BY <3>1
  <2>3. n - 1 \in k + 1 .. m + 1 /\ n - 1 \notin T /\ n - 1 \in 1 .. m /\ (n - 1) + 1 = n
    BY <2>1, <2>2
  <2>4. g[n - 1] >= g[k + 1] + 4 * ((n - 1) - k - 1)
    BY <2>3
  <2>5. g[n] = g[n - 1] + fs[n - 1].length + 4
    BY <1>2, <2>3
  <2>6. g[n] \in Nat /\ g[n - 1] \in Nat /\ g[k + 1] \in Nat /\ fs[n - 1].length \in Nat
    BY <1>1, <2>3
  <2>. QED
    BY <2>3, <2>4, <2>5, <2>6
<1>. QED
  BY <1>2, <1>3

LEMMA LengthsAdd ==
  ASSUME NEW m \in Nat, NEW k \in 1 .. m,
         NEW a \in Nat, NEW b \in Nat, NEW c \in Nat, NEW l \in Nat,
         b = a + l + 4, c >= b + 4 * (m - k), k = m => c = b
  PROVE  a < c - 4 <=> k < m \/ l > 0
OBVIOUS

(* The walk of discovery0 misses only a last feature that has no data.     *)
LEMMA WalkReaches ==
  ASSUME NEW fs, Len(fs) \in Nat, \A k \in 1 .. Len(fs) : fs[k].length \in Nat
  PROVE  Walk(fs) = {k \in 1 .. Len(fs) : k = 1 \/ k < Len(fs) \/ fs[k].length > 0}
<1>. DEFINE m == Len(fs)
            cpos[k \in 1 .. m + 1] ==
              IF k = 1 THEN 48 ELSE cpos[k - 1] + fs[k - 1].length + 4
<1>. HIDE DEF cpos
<1>1. Walk(fs) = {k \in 1 .. m : k = 1 \/ cpos[k] < cpos[m + 1] - 4}
  BY DEF Walk, cpos
<1>. HIDE DEF m
<1>2. m \in Nat /\ \A k \in 1 .. m : fs[k].length \in Nat
  BY DEF m
<1>3. PICK g : Begins(g, fs, m + 1)
  BY <1>2, BeginsExists
<1>4. g = [k \in 1 .. m + 1 |-> IF k = 1 THEN 48 ELSE g[k - 1] + fs[k - 1].length + 4]
  <2>1. g \in [1 .. m + 1 -> Nat] /\ g[1] = 48
    BY <1>3 DEF Begins
  <2>2. \A k \in 1 .. m + 1 : k # 1 => k \in 2 .. m + 1
    BY <1>2
  <2>3. \A k \in 2 .. m + 1 : g[k] = g[k - 1] + fs[k - 1].length + 4
    BY <1>3, Zenon DEF Begins
  <2>4. \A k \in 1 .. m + 1 : g[k] = IF k = 1 THEN 48 ELSE g[k - 1] + fs[k - 1].length + 4
    BY <2>1, <2>2, <2>3, Zenon
  <2>. QED
    BY <2>1, <2>4, Zenon
<1>5. cpos = [k \in 1 .. m + 1 |-> IF k = 1 THEN 48 ELSE cpos[k - 1] + fs[k - 1].length + 4]
  BY <1>4, Zenon DEF cpos
<1>6. Begins(cpos, fs, m + 1)
  <2>. DEFINE T == {n \in 1 .. m + 1 : cpos[n] # g[n]}
  <2>1. ASSUME T # {} PROVE FALSE
    <3>1. PICK n \in T : \A y \in T : n <= y
      <4>1. T \in SUBSET Nat
        OBVIOUS
      <4>. QED
        BY <2>1, <4>1, LeastExists
    <3>2. n \in 1 .. m + 1 /\ cpos[n] # g[n]
      OBVIOUS
    <3>3. \A k \in 1 .. m + 1 :
            /\ g[k] = IF k = 1 THEN 48 ELSE g[k - 1] + fs[k - 1].length + 4
            /\ cpos[k] = IF k = 1 THEN 48 ELSE cpos[k - 1] + fs[k - 1].length + 4
      BY <1>4, <1>5, Zenon
    <3>4. n # 1
      BY <3>3, <3>2, Zenon
    <3>5. n - 1 \in 1 .. m + 1 /\ n - 1 \notin T
      BY <1>2, <3>1, <3>2, <3>4
    <3>6. cpos[n - 1] = g[n - 1]
      BY <3>5
    <3>7. /\ g[n] = g[n - 1] + fs[n - 1].length + 4
          /\ cpos[n] = cpos[n - 1] + fs[n - 1].length + 4
      BY <3>3, <3>2, <3>4, Zenon
    <3>. QED
      BY <3>2, <3>6, <3>7, Zenon
  <2>2. \A n \in 1 .. m + 1 : cpos[n] = g[n]
    BY <2>1
  <2>3. cpos = g
    <3>1. cpos = [k \in 1 .. m + 1 |-> cpos[k]] /\ g = [k \in 1 .. m + 1 |-> g[k]]
      BY <1>4, <1>5, Zenon
    <3>. QED
      BY <2>2, <3>1, Zenon
  <2>. QED
    BY <1>3, <2>3
<1>7. ASSUME NEW k \in 1 .. m
      PROVE  cpos[k] < cpos[m + 1] - 4 <=> k < m \/ fs[k].length > 0
  <2>1. /\ cpos[k + 1] = cpos[k] + fs[k].length + 4
        /\ \A n \in k + 1 .. m + 1 : cpos[n] >= cpos[k + 1] + 4 * (n - k - 1)
    BY <1>2, <1>6, BeginsGrows
  <2>2. cpos[m + 1] >= cpos[k + 1] + 4 * (m - k)
    <3>1. m + 1 \in k + 1 .. m + 1 /\ (m + 1) - k - 1 = m - k
      BY <1>2
    <3>. QED
      BY <2>1, <3>1
  <2>3. cpos[k] \in Nat /\ cpos[k + 1] \in Nat /\ cpos[m + 1] \in Nat /\ fs[k].length \in Nat
    <3>1. cpos \in [1 .. m + 1 -> Nat]
      BY <1>6 DEF Begins
    <3>. QED
      BY <1>2, <3>1
  <2>4. k = m => cpos[m + 1] = cpos[k + 1]
    BY <2>1
  <2>. QED
    BY <1>2, <2>1, <2>2, <2>3, <2>4, LengthsAdd, Zenon
<1>. QED
  BY <1>1, <1>7 DEF m
-----------------------------------------------------------------------------
(* The invariant                                                           *)

DeviceOK ==
  dev \in [isOpen : BOOLEAN, devType : {"ATA", "SAS", "NVME", "USB", "OTHER"},
           driver : Drivers, seen : SUBSET FeatureRecords]

(* loadPBA has not begun before it is called, and the limits of the device *)
(* object, old or new, are never more than the disk accepts.               *)
Quiet   == pc \notin {"loading", "exit"} => load = "idle"
Limited == tperMaxPacket <= disk.packet /\ tperMaxToken <= disk.token

(* A discovery tells all the classes a disk has, or none.                  *)
OfSSC(fs)   == {f \in fs : f.code \in SSCs}
Features(d) == {d.features[k] : k \in DOMAIN d.features}
Heard       == OfSSC(dev.seen) \in {{}, OfSSC(Features(disk))}

(* The class is the best, and the object that calls has heard of it.       *)
Chosen ==
  /\ class \in {"Generic"} \cup SSCs /\ (class # "Generic" => class = Best(disk))
  /\ pc \in {"assert", "properties", "call", "loading"} => class # "Generic"
  /\ pc \in {"call", "loading"} \/ (pc = "properties" /\ class = "Enterprise") =>
       Reports(dev.seen, class)
  /\ pc = "identify" => dev.driver # "sas"

SInv == disk \in Disks /\ DeviceOK /\ IInv /\ Quiet /\ Limited /\ Heard /\ Chosen

-----------------------------------------------------------------------------
(* Disks                                                                   *)

LEMMA SequenceIs ==
  \A S : \A s \in Seq(S) : /\ Len(s) \in Nat /\ DOMAIN s = 1 .. Len(s)
                          /\ \A k \in 1 .. Len(s) : s[k] \in S
OBVIOUS

LEMMA FeaturesTyped ==
  ASSUME NEW d \in Disks
  PROVE  Features(d) \subseteq FeatureRecords
BY DiskAssumption, SequenceIs DEF Features

(* Discovery 0 finds every class of a disk.                                *)
LEMMA ClassesFound ==
  ASSUME NEW d \in Disks
  PROVE  /\ discovery0(d.features) \subseteq FeatureRecords
         /\ OfSSC(discovery0(d.features)) = OfSSC(Features(d))
<1>. DEFINE fs == d.features
<1>1. /\ fs \in Seq(FeatureRecords)
      /\ \A k \in DOMAIN fs : fs[k].code \in SSCs => fs[k].length >= 12
  BY DiskAssumption
<1>. HIDE DEF fs
<1>2. /\ Len(fs) \in Nat /\ DOMAIN fs = 1 .. Len(fs)
      /\ \A k \in 1 .. Len(fs) : fs[k] \in FeatureRecords
  BY <1>1, SequenceIs, Zenon
<1>3. \A k \in 1 .. Len(fs) : fs[k].length \in Nat
  BY <1>2 DEF FeatureRecords
<1>4. Walk(fs) = {k \in 1 .. Len(fs) : k = 1 \/ k < Len(fs) \/ fs[k].length > 0}
  BY <1>2, <1>3, WalkReaches, Zenon
<1>5. \A k \in 1 .. Len(fs) : fs[k].code \in SSCs => k \in Walk(fs)
  BY <1>1, <1>2, <1>3, <1>4
<1>6. Walk(fs) \subseteq DOMAIN fs
  BY <1>2, <1>4
<1>7. discovery0(fs) \subseteq FeatureRecords
  BY <1>2, <1>6 DEF discovery0
<1>8. OfSSC(discovery0(fs)) = OfSSC({fs[k] : k \in DOMAIN fs})
  BY <1>2, <1>5, <1>6 DEF discovery0, OfSSC
<1>. QED
  BY <1>7, <1>8 DEF fs, Features

LEMMA NothingFound == discovery0(<<>>) = {}
<1>1. Walk(<<>>) \subseteq 1 .. Len(<<>>)
  BY DEF Walk
<1>. QED
  BY <1>1 DEF discovery0

LEMMA NamespaceTyped ==
  ASSUME NEW d \in Disks
  PROVE  discovery0(d.namespace) \subseteq FeatureRecords
<1>. DEFINE fs == d.namespace
<1>1. fs \in Seq(FeatureRecords)
  BY DiskAssumption
<1>. HIDE DEF fs
<1>2. Walk(fs) \subseteq 1 .. Len(fs)
  BY DEF Walk
<1>3. discovery0(fs) \subseteq FeatureRecords
  BY <1>1, <1>2, SequenceIs DEF discovery0
<1>. QED
  BY <1>3 DEF fs

(* A discovery that reports a class at all makes the best one be chosen.   *)
LEMMA BestChosen ==
  ASSUME NEW d \in Disks, NEW seen, OfSSC(seen) \in {{}, OfSSC(Features(d))}, isAnySSC(seen)
  PROVE  SSCOf(seen) \in SSCs /\ SSCOf(seen) = Best(d) /\ Reports(seen, SSCOf(seen))
<1>. DEFINE Has(c) == \E k \in DOMAIN d.features : d.features[k].code = c
<1>1. OfSSC(seen) = OfSSC(Features(d))
  BY DEF isAnySSC, Reports, OfSSC
<1>2. \A c \in SSCs : Reports(seen, c) <=> Has(c)
  BY <1>1 DEF Reports, OfSSC, Features
<1>3. PICK c \in SSCs : Has(c)
  BY <1>2 DEF isAnySSC
<1>. DEFINE Fits1(code) ==
       /\ Has(code)
       /\ code # "OPALV200" => ~Has("OPALV200")
       /\ code = "Enterprise" => ~Has("OPALV100")
<1>4. Best(d) = CHOOSE code \in SSCs : Fits1(code)
  BY Zenon DEF Best
<1>. HIDE DEF Has
<1>5. SSCOf(seen) \in SSCs /\ Fits1(SSCOf(seen)) /\ Has(SSCOf(seen))
  BY <1>2, <1>3 DEF SSCOf, isOpal2, isOpal1, SSCs
<1>6. \A code \in SSCs : Fits1(code) => code = SSCOf(seen)
  BY <1>2, <1>3 DEF SSCOf, isOpal2, isOpal1, SSCs
<1>. HIDE DEF Fits1
<1>7. (CHOOSE code \in SSCs : Fits1(code)) = SSCOf(seen)
  BY <1>5, <1>6, Zenon
<1>. QED
  BY <1>2, <1>4, <1>5, <1>7, Zenon

LEMMA PropertiesTold ==
  ASSUME NEW d \in Disks
  PROVE  /\ d.properties \in Seq(PropertyRecords)
         /\ \A k \in DOMAIN d.properties : Before(d, k) =>
              /\ d.properties[k].name = "MaxComPacketSize" => d.properties[k].value = d.packet
              /\ d.properties[k].name = "MaxIndTokenSize" => d.properties[k].value = d.token
<1>1. d.properties \in Seq(PropertyRecords)
  BY DiskAssumption
<1>2. ASSUME NEW k \in DOMAIN d.properties, Before(d, k)
      PROVE  /\ d.properties[k].name = "MaxComPacketSize" => d.properties[k].value = d.packet
             /\ d.properties[k].name = "MaxIndTokenSize" => d.properties[k].value = d.token
  BY <1>2, DiskAssumption
<1>. QED
  BY <1>1, <1>2

(* What the properties exchange tells of a limit is what the disk accepts. *)
LEMMA LimitsTold ==
  ASSUME disk \in Disks, NEW v
  PROVE  /\ LastOf(Known("MaxComPacketSize"), v) \in {v, disk.packet}
         /\ LastOf(Known("MaxIndTokenSize"), v) \in {v, disk.token}
<1>. DEFINE Latest(ks) == CHOOSE k \in ks : \A j \in ks : j <= k
<1>1. /\ disk.properties \in Seq(PropertyRecords)
      /\ \A k \in DOMAIN disk.properties : Before(disk, k) =>
           /\ disk.properties[k].name = "MaxComPacketSize" => disk.properties[k].value = disk.packet
           /\ disk.properties[k].name = "MaxIndTokenSize" => disk.properties[k].value = disk.token
  BY PropertiesTold, Zenon
<1>2. Len(disk.properties) \in Nat /\ DOMAIN disk.properties = 1 .. Len(disk.properties)
  BY <1>1, SequenceIs, Zenon
<1>3. ASSUME NEW name, Known(name) # {}
      PROVE  Latest(Known(name)) \in Known(name)
  <2>1. Known(name) \in SUBSET (1 .. Len(disk.properties))
    BY <1>2 DEF Known
  <2>2. \E k \in Known(name) : \A j \in Known(name) : j <= k
    BY <1>2, <1>3, <2>1, GreatestExists, Zenon
  <2>. QED
    BY <2>2, Zenon
<1>4. ASSUME NEW name
      PROVE  \/ LastOf(Known(name), v) = v
             \/ \E k \in Known(name) : LastOf(Known(name), v) = disk.properties[k].value
  BY <1>3, Zenon DEF LastOf
<1>. QED
  BY <1>1, <1>4 DEF Known

(* The device types and drivers that identify may find.                    *)
LEMMA IdentityTyped ==
  ASSUME NEW driver \in Drivers \ {"sas"}, NEW kind, NEW id \in identify(driver, kind)
  PROVE  /\ id.devType \in {"ATA", "SAS", "NVME", "USB", "OTHER"}
         /\ id.driver \in Drivers
<1>. DEFINE Found == [devType : {"ATA", "SAS", "NVME", "USB", "OTHER"}, driver : Drivers]
<1>1. \A f, q : LinuxSata_identify(f, q) \in Found
  BY DEF LinuxSata_identify, LinuxSata_identify_SAS, Identity, Drivers
<1>2. \A f : /\ LinuxNvme_identify(f) \in Found /\ DiskATA_identify(f) \in Found
             /\ DiskUSB_identify(f) \in Found /\ DiskNVMe_identify \in Found
  BY DEF LinuxNvme_identify, DiskATA_identify, DiskUSB_identify, DiskNVMe_identify, Identity,
         Drivers
<1>. HIDE DEF Found
<1>3. identify(driver, kind) \subseteq Found
  <2>1. CASE driver = "sata"
    BY <1>1, <2>1 DEF identify
  <2>2. CASE driver = "nvme"
    BY <1>2, <2>2 DEF identify
  <2>3. CASE driver = "winATA"
    BY <1>2, <2>3 DEF identify
  <2>4. CASE driver = "winUSB"
    BY <1>2, <2>4 DEF identify
  <2>5. CASE driver = "winNVMe"
    BY <1>2, <2>5 DEF identify
  <2>. QED
    BY <2>1, <2>2, <2>3, <2>4, <2>5 DEF Drivers
<1>. QED
  BY <1>3 DEF Found

-----------------------------------------------------------------------------
(* Steps                                                                   *)

LEMMA InitSInv == Init => SInv
<1>. SUFFICES ASSUME Init PROVE SInv
  OBVIOUS
<1>1. IInv
  <2>1. LimitsInit
    BY DefaultAssumption DEF Init, LimitsInit
  <2>. QED
    BY <2>1, InitEstablishes DEF Init
<1>2. disk \in Disks /\ disk.packet >= 2048 /\ disk.token >= 1950
  BY DiskAssumption DEF Init
<1>3. DeviceOK
  BY DEF Init, DeviceOK, NoDevice, Drivers
<1>4. Quiet /\ Limited /\ Chosen
  BY <1>2 DEF Init, LoadInit, Quiet, Limited, Chosen
<1>5. Heard
  BY DEF Init, NoDevice, Heard, OfSSC
<1>. QED
  BY <1>1, <1>2, <1>3, <1>4, <1>5 DEF SInv

(* What a device object knows of its disk changes before loadPBA begins.   *)
LEMMA LimitsMayChange ==
  ASSUME IInv, load = "idle", UNCHANGED loadVars,
         tperMaxPacket' \in PacketLimits, tperMaxToken' \in TokenLimits
  PROVE  IInv'
BY DEF IInv, LoadTypeOK, Positions, Bounded, LoadedWhole, loadVars

LEMMA LoadUnchanged ==
  ASSUME IInv, UNCHANGED loadVars, UNCHANGED limits
  PROVE  IInv'
BY StepPreserves

(* Steps of main and of the constructors that only say what comes next.    *)
LEMMA GotoSInv ==
  ASSUME SInv, UNCHANGED <<disk, devVars, loadVars>>,
         ReadOptions \/ OptionsRead \/ Opened \/ CheckSSC \/ Reported \/ Unsupported
           \/ CallHandler \/ Loaded
  PROVE  SInv'
<1>1. IInv'
  BY LoadUnchanged DEF SInv, devVars
<1>2. disk' = disk /\ dev' = dev /\ class' = class /\ load' = load
      /\ tperMaxPacket' = tperMaxPacket /\ tperMaxToken' = tperMaxToken
  BY DEF devVars, limits, loadVars
<1>3. Quiet'
  BY <1>2 DEF SInv, Quiet, ReadOptions, OptionsRead, Opened, CheckSSC, Reported, Unsupported,
              CallHandler, Loaded, Goto, Return
<1>4. Chosen'
  <2>1. Best(disk)' = Best(disk) /\ Reports(dev.seen, class)' = Reports(dev.seen, class)
    BY <1>2 DEF Best, Reports
  <2>. QED
    BY <1>2, <2>1 DEF SInv, Chosen, Asserted, ReadOptions, OptionsRead, Opened, CheckSSC, Reported,
                      Unsupported, CallHandler, Loaded, Goto, Return
<1>5. Heard'
  BY <1>2 DEF SInv, Heard, OfSSC, Features
<1>. QED
  BY <1>1, <1>2, <1>3, <1>4, <1>5 DEF SInv, DeviceOK, Limited

LEMMA OpenDeviceSInv == SInv /\ OpenDevice => SInv'
<1>. SUFFICES ASSUME SInv, OpenDevice PROVE SInv'
  OBVIOUS
<1>1. /\ disk \in Disks /\ disk' = disk /\ class' = class /\ UNCHANGED loadVars
      /\ tperMaxPacket' = 2048 /\ tperMaxToken' = 1950
      /\ pc' \in {"identify", "opened"} /\ load = "idle" /\ load' = "idle"
  BY DEF SInv, OpenDevice, Goto, Quiet, loadVars
<1>2. IInv'
  BY <1>1, LimitsMayChange, DefaultAssumption DEF SInv
<1>3. /\ disk.driver \in Drivers \ {"sas"}
      /\ disk.packet >= 2048 /\ disk.token >= 1950
  BY <1>1, DiskAssumption
<1>4. /\ dev' \in {NoDevice, [NoDevice EXCEPT !.isOpen = TRUE, !.driver = disk.driver]}
      /\ pc' = "identify" => dev'.driver = disk.driver
  BY DEF OpenDevice, Goto, NoDevice
<1>5. DeviceOK' /\ dev'.seen = {}
  <2>1. NoDevice \in [isOpen : BOOLEAN, devType : {"ATA", "SAS", "NVME", "USB", "OTHER"},
                     driver : Drivers, seen : {{}}]
    BY DEF NoDevice, Drivers
  <2>2. CASE dev' = NoDevice
    BY <2>1, <2>2 DEF DeviceOK
  <2>3. CASE dev' = [NoDevice EXCEPT !.isOpen = TRUE, !.driver = disk.driver]
    <3>. DEFINE driver == disk.driver
    <3>1. driver \in Drivers
      BY <1>3
    <3>. HIDE DEF driver
    <3>2. dev' = [NoDevice EXCEPT !.isOpen = TRUE, !.driver = driver]
      BY <2>3 DEF driver
    <3>. QED
      BY <2>1, <3>1, <3>2 DEF DeviceOK
  <2>. QED
    BY <1>4, <2>2, <2>3
<1>6. Best(disk)' = Best(disk)
  BY <1>1 DEF Best
<1>. QED
  BY <1>1, <1>2, <1>3, <1>4, <1>5, <1>6 DEF SInv, Quiet, Limited, Heard, OfSSC, Chosen

(* Neither limits nor loadPBA are touched by the steps of a constructor.   *)
LEMMA ConstructorSInv ==
  ASSUME SInv, UNCHANGED <<disk, class, limits, loadVars>>, DeviceOK', Heard',
         pc \in {"identify", "discovery0", "discovery0_NS"},
         pc' \in {"discovery0", "discovery0_NS", "opened"}
  PROVE  SInv'
<1>1. IInv'
  BY LoadUnchanged DEF SInv
<1>2. /\ disk' = disk /\ class' = class /\ load' = load
      /\ tperMaxPacket' = tperMaxPacket /\ tperMaxToken' = tperMaxToken
  BY DEF limits, loadVars
<1>3. Best(disk)' = Best(disk)
  BY <1>2 DEF Best
<1>. QED
  BY <1>1, <1>2, <1>3 DEF SInv, Quiet, Limited, Chosen

LEMMA IdentifySInv == SInv /\ Identify => SInv'
<1>. SUFFICES ASSUME SInv, Identify PROVE SInv'
  OBVIOUS
<1>1. /\ UNCHANGED <<disk, class, limits, loadVars>> /\ pc = "identify"
      /\ pc' \in {"discovery0", "opened"}
  BY DEF Identify, Goto
<1>2. PICK id \in identify(dev.driver, disk.kind) :
        dev' = [dev EXCEPT !.devType = id.devType, !.driver = id.driver]
  BY DEF Identify
<1>3. dev.driver \in Drivers \ {"sas"}
  BY <1>1 DEF SInv, DeviceOK, Chosen
<1>4. id.devType \in {"ATA", "SAS", "NVME", "USB", "OTHER"} /\ id.driver \in Drivers
  BY <1>3, IdentityTyped
<1>5. DeviceOK' /\ dev'.seen = dev.seen
  BY <1>2, <1>4 DEF SInv, DeviceOK
<1>6. Heard'
  BY <1>1, <1>5 DEF SInv, Heard, OfSSC, Features
<1>. QED
  BY <1>1, <1>5, <1>6, ConstructorSInv

LEMMA Discovery0SInv == SInv /\ Discovery0 => SInv'
<1>. SUFFICES ASSUME SInv, Discovery0 PROVE SInv'
  OBVIOUS
<1>1. /\ UNCHANGED <<disk, class, limits, loadVars>> /\ pc = "discovery0"
      /\ pc' \in {"discovery0_NS", "opened"}
  BY DEF Discovery0, Goto
<1>2. disk \in Disks /\ disk' = disk
  BY <1>1 DEF SInv
<1>3. PICK r \in Received(disk.features) :
        dev' = [dev EXCEPT !.seen = discovery0(r.data)] \/ dev' = dev
  BY DEF Discovery0
<1>4. r.data \in {disk.features, <<>>}
  BY <1>3 DEF Received
<1>. DEFINE found == discovery0(r.data)
<1>5. found \subseteq FeatureRecords /\ OfSSC(found) \in {{}, OfSSC(Features(disk))}
  <2>1. CASE r.data = disk.features
    BY <1>2, <2>1, ClassesFound
  <2>2. CASE r.data = <<>>
    BY <2>2, NothingFound DEF OfSSC
  <2>. QED
    BY <1>4, <2>1, <2>2
<1>6. dev' = [dev EXCEPT !.seen = found] \/ dev' = dev
  BY <1>3
<1>. HIDE DEF found
<1>7. DeviceOK' /\ dev'.seen \in {found, dev.seen}
  BY <1>5, <1>6 DEF SInv, DeviceOK
<1>8. OfSSC(dev.seen)' \in {OfSSC(found), OfSSC(dev.seen)} /\ Features(disk)' = Features(disk)
  BY <1>2, <1>7 DEF OfSSC, Features
<1>9. Heard'
  BY <1>2, <1>5, <1>8 DEF SInv, Heard, OfSSC, Features
<1>. QED
  BY <1>1, <1>7, <1>9, ConstructorSInv

LEMMA Discovery0_NSSInv == SInv /\ Discovery0_NS => SInv'
<1>. SUFFICES ASSUME SInv, Discovery0_NS PROVE SInv'
  OBVIOUS
<1>1. /\ UNCHANGED <<disk, class, limits, loadVars>> /\ pc = "discovery0_NS" /\ pc' = "opened"
  BY DEF Discovery0_NS, Goto
<1>2. disk \in Disks /\ disk' = disk
  BY <1>1 DEF SInv
<1>3. PICK r \in Received(disk.namespace) :
        dev' = [dev EXCEPT !.seen = @ \cup (IF r.status = 0
                                            THEN {f \in discovery0(r.data) : f.code = "NSGeometry"}
                                            ELSE {})]
  BY DEF Discovery0_NS
<1>4. r.data \in {disk.namespace, <<>>}
  BY <1>3 DEF Received
<1>5. discovery0(r.data) \subseteq FeatureRecords
  BY <1>2, <1>4, NamespaceTyped, NothingFound
<1>. DEFINE more == IF r.status = 0 THEN {f \in discovery0(r.data) : f.code = "NSGeometry"} ELSE {}
<1>6. /\ more \subseteq FeatureRecords /\ \A f \in more : f.code = "NSGeometry"
      /\ dev' = [dev EXCEPT !.seen = @ \cup more]
  BY <1>3, <1>5, Zenon
<1>. HIDE DEF more
<1>7. DeviceOK' /\ dev'.seen = dev.seen \cup more
  BY <1>6 DEF SInv, DeviceOK
<1>8. OfSSC(dev.seen)' = OfSSC(dev.seen)
  BY <1>6, <1>7 DEF OfSSC, SSCs
<1>9. Heard'
  BY <1>2, <1>8 DEF SInv, Heard, OfSSC, Features
<1>. QED
  BY <1>1, <1>7, <1>9, ConstructorSInv

LEMMA PropertiesSInv == SInv /\ Properties => SInv'
<1>. SUFFICES ASSUME SInv, Properties PROVE SInv'
  OBVIOUS
<1>1. /\ disk \in Disks /\ disk' = disk /\ class' = class /\ dev' = dev /\ UNCHANGED loadVars
      /\ pc = "properties" /\ pc' = IF class = "Enterprise" THEN "call" ELSE "assert"
      /\ load = "idle" /\ load' = "idle"
  BY DEF SInv, Properties, Goto, Quiet, loadVars
<1>2. /\ tperMaxPacket' \in {tperMaxPacket, disk.packet}
      /\ tperMaxToken' \in {tperMaxToken, disk.token}
  BY <1>1, LimitsTold DEF Properties, limits
<1>3. disk.packet \in PacketLimits /\ disk.token \in TokenLimits
  BY <1>1, DiskAssumption
<1>4. disk.packet <= disk.packet /\ disk.token <= disk.token
  <2>1. \A p \in PacketLimits : p <= p
    BY PacketAssumption
  <2>2. \A t \in TokenLimits : t <= t
    BY TokenAssumption
  <2>. QED
    BY <1>3, <2>1, <2>2, Zenon
<1>5. IInv'
  BY <1>1, <1>2, <1>3, LimitsMayChange DEF SInv, IInv, LoadTypeOK
<1>6. Limited'
  BY <1>1, <1>2, <1>4 DEF SInv, Limited
<1>7. Best(disk)' = Best(disk) /\ Reports(dev.seen, class)' = Reports(dev.seen, class)
  BY <1>1 DEF Best, Reports
<1>8. Chosen'
  BY <1>1, <1>7 DEF SInv, Chosen
<1>. QED
  BY <1>1, <1>5, <1>6, <1>8 DEF SInv, DeviceOK, Quiet, Heard, OfSSC, Features

LEMMA ChooseClassSInv == SInv /\ ChooseClass => SInv'
<1>. SUFFICES ASSUME SInv, ChooseClass PROVE SInv'
  OBVIOUS
<1>1. /\ disk \in Disks /\ disk' = disk /\ class' = SSCOf(dev.seen) /\ dev' = dev
      /\ UNCHANGED limits /\ UNCHANGED loadVars /\ pc = "main" /\ pc' = "open"
      /\ isAnySSC(dev.seen)
  BY DEF SInv, ChooseClass, Goto
<1>2. IInv'
  BY <1>1, LoadUnchanged DEF SInv
<1>3. class' \in SSCs /\ class' = Best(disk)
  BY <1>1, BestChosen DEF SInv, Heard
<1>4. Best(disk)' = Best(disk)
  BY <1>1 DEF Best
<1>5. Chosen'
  BY <1>1, <1>3, <1>4 DEF Chosen
<1>. QED
  BY <1>1, <1>2, <1>5 DEF SInv, DeviceOK, Quiet, Limited, Heard, OfSSC, Features, limits, loadVars

(* loadPBA does not touch the device object.                               *)
LEMMA LoadSInv == SInv /\ (CallLoadPBA \/ Loading \/ LoadingFails) => SInv'
<1>. SUFFICES ASSUME SInv, CallLoadPBA \/ Loading \/ LoadingFails PROVE SInv'
  OBVIOUS
<1>1. /\ LoadNext /\ disk' = disk /\ class' = class /\ dev' = dev
      /\ pc \in {"call", "loading"} /\ pc' = "loading"
  BY DEF CallLoadPBA, Loading, LoadingFails, LoadNext, Goto
<1>2. IInv'
  BY <1>1, StepPreserves DEF SInv
<1>3. tperMaxPacket' = tperMaxPacket /\ tperMaxToken' = tperMaxToken
  BY <1>1 DEF LoadNext, LoadStep, LoadFails, loadPBA, OpenImage, StartSession, SendBlock, ReadFails,
              SendStaleBlock, BlockFails, ImageSent, limits
<1>4. Best(disk)' = Best(disk) /\ Reports(dev.seen, class)' = Reports(dev.seen, class)
  BY <1>1 DEF Best, Reports
<1>5. Chosen'
  BY <1>1, <1>4 DEF SInv, Chosen
<1>. QED
  BY <1>1, <1>2, <1>3, <1>5 DEF SInv, DeviceOK, Quiet, Limited, Heard, OfSSC, Features

LEMMA NextSInv == SInv /\ [Next]_vars => SInv'
<1>. SUFFICES ASSUME SInv, [Next]_vars PROVE SInv'
  OBVIOUS
<1>1. CASE ReadOptions \/ OptionsRead \/ Opened \/ CheckSSC \/ Reported \/ Unsupported
             \/ CallHandler \/ Loaded
  <2>1. UNCHANGED <<disk, devVars, loadVars>>
    BY <1>1 DEF ReadOptions, OptionsRead, Opened, CheckSSC, Reported, Unsupported, CallHandler,
                Loaded
  <2>. QED
    BY <1>1, <2>1, GotoSInv
<1>2. CASE UNCHANGED vars
  <2>1. IInv'
    BY <1>2, LoadUnchanged DEF SInv, vars, devVars
  <2>2. /\ disk' = disk /\ pc' = pc /\ class' = class /\ dev' = dev /\ load' = load
        /\ tperMaxPacket' = tperMaxPacket /\ tperMaxToken' = tperMaxToken
    BY <1>2 DEF vars, devVars, limits, loadVars
  <2>3. Best(disk)' = Best(disk) /\ Reports(dev.seen, class)' = Reports(dev.seen, class)
    BY <2>2 DEF Best, Reports
  <2>4. Chosen'
    BY <2>2, <2>3 DEF SInv, Chosen
  <2>. QED
    BY <2>1, <2>2, <2>4 DEF SInv, DeviceOK, Quiet, Limited, Heard, OfSSC, Features
<1>. QED
  BY <1>1, <1>2, OpenDeviceSInv, IdentifySInv, Discovery0SInv, Discovery0_NSSInv, PropertiesSInv,
     ChooseClassSInv, LoadSInv
  DEF Next, Progress

LEMMA StartUpInvariance == Spec => []SInv
BY InitSInv, NextSInv, PTL DEF Spec

-----------------------------------------------------------------------------
(* The command line                                                        *)

(* A command takes the arguments it counts, or, enableuser, one more.      *)
Sizes(form) ==
  /\ form.args \in Nat /\ Len(form.tests) \in Nat /\ Len(form.fields) \in Nat
  /\ DOMAIN form.fields = 1 .. Len(form.fields)
  /\ Len(form.tests) + Len(form.fields) \in {form.args, form.args + 1}

(* usage() explains a command as DtaOptions reads it.                      *)
Explained(form, line) ==
  /\ Len(line) = form.args /\ form.args = Len(form.tests) + Len(form.fields)
  /\ \A k \in DOMAIN line : line[k] # "none" =>
       /\ line[k] \in Fields
       /\ \E j \in DOMAIN form.fields :
            /\ form.fields[j] = line[k] /\ k = Len(form.tests) + j
            /\ \A i \in DOMAIN form.fields : form.fields[i] = line[k] => i = j

LEMMA FormsSized ==
  /\ Sizes(Form(0, <<>>, <<>>)) /\ Sizes(Form(1, <<>>, <<"device">>))
  /\ Sizes(Form(2, <<>>, PD)) /\ Sizes(Form(2, <<>>, PUD)) /\ Sizes(Form(3, <<>>, PND))
  /\ Sizes(Form(4, <<>>, PUN)) /\ Sizes(Form(3, <<"range">>, PD))
  /\ Sizes(Form(3, <<"switch">>, PD)) /\ Sizes(Form(4, <<"range", "state">>, PD))
  /\ Sizes(Form(5, <<"range">>, LRs))
  /\ Sizes(Form(3, <<>>, <<"password", "pbafile", "device">>))
  /\ Sizes(Form(6, <<"range">>, <<"lrstart", "lrlength", "password", "newpassword", "device">>))
  /\ Sizes(Form(5, <<>>, <<"none", "none", "none", "none", "device">>))
  /\ Sizes(Form(7, <<>>, <<"none", "none", "none", "none", "none", "none", "device">>))
BY DEF Sizes, Form, PD, PUD, PND, PUN, LRs

LEMMA TablesSized ==
  /\ \A c \in DOMAIN OwnerOptions : Sizes(OwnerOptions[c])
  /\ \A c \in DOMAIN LockingOptions : Sizes(LockingOptions[c])
  /\ \A c \in DOMAIN RangeOptions : Sizes(RangeOptions[c])
  /\ \A c \in DOMAIN BandOptions : Sizes(BandOptions[c])
<1>1. \A c \in DOMAIN OwnerOptions : Sizes(OwnerOptions[c])
  BY FormsSized DEF OwnerOptions
<1>2. \A c \in DOMAIN LockingOptions : Sizes(LockingOptions[c])
  BY FormsSized DEF LockingOptions
<1>3. \A c \in DOMAIN RangeOptions : Sizes(RangeOptions[c])
  BY FormsSized DEF RangeOptions
<1>4. \A c \in DOMAIN BandOptions : Sizes(BandOptions[c])
  BY FormsSized DEF BandOptions
<1>. QED
  BY <1>1, <1>2, <1>3, <1>4

LEMMA OptionsSized == \A c \in DOMAIN OptionForms : Sizes(OptionForms[c])
BY TablesSized DEF OptionForms

LEMMA FormsExplained ==
  /\ Explained(Form(1, <<>>, <<"device">>), DeviceOnly)
  /\ Explained(Form(2, <<>>, PD), PasswordDevice)
  /\ Explained(Form(3, <<>>, PND), Renewed)
  /\ Explained(Form(3, <<"range">>, PD), RangePD)
  /\ Explained(Form(3, <<"switch">>, PD), RangePD)
  /\ Explained(Form(4, <<>>, PUN), <<"password", "userid", "newpassword", "device">>)
  /\ Explained(Form(4, <<"range", "state">>, PD), <<"none", "none", "password", "device">>)
  /\ Explained(Form(5, <<"range">>, LRs), <<"none", "lrstart", "lrlength", "password", "device">>)
  /\ Explained(Form(3, <<>>, <<"password", "pbafile", "device">>),
               <<"password", "pbafile", "device">>)
<1>1. Explained(Form(1, <<>>, <<"device">>), DeviceOnly)
  BY DEF Explained, Form, DeviceOnly, Fields
<1>2. Explained(Form(2, <<>>, PD), PasswordDevice)
  BY DEF Explained, Form, PD, PasswordDevice, Fields
<1>3. Explained(Form(3, <<>>, PND), Renewed)
  BY DEF Explained, Form, PND, Renewed, Fields
<1>4. Explained(Form(3, <<"range">>, PD), RangePD) /\ Explained(Form(3, <<"switch">>, PD), RangePD)
  BY DEF Explained, Form, PD, RangePD, Fields
<1>5. Explained(Form(4, <<>>, PUN), <<"password", "userid", "newpassword", "device">>)
  BY DEF Explained, Form, PUN, Fields
<1>6. Explained(Form(4, <<"range", "state">>, PD), <<"none", "none", "password", "device">>)
  BY DEF Explained, Form, PD, Fields
<1>7. Explained(Form(5, <<"range">>, LRs), <<"none", "lrstart", "lrlength", "password", "device">>)
  BY DEF Explained, Form, LRs, Fields
<1>8. Explained(Form(3, <<>>, <<"password", "pbafile", "device">>),
                <<"password", "pbafile", "device">>)
  BY DEF Explained, Form, Fields
<1>. QED
  BY <1>1, <1>2, <1>3, <1>4, <1>5, <1>6, <1>7, <1>8

LEMMA UsageExplains ==
  \A c \in DOMAIN UsageLines : c \in DOMAIN OptionForms => Explained(OptionForms[c], UsageLines[c])
<1>1. \A c \in DOMAIN OwnerOptions \cap DOMAIN UsageLines :
        Explained(OwnerOptions[c], UsageLines[c])
  BY FormsExplained DEF OwnerOptions, UsageLines
<1>2. \A c \in DOMAIN LockingOptions \cap DOMAIN UsageLines :
        Explained(LockingOptions[c], UsageLines[c])
  BY FormsExplained DEF LockingOptions, UsageLines
<1>3. \A c \in DOMAIN RangeOptions \cap DOMAIN UsageLines :
        Explained(RangeOptions[c], UsageLines[c])
  BY FormsExplained DEF RangeOptions, UsageLines
<1>4. \A c \in DOMAIN BandOptions \cap DOMAIN UsageLines : Explained(BandOptions[c], UsageLines[c])
  BY FormsExplained DEF BandOptions, UsageLines
<1>. QED
  BY <1>1, <1>2, <1>3, <1>4 DEF OptionForms

LEMMA NoCommand == "deadbeef" \notin DOMAIN OptionForms
<1>1. "deadbeef" \notin DOMAIN OwnerOptions /\ "deadbeef" \notin DOMAIN LockingOptions
  BY DEF OwnerOptions, LockingOptions
<1>2. "deadbeef" \notin DOMAIN RangeOptions /\ "deadbeef" \notin DOMAIN BandOptions
  BY DEF RangeOptions, BandOptions
<1>. QED
  BY <1>1, <1>2 DEF OptionForms

(* Where DtaOptions is: before the command there are only options, and     *)
(* after a command it accepts there is nothing left.                       *)
OptionsOK ==
  /\ argv \in CommandLines
  /\ at \in 1 .. argc + 1 /\ baseOptions \in 2 .. 255
  /\ opts \in [Fields -> 0 .. 255]
  /\ action \in {"deadbeef"} \cup DOMAIN OptionForms
  /\ parsed \in {"no", "yes", "error"}

Reading ==
  IF action = "deadbeef" THEN baseOptions = at + 1 /\ at <= argc ELSE at >= argc

AsUsage ==
  action \in DOMAIN OptionForms /\ action \in DOMAIN UsageLines =>
    LET line == UsageLines[action]
    IN  /\ argc = baseOptions + Len(line)
        /\ \A k \in DOMAIN line : line[k] # "none" => opts[line[k]] = baseOptions - 1 + k

OInv == OptionsOK /\ Reading /\ AsUsage

LEMMA LineTyped ==
  ASSUME argv \in CommandLines
  PROVE  /\ argc \in 1 .. 254
         /\ \A k \in 1 .. argc - 1 :
              argv[k].kind = "command" => argv[k].is \in DOMAIN OptionForms
<1>1. /\ argv \in Seq([kind : {"option", "help", "operand", "command"}, is : STRING])
      /\ Len(argv) <= 253
      /\ \A k \in DOMAIN argv : argv[k].kind = "command" => argv[k].is \in DOMAIN OptionForms
  BY LineAssumption, Zenon
<1>2. Len(argv) \in Nat /\ DOMAIN argv = 1 .. Len(argv)
  BY <1>1, SequenceIs, Zenon
<1>3. /\ argc \in 1 .. 254 /\ 1 .. argc - 1 = 1 .. Len(argv)
  <2>. DEFINE n == Len(argv)
  <2>1. n \in Nat /\ n <= 253 /\ argc = n + 1
    BY <1>1, <1>2, Zenon DEF argc
  <2>. HIDE DEF n
  <2>2. argc \in 1 .. 254 /\ 1 .. argc - 1 = 1 .. n
    BY <2>1
  <2>. QED
    BY <2>2 DEF n
<1>. QED
  BY <1>1, <1>2, <1>3, Zenon

LEMMA InitOInv == Init => OInv
<1>. SUFFICES ASSUME Init PROVE OInv
  OBVIOUS
<1>1. argv \in CommandLines /\ argc \in 1 .. 254
  BY LineTyped DEF Init, OptionsInit
<1>2. OptionsOK
  BY <1>1 DEF Init, OptionsInit, OptionsOK
<1>3. Reading
  BY <1>1 DEF Init, OptionsInit, Reading
<1>4. AsUsage
  BY NoCommand DEF Init, OptionsInit, AsUsage
<1>. QED
  BY <1>2, <1>3, <1>4 DEF OInv

LEMMA OptionOInv == OInv /\ ParseOption => OInv'
<1>. SUFFICES ASSUME OInv, ParseOption PROVE OInv'
  OBVIOUS
<1>1. /\ argv' = argv /\ argc' = argc /\ opts' = opts /\ action' = action /\ parsed' = parsed
      /\ at' = at + 1 /\ baseOptions' = baseOptions + 1 /\ at < argc
  BY DEF ParseOption, argc
<1>2. argc \in 1 .. 254 /\ at \in 1 .. argc + 1 /\ baseOptions \in 2 .. 255
  BY LineTyped DEF OInv, OptionsOK
<1>3. action = "deadbeef" /\ baseOptions = at + 1
  BY <1>1, <1>2 DEF OInv, Reading
<1>4. OptionsOK'
  BY <1>1, <1>2, <1>3 DEF OInv, OptionsOK
<1>5. Reading'
  BY <1>1, <1>2, <1>3 DEF Reading
<1>6. AsUsage'
  BY <1>1, <1>3, NoCommand DEF AsUsage
<1>. QED
  BY <1>4, <1>5, <1>6 DEF OInv

(* A command that is accepted takes all the arguments there are.           *)
LEMMA CommandOInv == OInv /\ ParseCommand => OInv'
<1>. SUFFICES ASSUME OInv, ParseCommand PROVE OInv'
  OBVIOUS
<1>. DEFINE c == argv[at].is
            form == OptionForms[c]
            first == at + Len(form.tests)
            Index(f) == CHOOSE k \in DOMAIN form.fields : form.fields[k] = f
            Given(f) == \E k \in DOMAIN form.fields : form.fields[k] = f
<1>1. /\ argv' = argv /\ argc' = argc /\ at < argc /\ argv \in CommandLines
      /\ argv[at].kind = "command" /\ baseOptions' = baseOptions
  BY DEF ParseCommand, Refuse, argc, OInv, OptionsOK
<1>2. argc \in 1 .. 254 /\ at \in 1 .. argc + 1 /\ baseOptions \in 2 .. 255
  BY <1>1, LineTyped DEF OInv, OptionsOK
<1>3. action = "deadbeef" /\ baseOptions = at + 1
  BY <1>1, <1>2 DEF OInv, Reading
<1>4. c \in DOMAIN OptionForms
  <2>1. at \in 1 .. argc - 1
    BY <1>1, <1>2
  <2>. QED
    BY <1>1, <2>1, LineTyped
<1>5. Sizes(form)
  BY <1>4, OptionsSized
<1>6. CASE Refuse
  <2>1. /\ opts' = opts /\ action' = action /\ parsed' = "error" /\ at' = at
    BY <1>6 DEF Refuse
  <2>. QED
    BY <1>1, <2>1 DEF OInv, OptionsOK, Reading, AsUsage, argc
<1>7. CASE /\ form.args + baseOptions = argc
           /\ action' = c
           /\ opts' = [f \in Fields |-> IF Given(f) THEN first + Index(f) ELSE opts[f]]
           /\ at' = first + Len(form.fields) + 1
           /\ parsed' = parsed
  <2>. HIDE DEF c, form
  <2>1. /\ form.args \in Nat /\ Len(form.tests) \in Nat /\ Len(form.fields) \in Nat
        /\ DOMAIN form.fields = 1 .. Len(form.fields)
        /\ Len(form.tests) + Len(form.fields) \in {form.args, form.args + 1}
    BY <1>5 DEF Sizes
  <2>2. \A f : Given(f) => Index(f) \in 1 .. Len(form.fields) /\ form.fields[Index(f)] = f
    BY <2>1
  <2>. HIDE DEF Index, Given
  <2>3. /\ first + Len(form.fields) + 1 \in argc .. argc + 1
        /\ \A k \in 1 .. Len(form.fields) : first + k \in 0 .. 255
        /\ argc = baseOptions + form.args
        /\ \A j \in 1 .. Len(form.fields) : first + j = baseOptions - 1 + (Len(form.tests) + j)
    <3>. DEFINE t == Len(form.tests)
                f == Len(form.fields)
                args == form.args
                n == argc
    <3>1. /\ args \in Nat /\ t \in Nat /\ f \in Nat /\ n \in 1 .. 254 /\ at \in 1 .. n + 1
          /\ baseOptions = at + 1 /\ args + baseOptions = n /\ t + f \in {args, args + 1}
      BY <1>2, <1>3, <1>7, <2>1, Zenon
    <3>. HIDE DEF t, f, args, n
    <3>2. /\ at + t + f + 1 \in n .. n + 1
          /\ \A k \in 1 .. f : at + t + k \in 0 .. 255
          /\ n = baseOptions + args
          /\ \A j \in 1 .. f : at + t + j = baseOptions - 1 + (t + j)
      BY <3>1
    <3>. QED
      BY <3>2, Zenon DEF t, f, args, n
  <2>. HIDE DEF first
  <2>4. \A f \in Fields : opts'[f] \in 0 .. 255
    <3>1. \A f \in Fields : opts[f] \in 0 .. 255
      BY DEF OInv, OptionsOK
    <3>2. \A f \in Fields : opts'[f] = IF Given(f) THEN first + Index(f) ELSE opts[f]
      BY <1>7, Zenon
    <3>3. \A f \in Fields : Given(f) => first + Index(f) \in 0 .. 255
      BY <2>2, <2>3
    <3>. QED
      BY <3>1, <3>2, <3>3
  <2>5. OptionsOK'
    <3>1. opts' \in [Fields -> 0 .. 255]
      BY <1>7, <2>4
    <3>2. at' \in argc .. argc + 1
      BY <1>7, <2>3, Zenon
    <3>3. at' \in 1 .. argc + 1
      BY <1>2, <3>2
    <3>. QED
      BY <1>1, <1>4, <1>7, <3>1, <3>3, Zenon DEF OInv, OptionsOK
  <2>6. Reading'
    <3>1. at' \in argc .. argc + 1
      BY <1>7, <2>3, Zenon
    <3>2. at' >= argc
      BY <1>2, <3>1
    <3>. QED
      BY <1>1, <1>4, <1>7, <3>2, NoCommand, Zenon DEF Reading
  <2>7. ASSUME c \in DOMAIN UsageLines
        PROVE  /\ argc = baseOptions + Len(UsageLines[c])
               /\ \A k \in DOMAIN UsageLines[c] : UsageLines[c][k] # "none" =>
                    opts'[UsageLines[c][k]] = baseOptions - 1 + k
    <3>. DEFINE line == UsageLines[c]
    <3>1. Explained(form, line)
      BY <1>4, <2>7, UsageExplains DEF form
    <3>. HIDE DEF line
    <3>2. argc = baseOptions + Len(line)
      BY <2>3, <3>1, Zenon DEF Explained
    <3>3. ASSUME NEW k \in DOMAIN line, line[k] # "none"
          PROVE  opts'[line[k]] = baseOptions - 1 + k
      <4>1. /\ line[k] \in Fields
            /\ \E j \in DOMAIN form.fields :
                 /\ form.fields[j] = line[k] /\ k = Len(form.tests) + j
                 /\ \A i \in DOMAIN form.fields : form.fields[i] = line[k] => i = j
        BY <3>1, <3>3 DEF Explained
      <4>2. PICK j \in DOMAIN form.fields :
              /\ form.fields[j] = line[k] /\ k = Len(form.tests) + j
              /\ \A i \in DOMAIN form.fields : form.fields[i] = line[k] => i = j
        BY <4>1
      <4>3. Given(line[k]) /\ Index(line[k]) = j
        BY <2>1, <2>2, <4>2 DEF Given
      <4>4. opts'[line[k]] = first + j
        BY <1>7, <4>1, <4>3, Zenon
      <4>5. j \in 1 .. Len(form.fields)
        BY <2>1, <4>2, Zenon
      <4>. QED
        BY <2>3, <4>2, <4>4, <4>5, Zenon
    <3>. QED
      BY <3>2, <3>3 DEF line
  <2>8. AsUsage'
    BY <1>1, <1>7, <2>7 DEF AsUsage
  <2>. QED
    BY <2>5, <2>6, <2>8 DEF OInv
<1>. QED
  BY <1>6, <1>7 DEF ParseCommand, Accepted

(* Steps that at most end the reading.                                     *)
LEMMA OptionsKept ==
  ASSUME OInv, UNCHANGED <<argv, at, baseOptions, opts, action>>,
         parsed' \in {"no", "yes", "error"}
  PROVE  OInv'
<1>1. /\ argv' = argv /\ at' = at /\ baseOptions' = baseOptions
      /\ opts' = opts /\ action' = action
  OBVIOUS
<1>2. argc' = argc
  BY <1>1 DEF argc
<1>3. OptionsOK'
  BY <1>1, <1>2 DEF OInv, OptionsOK
<1>4. Reading'
  BY <1>1, <1>2 DEF OInv, Reading
<1>5. AsUsage'
  BY <1>1, <1>2 DEF OInv, AsUsage
<1>. QED
  BY <1>3, <1>4, <1>5 DEF OInv

LEMMA OptionsUnchanged == OInv /\ UNCHANGED optionVars => OInv'
<1>. SUFFICES ASSUME OInv, UNCHANGED optionVars PROVE OInv'
  OBVIOUS
<1>1. UNCHANGED <<argv, at, baseOptions, opts, action>> /\ parsed' \in {"no", "yes", "error"}
  BY DEF optionVars, OInv, OptionsOK
<1>. QED
  BY <1>1, OptionsKept

LEMMA NextOInv == OInv /\ [Next]_vars => OInv'
<1>. SUFFICES ASSUME OInv, [Next]_vars PROVE OInv'
  OBVIOUS
<1>1. CASE NoArguments \/ ParseOther \/ OptionsEnd
  <2>1. UNCHANGED <<argv, at, baseOptions, opts, action>> /\ parsed' \in {"no", "yes", "error"}
    BY <1>1 DEF NoArguments, ParseOther, OptionsEnd, Refuse
  <2>. QED
    BY <2>1, OptionsKept
<1>2. CASE ReadOptions
  BY <1>1, <1>2, OptionOInv, CommandOInv DEF ReadOptions, DtaOptions
<1>3. CASE UNCHANGED vars
  BY <1>3, OptionsUnchanged DEF vars
<1>4. CASE OptionsRead \/ Reported \/ Unsupported \/ ChooseClass
  BY <1>4, OptionsUnchanged DEF OptionsRead, Reported, Unsupported, ChooseClass
<1>5. CASE OpenDevice \/ Identify \/ Opened \/ CheckSSC \/ Properties
  <2>1. OpenDevice => UNCHANGED <<disk, class, optionVars, loadVars>>
    BY DEF OpenDevice
  <2>2. Identify => UNCHANGED <<disk, class, limits, optionVars, loadVars>>
    BY DEF Identify
  <2>3. Opened \/ CheckSSC => UNCHANGED <<disk, devVars, optionVars, loadVars>>
    BY DEF Opened, CheckSSC
  <2>4. Properties => UNCHANGED <<disk, class, dev, optionVars, loadVars>>
    BY DEF Properties
  <2>5. UNCHANGED optionVars
    BY <1>5, <2>1, <2>2, <2>3, <2>4
  <2>. QED
    BY <2>5, OptionsUnchanged
<1>6. CASE Discovery0 \/ Discovery0_NS
  BY <1>6, OptionsUnchanged DEF Discovery0, Discovery0_NS
<1>7. CASE CallLoadPBA \/ CallHandler \/ Loading \/ LoadingFails \/ Loaded
  BY <1>7, OptionsUnchanged DEF CallLoadPBA, CallHandler, Loading, LoadingFails, Loaded
<1>. QED
  BY <1>2, <1>3, <1>4, <1>5, <1>6, <1>7 DEF Next, Progress

LEMMA OptionsInvariance == Spec => []OInv
BY InitOInv, NextOInv, PTL DEF Spec

-----------------------------------------------------------------------------
(* main                                                                    *)

MainOK ==
  /\ pc \in {"options", "open", "identify", "discovery0", "discovery0_NS", "opened", "properties",
             "assert", "main", "call", "loading", "exit", "aborted"}
  /\ exit \in 0 .. 255

LEMMA StubsReturn == \A c \in DOMAIN Stubs : Stubs[c] \in 0 .. 255
<1>1. \A c \in DOMAIN OpalStubs : OpalStubs[c] \in 0 .. 255
  BY DEF OpalStubs
<1>2. \A c \in DOMAIN EnterpriseStubs : EnterpriseStubs[c] \in 0 .. 255
  BY DEF EnterpriseStubs
<1>. QED
  BY <1>1, <1>2 DEF Stubs

LEMMA NextMainOK == MainOK /\ [Next]_vars => MainOK'
<1>. SUFFICES ASSUME MainOK, [Next]_vars PROVE MainOK'
  OBVIOUS
<1>1. CASE UNCHANGED vars
  BY <1>1 DEF vars, MainOK
<1>2. CASE ReadOptions \/ Loading \/ LoadingFails
  BY <1>2 DEF ReadOptions, Loading, LoadingFails, MainOK
<1>3. CASE OptionsRead \/ Reported \/ Unsupported \/ Loaded
  BY <1>3 DEF OptionsRead, Reported, Unsupported, Loaded, Goto, Return, MainOK
<1>4. CASE OpenDevice
  <2>1. pc' \in {"identify", "opened"} /\ exit' = exit
    BY <1>4 DEF OpenDevice, Goto
  <2>. QED
    BY <2>1 DEF MainOK
<1>5. CASE Identify \/ Discovery0 \/ Discovery0_NS
  <2>1. Identify => pc' \in {"discovery0", "opened"} /\ exit' = exit
    BY DEF Identify, Goto
  <2>2. Discovery0 => pc' \in {"discovery0_NS", "opened"} /\ exit' = exit
    BY DEF Discovery0, Goto
  <2>3. Discovery0_NS => pc' = "opened" /\ exit' = exit
    BY DEF Discovery0_NS, Goto
  <2>. QED
    BY <1>5, <2>1, <2>2, <2>3 DEF MainOK
<1>6. CASE Opened \/ CheckSSC \/ Properties \/ ChooseClass
  <2>1. Opened => pc' \in {"main", "assert", "properties"} /\ exit' = exit
    BY DEF Opened, Goto
  <2>2. CheckSSC \/ Properties =>
          pc' \in {"aborted", "assert", "properties", "call"} /\ exit' = exit
    BY DEF CheckSSC, Properties, Goto
  <2>3. ChooseClass => pc' = "open" /\ exit' = exit
    BY DEF ChooseClass, Goto
  <2>. QED
    BY <1>6, <2>1, <2>2, <2>3 DEF MainOK
<1>7. CASE CallLoadPBA
  BY <1>7 DEF CallLoadPBA, Goto, MainOK
<1>8. CASE CallHandler
  BY <1>8, StubsReturn DEF CallHandler, Return, MainOK
<1>. QED
  BY <1>1, <1>2, <1>3, <1>4, <1>5, <1>6, <1>7, <1>8 DEF Next, Progress

LEMMA MainInvariance == Spec => []MainOK
<1>1. Init => MainOK
  BY DEF Init, MainOK
<1>. QED
  BY <1>1, NextMainOK, PTL DEF Spec

-----------------------------------------------------------------------------
(* Theorems                                                                *)

(* HandlerSeesItsDisk: whatever fails or is lost, and whatever a driver    *)
(* makes of it, a handler is called only for an object that has heard the  *)
(* disk report the best class it has, and with that feature's ComID.       *)
THEOREM HandlerSees == Spec => []HandlerSeesItsDisk
<1>1. ASSUME SInv, pc \in {"call", "loading"}
      PROVE  /\ class = Best(disk)
             /\ \E k \in DOMAIN disk.features :
                  disk.features[k].code = class /\ disk.features[k].comID = comID(dev.seen, class)
  <2>1. class = Best(disk) /\ class \in SSCs /\ Reports(dev.seen, class)
    BY <1>1 DEF SInv, Chosen
  <2>. DEFINE f == CHOOSE g \in dev.seen : g.code = class
  <2>2. f \in dev.seen /\ f.code = class
    BY <2>1 DEF Reports
  <2>3. comID(dev.seen, class) = f.comID
    BY <2>1 DEF comID
  <2>. HIDE DEF f
  <2>4. f \in OfSSC(dev.seen)
    BY <2>1, <2>2 DEF OfSSC
  <2>5. f \in Features(disk)
    BY <1>1, <2>4 DEF SInv, Heard, OfSSC
  <2>. QED
    BY <2>1, <2>2, <2>3, <2>5 DEF Features
<1>2. SInv => HandlerSeesItsDisk
  BY <1>1 DEF HandlerSeesItsDisk
<1>. QED
  BY <1>2, StartUpInvariance, PTL

(* FitsDisk: every Set of loadPBA fits in what the disk accepts, whatever  *)
(* became of the properties exchange and however many it reports.          *)
THEOREM BlocksFitDisk == Spec => []FitsDisk
<1>1. SInv => FitsDisk
  <2>. SUFFICES ASSUME SInv, load = "blocks", More
                PROVE  CommandLength(filepos, Block) <= disk.packet /\ 4 + Block <= disk.token
    BY DEF FitsDisk
  <2>1. /\ CommandLength(filepos, Block) <= Least(MAX_BUFFER_LENGTH, tperMaxPacket)
        /\ 4 + Block <= tperMaxToken
    BY BlockWithin DEF SInv
  <2>2. /\ tperMaxPacket <= disk.packet /\ tperMaxToken <= disk.token
        /\ disk.packet \in PacketLimits /\ disk.token \in TokenLimits
        /\ tperMaxPacket \in PacketLimits /\ tperMaxToken \in TokenLimits
        /\ filepos \in Nat /\ Block \in Nat
    BY DiskAssumption, BlockNat DEF SInv, Limited, IInv, LoadTypeOK
  <2>3. /\ \A p \in PacketLimits : p \in Nat
        /\ \A t \in TokenLimits : t \in Nat
    BY PacketAssumption, TokenAssumption
  <2>4. CommandLength(filepos, Block) \in Int
    BY <2>2 DEF CommandLength, TokenLength, OPALHeader
  <2>5. Least(MAX_BUFFER_LENGTH, tperMaxPacket) <= tperMaxPacket
    BY <2>2, <2>3 DEF Least, MAX_BUFFER_LENGTH
  <2>6. Least(MAX_BUFFER_LENGTH, tperMaxPacket) \in Int
    BY <2>2, <2>3 DEF Least, MAX_BUFFER_LENGTH
  <2>. QED
    BY <2>1, <2>2, <2>3, <2>4, <2>5, <2>6
<1>. QED
  BY <1>1, StartUpInvariance, PTL

(* Fits and LoadedWhole hold of loadPBA in the program as they do of it    *)
(* alone: the limits do not change once it is called.                      *)
THEOREM LoadsWhole == Spec => [](Fits /\ LoadedWhole)
<1>1. SInv => Fits /\ LoadedWhole
  BY BlockWithin DEF SInv, Fits, IInv
<1>. QED
  BY <1>1, StartUpInvariance, PTL

(* ArgumentsAsUsage: whatever the command line, and however many options   *)
(* come before the command, DtaOptions finds each operand where usage()    *)
(* says it is.                                                             *)
THEOREM ArgumentsRead == Spec => []ArgumentsAsUsage
<1>1. "deadbeef" \notin DOMAIN UsageLines
  BY DEF UsageLines
<1>2. ASSUME OInv, action \in DOMAIN UsageLines PROVE action \in DOMAIN OptionForms
  BY <1>1, <1>2, Zenon DEF OInv, OptionsOK
<1>3. OInv => ArgumentsAsUsage
  BY <1>2, Zenon DEF OInv, AsUsage, ArgumentsAsUsage
<1>. QED
  BY <1>3, OptionsInvariance, PTL

(* TypeOK: the indices that DtaOptions keeps in bytes never wrap around,   *)
(* the exit code is what the handlers and main can return, and the device  *)
(* object only holds features a disk reported.                             *)
THEOREM SedutilTypeCorrect == Spec => []TypeOK
<1>1. ASSUME OInv PROVE at \in 1 .. 255
  <2>1. argc \in 1 .. 254 /\ at \in 1 .. argc + 1
    BY <1>1, LineTyped DEF OInv, OptionsOK
  <2>. QED
    BY <2>1
<1>2. SInv => LoadTypeOK /\ disk \in Disks /\ DeviceOK /\ class \in {"Generic"} \cup SSCs
  BY DEF SInv, IInv, Chosen
<1>3. SInv /\ OInv /\ MainOK => TypeOK
  BY <1>1, <1>2, Zenon DEF OInv, OptionsOK, MainOK, DeviceOK, TypeOK
<1>. QED
  BY <1>3, StartUpInvariance, OptionsInvariance, MainInvariance, PTL
=============================================================================
