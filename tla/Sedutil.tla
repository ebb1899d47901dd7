------------------------------ MODULE Sedutil -------------------------------
(***************************************************************************)
(* A run of sedutil-cli from its command line to its exit code: the        *)
(* options are parsed, the device is opened twice - as DtaDevGeneric to    *)
(* learn its SSC, then as the class of that SSC - and a handler is called. *)
(* The handlers are modelled in DtaDevOpal and DtaDevEnterprise: here they *)
(* only return; loadPBA, which depends on what was read on the way, runs.  *)
(***************************************************************************)
EXTENDS DtaOptions, Transport, DtaDev, LoadPBA

CONSTANT Disks  \* the disks: see DiskAssumption

(* Where it is found (/dev/sd, /dev/nvme, a Windows drive, elsewhere), the *)
(* driver used first, what it answers to Discovery 0 of ComID 1 and 2, the *)
(* properties it reports in their order, and the limits they are about: up *)
(* to MaxIndTokenSize they are its own.  The defaults are limits, too.     *)
FeatureRecords  == [code : STRING, length : Nat, comID : Nat]
PropertyRecords == [name : {"MaxComPacketSize", "MaxIndTokenSize", "other"}, value : Nat]

Before(d, k) == \A j \in 1 .. k - 1 : d.properties[j].name # "MaxIndTokenSize"

ASSUME DiskAssumption ==
  \A d \in Disks :
    /\ d.path \in {"sd", "nvme", "win", "other"} /\ d.driver \in Drivers \ {"sas"}
    /\ d.kind \in {"ATA", "SCSI", "NVMe"}
    /\ d.features \in Seq(FeatureRecords) /\ d.features # <<>>
    /\ d.namespace \in Seq(FeatureRecords)
    /\ \A k \in DOMAIN d.features : d.features[k].code \in SSCs => d.features[k].length >= 12
    /\ d.properties \in Seq(PropertyRecords)
    /\ \A k \in DOMAIN d.properties : Before(d, k) =>
           /\ d.properties[k].name = "MaxComPacketSize" => d.properties[k].value = d.packet
           /\ d.properties[k].name = "MaxIndTokenSize" => d.properties[k].value = d.token
    /\ d.packet \in PacketLimits /\ d.token \in TokenLimits
    /\ d.packet >= 2048 /\ d.token >= 1950

ASSUME DefaultAssumption == 2048 \in PacketLimits /\ 1950 \in TokenLimits

VARIABLES
  disk,   \* the disk of the machine
  pc,     \* what main, or the constructor it calls, does next
  class,  \* the class of the device object: Generic, or an SSC
  dev,    \* the device object
  exit    \* the exit code, once pc is exit

devVars == <<class, dev, limits>>
vars    == <<disk, pc, exit, devVars, optionVars, loadVars>>

NoDevice == [isOpen |-> FALSE, devType |-> "ATA", driver |-> "sata", seen |-> {}]

-----------------------------------------------------------------------------
(* Steps                                                                   *)

Init ==
  /\ disk \in Disks
  /\ pc = "options" /\ exit = 0
  /\ class = "Generic" /\ dev = NoDevice
  /\ tperMaxPacket = 2048 /\ tperMaxToken = 1950
  /\ OptionsInit /\ LoadInit

Goto(label) == pc' = label /\ UNCHANGED exit
Return(code) == pc' = "exit" /\ exit' = code

ReadOptions ==
  /\ pc = "options" /\ DtaOptions
  /\ UNCHANGED <<disk, pc, exit, devVars, loadVars>>

(* DTAERROR_COMMAND_ERROR whatever DtaOptions returned; the self test of   *)
(* PBKDF2 needs no device, and falls out of the switch.                    *)
OptionsRead ==
  /\ pc = "options"
  /\ \/ parsed = "error" /\ Return(136)
     \/ parsed = "yes" /\ action = "validatePBKDF2" /\ Return(134)
     \/ parsed = "yes" /\ action # "validatePBKDF2" /\ Goto("open")
  /\ UNCHANGED <<disk, devVars, optionVars, loadVars>>

(* argv[opts.device], with main's correction; diskScan goes by /dev.       *)
DeviceIndex == IF opts["device"] > argc - 1 THEN 0 ELSE opts["device"]
Named == \/ action = "scan"
         \/ DeviceIndex # 0 /\ argv[DeviceIndex].is = "disk"

(* The constructor opens the device, which may fail at any time.           *)
OpenDevice ==
  /\ pc = "open"
  /\ tperMaxPacket' = 2048 /\ tperMaxToken' = 1950
  /\ \/ /\ Named /\ disk.path # "other"
        /\ dev' = [NoDevice EXCEPT !.isOpen = TRUE, !.driver = disk.driver]
        /\ Goto("identify")
     \/ dev' = NoDevice /\ Goto("opened")
  /\ UNCHANGED <<disk, class, optionVars, loadVars>>

Identify ==
  /\ pc = "identify"
  /\ \E id \in identify(dev.driver, disk.kind) :
       /\ dev' = [dev EXCEPT !.devType = id.devType, !.driver = id.driver]
       /\ Goto(IF id.devType = "OTHER" THEN "opened" ELSE "discovery0")
  /\ UNCHANGED <<disk, class, limits, optionVars, loadVars>>

(* What one IF_RECV leaves in a buffer of zeros, and what it returns.      *)
Received(answer) ==
  {[status |-> sendCmd(dev.driver, f), data |-> IF f = "done" THEN answer ELSE <<>>] :
     f \in Fates(dev.driver, disk.kind)}

Discovery0 ==
  /\ pc = "discovery0"
  /\ \E r \in Received(disk.features) :
       IF r.status = 0
       THEN dev' = [dev EXCEPT !.seen = discovery0(r.data)] /\ Goto("discovery0_NS")
       ELSE Goto("opened") /\ UNCHANGED dev
  /\ UNCHANGED <<disk, class, limits, optionVars, loadVars>>

(* Of the second response only the namespace geometry is of interest.      *)
Discovery0_NS ==
  /\ pc = "discovery0_NS"
  /\ \E r \in Received(disk.namespace) :
       dev' = [dev EXCEPT !.seen = @ \cup (IF r.status = 0
                                           THEN {f \in discovery0(r.data) : f.code = "NSGeometry"}
                                           ELSE {})]
  /\ Goto("opened")
  /\ UNCHANGED <<disk, class, limits, optionVars, loadVars>>

(* What the constructor still does: Opal exchanges properties first.       *)
Opened ==
  /\ pc = "opened"
  /\ Goto(CASE class = "Generic" -> "main" [] class = "Enterprise" -> "assert" [] OTHER -> "properties")
  /\ UNCHANGED <<disk, devVars, optionVars, loadVars>>

Asserted_Off == TRUE

Asserted == Reports(dev.seen, class)

(* Built without NDEBUG, as linux/CLI is.                                  *)
CheckSSC ==
  /\ pc = "assert"
  /\ Goto(IF ~Asserted THEN "aborted" ELSE IF class = "Enterprise" THEN "properties" ELSE "call")
  /\ UNCHANGED <<disk, devVars, optionVars, loadVars>>

LastOf_Index(ks, value) == IF ks = {} THEN value ELSE CHOOSE k \in ks : \A j \in ks : j <= k

LastOf(ks, value) ==
  IF ks = {} THEN value
  ELSE disk.properties[CHOOSE k \in ks : \A j \in ks : j <= k].value

Known_All(name) == {k \in DOMAIN disk.properties : disk.properties[k].name = name}

(* The properties of this name that the loop gets to.                      *)
Known(name) == {k \in DOMAIN disk.properties : disk.properties[k].name = name /\ Before(disk, k)}

(* Its failure is only logged.  The loop stops at MaxIndTokenSize: behind  *)
(* it come the host's own properties, under the same names.  (On Windows a *)
(* device that was not opened has no driver object either: that ends in    *)
(* the same abort one step earlier.)                                       *)
Properties ==
  /\ pc = "properties"
  /\ \/ /\ dev.isOpen
        /\ tperMaxPacket' = LastOf(Known("MaxComPacketSize"), tperMaxPacket)
        /\ tperMaxToken' = LastOf(Known("MaxIndTokenSize"), tperMaxToken)
     \/ UNCHANGED limits
  /\ Goto(IF class = "Enterprise" THEN "call" ELSE "assert")
  /\ UNCHANGED <<disk, class, dev, optionVars, loadVars>>

-----------------------------------------------------------------------------
(* main                                                                    *)

SSCOf(seen) ==
  IF isOpal2(seen) THEN "OPALV200" ELSE IF isOpal1(seen) THEN "OPALV100" ELSE "Enterprise"

Reported ==
  /\ pc = "main" /\ action \in {"scan", "isValidSED"}
  /\ Return(0)
  /\ UNCHANGED <<disk, devVars, optionVars, loadVars>>

Unsupported ==
  /\ pc = "main" /\ action \notin {"scan", "isValidSED"}
  /\ ~dev.isOpen \/ ~isAnySSC(dev.seen)
  /\ Return(136)
  /\ UNCHANGED <<disk, devVars, optionVars, loadVars>>

ChooseClass ==
  /\ pc = "main" /\ action \notin {"scan", "isValidSED"}
  /\ dev.isOpen /\ isAnySSC(dev.seen)
  /\ class' = SSCOf(dev.seen)
  /\ Goto("open")
  /\ UNCHANGED <<disk, dev, limits, optionVars, loadVars>>

(* Handlers that only say that the SSC does not have them.                 *)
OpalStubs == [setBandsEnabled |-> 0, setBandEnabled |-> 0, eraseLockingRange |-> 0]

EnterpriseStubs ==
  [setPassword_SUM |-> 0, setMBREnable |-> 0, setMBRDone |-> 0, setupLockingRange_SUM |-> 0,
   setup_SUM |-> 1, printLockingRangeStatus |-> 1,
   setLockingRange_SUM |-> 131, enableuser |-> 131, loadPBAimage |-> 131,
   activateLockingSP |-> 131, activateLockingSP_SUM |-> 131, eraseLockingRange_SUM |-> 131]

Stubs == IF class = "Enterprise" THEN EnterpriseStubs ELSE OpalStubs

CallLoadPBA ==
  /\ pc = "call" /\ action = "loadPBAimage" /\ class # "Enterprise"
  /\ loadPBA
  /\ Goto("loading")
  /\ UNCHANGED <<disk, class, dev, optionVars>>

CallHandler ==
  /\ pc = "call" /\ ~(action = "loadPBAimage" /\ class # "Enterprise")
  /\ \E code \in IF action \in DOMAIN Stubs THEN {Stubs[action]}
                  ELSE IF action = "query" THEN {0} ELSE {0, 1} : Return(code)
  /\ UNCHANGED <<disk, devVars, optionVars, loadVars>>

Loading ==
  /\ pc = "loading" /\ LoadStep
  /\ UNCHANGED <<disk, pc, exit, class, dev, optionVars>>

LoadingFails ==
  /\ pc = "loading" /\ LoadFails
  /\ UNCHANGED <<disk, pc, exit, class, dev, optionVars>>

Loaded ==
  /\ pc = "loading" /\ load \in {"loaded", "failed"}
  /\ Return(IF load = "loaded" THEN 0 ELSE 1)
  /\ UNCHANGED <<disk, devVars, optionVars, loadVars>>

Progress ==
  \/ ReadOptions \/ OptionsRead
  \/ OpenDevice \/ Identify \/ Discovery0 \/ Discovery0_NS \/ Opened \/ CheckSSC \/ Properties
  \/ Reported \/ Unsupported \/ ChooseClass \/ CallLoadPBA \/ CallHandler
  \/ Loading \/ Loaded

Next == Progress \/ LoadingFails

(* One sequential program, which the system schedules; a read, a call to a *)
(* driver and an exchange end, well or not (Terminates of DtaSession).  No *)
(* failure of loadPBA is counted on.                                       *)
Spec == Init /\ [][Next]_vars /\ WF_vars(Progress)

-----------------------------------------------------------------------------
(* Properties                                                              *)

(* Types.                                                                  *)
TypeOK ==
  /\ LoadTypeOK
  /\ disk \in Disks /\ argv \in CommandLines
  /\ pc \in {"options", "open", "identify", "discovery0", "discovery0_NS", "opened", "properties",
             "assert", "main", "call", "loading", "exit", "aborted"}
  /\ exit \in 0 .. 255
  /\ class \in {"Generic"} \cup SSCs
  /\ dev \in [isOpen : BOOLEAN, devType : {"ATA", "SAS", "NVME", "USB", "OTHER"},
              driver : Drivers, seen : SUBSET FeatureRecords]
  /\ at \in 1 .. 255 /\ baseOptions \in 2 .. 255
  /\ opts \in [Fields -> 0 .. 255]
  /\ action \in {"deadbeef"} \cup DOMAIN OptionForms
  /\ parsed \in {"no", "yes", "error"}

(* The operands of the commands that usage() explains.                     *)
DeviceOnly     == <<"device">>
PasswordDevice == <<"password", "device">>
RangePD        == <<"none", "password", "device">>
Renewed        == <<"password", "newpassword", "device">>

UsageLines ==
  [query |-> DeviceOnly, isValidSED |-> DeviceOnly, printDefaultPassword |-> DeviceOnly,
   listLockingRanges |-> PasswordDevice, setBandsEnabled |-> PasswordDevice,
   initialSetup |-> PasswordDevice, revertTPer |-> PasswordDevice,
   revertNoErase |-> PasswordDevice,
   yesIreallywanttoERASEALLmydatausingthePSID |-> PasswordDevice,
   listLockingRange |-> RangePD, rekeyLockingRange |-> RangePD, setBandEnabled |-> RangePD,
   eraseLockingRange |-> RangePD, printLockingRangeStatus |-> RangePD,
   enableLockingRange |-> RangePD, disableLockingRange |-> RangePD,
   setMBREnable |-> RangePD, setMBRDone |-> RangePD,
   setSIDPassword |-> Renewed, setAdmin1Pwd |-> Renewed,
   setupLockingRange |-> <<"none", "lrstart", "lrlength", "password", "device">>,
   setPassword |-> <<"password", "userid", "newpassword", "device">>,
   setLockingRange |-> <<"none", "none", "password", "device">>,
   loadPBAimage |-> <<"password", "pbafile", "device">>]

(* The index recorded for an operand is where usage() says the operand is, *)
(* whatever options come before the command: no password is taken for a    *)
(* new password, a user or a device.                                       *)
ArgumentsAsUsage ==
  parsed = "yes" /\ action \in DOMAIN UsageLines =>
    LET line == UsageLines[action]
    IN  /\ argc = baseOptions + Len(line)
        /\ \A k \in DOMAIN line : line[k] # "none" => opts[line[k]] = baseOptions - 1 + k

(* "sedutil-cli <-v> <-n> <action> <options> <device>": in a command line  *)
(* that DtaOptions accepts the device is the last argument.                *)
DeviceIsLast == parsed = "yes" /\ opts["device"] # 0 => opts["device"] = argc - 1

(* A handler is called only for an object that has itself heard the disk   *)
(* report its class, and whose ComID therefore is the one to be used; and  *)
(* it is the best class the disk has.  Between the two discoveries, and in *)
(* either of them, the disk may fall silent, and a driver may take its     *)
(* silence for success.                                                    *)
Best(d) ==
  CHOOSE code \in SSCs :
    /\ \E k \in DOMAIN d.features : d.features[k].code = code
    /\ code # "OPALV200" => \A k \in DOMAIN d.features : d.features[k].code # "OPALV200"
    /\ code = "Enterprise" => \A k \in DOMAIN d.features : d.features[k].code # "OPALV100"

HandlerSeesItsDisk ==
  pc \in {"call", "loading"} =>
    /\ class = Best(disk)
    /\ \E k \in DOMAIN disk.features :
         disk.features[k].code = class /\ disk.features[k].comID = comID(dev.seen, class)

(* Every Set of loadPBA fits in what the disk accepts, whether or not the  *)
(* properties exchange succeeded and in whatever order it reported them.   *)
FitsDisk ==
  load = "blocks" /\ More =>
    CommandLength(filepos, Block) <= disk.packet /\ 4 + Block <= disk.token

(* The program ends: DtaOptions comes to the end of any command line, and  *)
(* loadPBA to the end of any file.                                         *)
Ends == <>(pc \in {"exit", "aborted"})
=============================================================================
