# A TLA+ verification of sedutil

sedutil manages self-encrypting drives that follow the TCG Opal and Enterprise
SSCs. One process runs one command: it opens the device, reads Discovery 0,
opens sessions with the security providers (SPs) inside the drive, calls methods
in them, and exits. All durable state is in the drive; the program's difficulty
is to take the drive from one consistent configuration to another through many
exchanges, any of which may fail, or be the last before a ^C or a power cut.

## Inventory

| Component | Source | State | Operations | Interacts with | Correct when |
|---|---|---|---|---|---|
| Session | `Common/DtaSession.*` | HSN, TSN, `willAbort`, `hashPwd` | start, authenticate, sendCommand, expectAbort, destructor | `exec()` of the device, decoder | the session used is open and the process's own; it is ended on every path |
| Exchange | `exec()` in `DtaDevOpal.cpp`, `DtaDevEnterprise.cpp` | the ComID's buffers, in the drive | IF_SEND, IF_RECV until nothing is outstanding | OS transport | an answer is the one to the request; the loop ends |
| Opal device | `Common/DtaDevOpal.*` | `disk_info`, shared `session` and `response` | provisioning handlers (22 commands), loadPBA, queries, rawCmd | session, hashing | what a returned 0, and a returned error, say about the drive is true |
| Opal 1/2 | `DtaDevOpal1/2.*` | base ComID | | Opal device | |
| Enterprise device | `Common/DtaDevEnterprise.*` | as Opal | takeOwnership, initLSPUsers, bands, erase, reverts; stubs for the rest | session, hashing | as Opal, although some errors are passed over; an interrupted takeOwnership can be finished |
| Generic device | `Common/DtaDevGeneric.*` | | none | Discovery 0 | |
| Discovery 0 | `DtaDev::discovery0` | `disk_info` | walk the feature list | main, handlers | the object that runs a handler has itself heard the disk report its class |
| Encoder | `DtaCommand.*` | command buffer | reset, addToken, complete | session | tokens round-trip, the buffer is not overrun |
| Decoder | `DtaResponse.*` | token vector | init, getters | session, handlers | a token read exists and has the type asked for |
| Hashing | `DtaHashPwd.cpp`, `pbkdf2/` | | DtaHashPwd | session | the same password always gives the same PIN |
| Options, main | `DtaOptions.cpp`, `sedutil.cpp` | `opts` | parse, choose the SSC class, dispatch | device | an argument reaches the parameter it was meant for |
| loadPBA | `DtaDevOpal::loadPBA` | positions in file and table, block size | one Set per block | properties exchange, encoder | every Set fits the drive's limits, the blocks add up to the file |
| Pre-boot | `LinuxPBA/` | | UnlockSEDs over all drives | Opal device | every drive the password opens is unlocked |
| Transport | `linux/`, `windows/` | file handle | sendCmd, identify | drive | an error of the drive is reported as one |

Hard behaviours: exchanges that fail before or after the drive has acted; processes
killed between two exchanges, or ended by `exit()` in a getter; power cuts; two
processes on one drive (the base ComID is shared and nothing is locked); composite
handlers that return at the first error, half-way; commands repeated after any of
this; PINs that are hashed in some places and sent as entered in others. `PROJECT.json`
lists each of them at its line under `hazards`.

## Modules

    DtaSession            one command's exchanges over a shared ComID
      DtaSessionProof     its theorems
      MCDtaSession        for TLC
    OpalTPer              the Opal drive as DtaDevOpal uses it (external)
      OpalHandlers        the handlers, as sequences of sessions with that drive
        OpalHandlersProof lemmas about what a method does and a handler opens
        DtaDevOpal        processes that run them, exchange by exchange
          OpalOwnership   the abstract specification of the two master PINs,
                          instantiated by DtaDevOpal with a refinement mapping
          DtaDevOpalProof its theorems, the refinement among them
          MCDtaDevOpal    for TLC: the groups of commands
        UnlockSEDs        the pre-boot loop, which calls two of the handlers
                          on each of several drives
          UnlockSEDsProof its theorems
          MCUnlockSEDs    for TLC: the drives, set up by running handlers
    EnterpriseTPer        the Enterprise drive (external)
      EnterpriseHandlers  the handlers of DtaDevEnterprise
        DtaDevEnterprise  a process that runs them, exchange by exchange
          DtaDevEnterpriseProof  its theorems about every state
            EnterprisePromises   ... and about what a command returns
          MCDtaDevEnterprise     for TLC
    LoadPBA               the image file, block by block
      LoadPBAProof        its theorems
    Transport             what a driver makes of a failed call
    DtaOptions            the command line
    DtaDev                Discovery 0 and the SSC predicates
    Sedutil               main: composes LoadPBA, Transport, DtaOptions, DtaDev
      SedutilProof        its theorems
      MCSedutil           for TLC: command lines and disks

### DtaSession

A process goes through `phase`: `props` (the Properties exchange of `init`), `start`,
`auth` (Enterprise only), `method` (`left` of them), `end` (the destructor), `gone`.
In each phase it does one exchange: `Send` or `SendFails`, then one of the `Recv*`
actions, which are the ways `exec` and `sendCommand` can return. `AfterError` and
`AfterOk` say where the handlers go next, `AbortsEarly` and `AbortsNow` when
`expectAbort()` is called. `PollEnds` is the condition of the polling loop. `Exit` is the
`exit()` in the getters of DtaResponse, on any answer of any phase, `Interrupt` a ^C. The drive (`TPer*`, external) answers one request at a time and has
one session slot; it may refuse or replace a second request (`WhenBusy`). A TSN is
represented by the process whose StartSession got it.

The first of the sessions of a command stands for all: DtaDevOpal composes them.

### OpalHandlers and DtaDevOpal over OpalTPer

A handler is an operator that gives the sequence of sessions it opens, each with its
SP, authority, PIN and methods: `takeOwnership`, `activateLockingSP`, `setMBREnable`
and so on have the names of the source. Composition (`initialSetup`, `setup_SUM`) is
concatenation, since every handler returns at the first error. `Handler` is the switch
in `main`. In DtaDevOpal `todo` holds what a process has still to do, and the actions are the
exchanges: `Start`, `Call`, `Close`, their refusals by the drive, and their failures
(`StartFails`, `CallFails`, `CloseFails`), where the drive may have acted or not.
`Correction` is the branch of setup_SUM on the answer of getLockingRange_status.
`disk_info` is the drive as it was at `Launch`: the branch of setup_SUM on it is decided
there. `was` and `fault` are history variables for the properties.

What Discovery 0 says of the drive's abilities is the constant `Features`. An Opal drive always
reports "Locking", so every run has it; opal_provisioning is without "SingleUser", and setup_SUM
and activateLockingSP_SUM are refused there, the first by the program (`SumRefused`), the second by
the drive. A user name that getAuth4User cannot read is `Anybody`: the handler has opened its
session by then, and closes it without a method (`OnUser`). revertNoErase is RevertSP with
KeepGlobalRangeKey (`RevertSP`); that a drive refuses it while its global range is locked for reading and
writing is external.

The token encoding of a method is abstracted to its meaning; a password to a model
value, hashed or not; a place (start and length) to a model value; Read- and
WriteLockEnabled, and Read- and WriteLocked, to sets of modes.

### EnterpriseHandlers and DtaDevEnterprise over EnterpriseTPer

The same construction, with two differences the source has. A session says what its handler
does about an error (`err`): return it, skip to the next session (`initLSPUsers`, whose
loop over the band masters looks at the first result only), ask for an Opal drive's
LockingInfo instead (`getMaxRanges`, `getMaxRangesOpal`), or go on and remember it
(`listLockingRanges`, variable `seen`). And a band is named by the UID that `setband`
computes, not by the number it was given; `setband` is translated with its mask. The drive
(external) has a master per band, an EraseMaster, LockOnReset, and tells its MaxRanges in
the Enterprise LockingInfo, the Opal one, or not at all.

### UnlockSEDs

The actions are the turns of the loop: a device is absent (which ends the loop), not Opal,
not locked, or unlocked with `setMBRDone` and `setLockingRange` of OpalHandlers. Each of these
two has one session with one method, so it is one step with the outcomes `Succeeds`,
`Refused`, `CallFails`, `CloseFails`; a power cut between drive and host shows nothing more,
because powering up clears what either of them sets. `Provisioned`, the drives a user may have,
is a constant of which only `Sane` is assumed: a LockingSP that is not active is as RevertSP
leaves it. That is what DtaDevOpal leaves, after any history of commands and faults (theorem `OpalDriveSane`).
For TLC, `SetUp` in MCUnlockSEDs gives such drives by running handlers to their end on a factory
drive (`After`): with and without -n, with and without the shadow MBR, locking enabled for any of
two ranges, or in single user mode.
`DiscoveryFails` and `Aborts` are the two Discovery 0 of a device. The operator names are
those of the source's variables (`failed`) and messages.

### LoadPBA

`BlockSize` is the least of the three limits less the source's estimate of the header and
50 bytes; `CommandLength` is what the encoder really makes of the Set. The stream, the place
in the table and what is known to be intact are three positions: a read that fails is not
noticed by the code, so the stale buffer is sent (`SendStaleBlock`) for the rest of the file.

### Sedutil and its parts

One run of the program. `DtaOptions` is one turn of the loop over argv; the tables
`OwnerOptions` to `BandOptions` are the BEGIN_OPTION blocks: how many arguments are
counted, which literals are tested, which operands are recorded in which order. The
constructor of a device object is `OpenDevice`, `Identify`, `Discovery0`, `Discovery0_NS`,
`Opened`, and by class `Properties` and `CheckSSC` (the assertion); main runs it twice,
for the generic object that tells the class (`ChooseClass`) and for the one that runs the
command. Each call to a driver has a fate (`Transport!Fates`), and `sendCmd` of that driver
makes a status byte of it: they do not agree, and some report a lost call as a good
one, with an empty buffer. loadPBA is then run in full; of the other handlers, which the
device modules are about, only the exit code is.

## Runs

| Run | Shows | Bounds |
|---|---|---|
| session_opal_serial | no stale answer, no foreign or leaked session, every command ends | two commands, at most two methods each; an answer left over needs one earlier command, a foreign session one more |
| session_ent_concurrent | termination and recovery by timeout with two processes at once, with the separate authentication | one method each, a second IF_SEND is refused |
| session_opal_leak | violation: a refused revertTPer keeps its session | as the first |
| opal_provisioning | SuccessMeansDone, CleanFailureIsAtomic, PSIDRecovers, ShadowStaysDown, refinement of OpalOwnership | fourteen commands in any order and number, five passwords (the empty one, the MSID's text, the PSID, two more), the global range, no single user mode |
| opal_ranges | SuccessMeansDone and CleanFailureIsAtomic of the range commands, ordinary and of single user mode; SetupSUMResumes | two ranges, two places, three passwords of which two are entered |
| opal_concurrent | refinement of OpalOwnership by two racing processes | four commands of one or two sessions; symmetric processes |
| opal_sum_global | violation: setup_SUM of range 0 stops half-way | as opal_ranges |
| unlock_drives | UnlockedIsOpen, FailedIsShut, PassPhraseOpens | two devices: absent, not Opal, or one of 21 Opal drives, a right and a wrong pass-phrase, any number of boots |
| ent_provisioning | SuccessMeansDone, CleanFailureIsAtomic, MSIDFinishes, PSIDRecovers, GuardedBandLocks | three bands, of which the master of the first may log in at first; commands name the third band and one the drive does not have; two passwords entered; 2.8 million states |
| ent_many_bands | violation: BandMaster256 is taken for BandMaster0 | bands 0, 1 and 256 |
| sedutil_startup | ArgumentsAsUsage, HandlerSeesItsDisk, Fits, FitsDisk, LoadedWhole, Ends | every command, with its operands right, one too few, one too many or the first wrong, with and without options before and behind; seven disks of all classes and drivers; five file sizes; 184 thousand states |
| sedutil_enableuser | violation: enableuser is accepted without its device only | one command, one disk |

Two devices are enough for UnlockSEDs because its turns share only the flag `failed` and the
end of the loop; three devices (5.9 million states) show nothing else.

There is no bound on the number of commands in the device runs: processes launch commands
for ever and the state space is finite. Two places and two ranges are enough because no
definition compares more than two; two passwords beyond the special ones distinguish
old, new and wrong. Where only two passwords are entered the third is the one that only the
factory knows. Of the Enterprise commands only the named band matters, apart from loops over
all of them, for which three bands give a first, a middle and a last. The run has no band without
a media key, so the branch of rekeyLockingRange for those is not reached, and does without
`setBandsEnabled`, which is setBandEnabled for one band after another, to keep the number of
states down; the theorems hold for both.

The file sizes of sedutil_startup are: empty, one block exactly, a few blocks, and more blocks
of each limit; the limits are the defaults of the code (2048 and 1950), those of a larger
drive, and one beyond the command buffer.

CHECK_DEADLOCK is off in the session runs because each process runs one command, after
which nothing has to happen, and in the Sedutil runs because the program ends.

The properties in one sentence each are in the modules. The least obvious ones:

* `OwnAnswer` depends on the drive answering only live requests and on commands being run
  one at a time. With two at a time it fails: the EndSession that the destructor sends
  after a failed start gets no answer, and the IF_RECV that waits for it takes the answer
  of the other process. Nothing in the repository promises otherwise, so this is a
  hazard and not a finding.
* `CleanFailureIsAtomic` says that if no exchange failed, an error means that the drive
  is unchanged. It is not obvious for the composite commands; it holds because after the
  first session has been admitted none of the later ones can be refused, for one process
  at a time and hashed passwords. (With -n a drive can be activated while its SID still
  has the MSID; initialSetup then takes ownership and fails.) setup_SUM of the global
  range is excepted, and is the second finding. On Enterprise the taking of ownership is
  excepted on a drive where another master than the SID already has a password of its own,
  or which does not tell its MaxRanges: the SID's PIN is changed before that is found out.
* `SuccessMeansDone` on Enterprise promises less after a failed exchange: takeOwnership
  passes over band masters it could not reach and returns 0. `MSIDFinishes` says that
  setPassword with the empty old password can still reach each of them.
* `SetupSUMResumes` is about running setup_SUM again after it was interrupted anywhere.
  Interrupted between takeOwnership and the activation it cannot be resumed: takeOwnership
  needs the MSID. The property says that this is the only such window.
* `PassPhraseOpens` is what the pre-boot system is for, with the two exceptions the code
  makes: the `break` at a device that cannot be opened leaves all later drives locked, and a
  drive with the shadow MBR enabled but no range locked keeps its shadow. `UnlockedIsOpen`
  holds of the global range only: "is OPAL Unlocked" is printed while other ranges are locked.
* `HandlerSeesItsDisk` holds because of the assertion in the constructors of the device
  classes: the class is chosen by one Discovery 0, the ComID comes from a second one, and
  only the assertion sees it if that one fails. `windows/CLI/CLI.vcxproj:220` builds the
  release with NDEBUG, without it; the mutant of the property is that build.
* `FitsDisk` compares with what the disk accepts, `Fits` with what the object was told: the
  properties exchange may fail, and the defaults are then the least any drive may have.

Fairness. In DtaSession: a running process is scheduled, the drive answers what it has
accepted, and the session timeout it was asked for fires. Nobody has to start a command,
press ^C or cut the power, no IF_RECV has to fail and no getter to exit: the fairness is that of
`Progress`. exec() polls without a limit while the drive is busy with a request. The loop ends because
the drive answers what it has accepted, and because a ComID with nothing outstanding says so: a request
that is dropped gets no answer at all. A loop that waited for an answer there would hang, which is the
mutant of `Terminates`. A drive that reports for ever that data is outstanding would hang exec(); the
model assumes there is none. In Sedutil:
`WF_vars(Progress)`, for a sequential program that the system schedules and whose calls
return; `Ends` does not count on a failure of loadPBA (`LoadingFails` is not in `Progress`).

Every property of a passing run has a mutant in `PROJECT.json`: a faulty variant of one
definition (named `Definition_Fault` and placed before it) under which TLC finds it violated.

## Findings

1. `DtaSession.h:38`: "Destructor ends the session if required". revertTPer calls
   expectAbort() before it sends Revert; if the drive refuses it, the session stays open.
2. `DtaOptions.cpp:171` lets setup_SUM through for range 0, which on a new drive takes
   ownership, activates the LockingSP and only then refuses the range.
3. `DtaDevEnterprise.cpp:77`: setband masks the high byte of the band number away, so that
   BandMaster256, which `DtaOptions.cpp:71` allows, is BandMaster0.
4. `DtaOptions.cpp:188`: enableuser counts two arguments and takes three, so that it is
   refused with its device and accepted without.

## Proofs

`DtaSessionProof` proves, for any set of processes, either SSC, either behaviour of a busy
drive and any number of methods:

* `TypeCorrect`: `Spec => []TypeOK`;
* `AnswerIsOwn`, `SessionIsOwn`, `SlotIsLeftFree`, `HostViewHolds`, under `Serial`:
  `OwnAnswer`, `OwnSession`, `OnlyAbortedRevertLeaks`, `HostViewIsTrue` are invariants.

None of the four is inductive. `OwnInv` adds that only a process in `sent` has a request
outstanding and that a TSN comes from its own StartSession. For the leak, `IInv` adds what
the exchange under way means for the slot: which answers close a session (`ClosingAnswer`),
which packets are dropped (`DroppedPacket`), who may skip EndSession (`EarlyAbort`), and
`SlotInv`, that the slot is free or held by a process that will end it, was faulted, or is
excused. `HostInv` adds that a process before its StartSession answer has no TSN
(`NoTSNYet`). Each action has one step in the preservation proof. The assumptions are the
named ASSUMEs of the module.

`DtaDevEnterpriseProof` proves, for any bands, any passwords, any set of commands and of
bands they name:

* `EnterpriseTypeCorrect`: `Spec => []TypeOK`, for which every handler is shown to open
  well-formed sessions;
* `GuardedBandsLock`: `GuardedBandLocks` is an invariant;
* `LabelReverts`: `Spec => PSIDRecovers`.

`IInv` strengthens the type of `todo`: every method still to be called is sound, which is
that a Set of a band that enables locking enables LockOnReset with it (`SetsSoundly`) and that
nobody sets the PSID (`LeavesPSID`). It adds that the PSID is the label's, that an open
session is the head of `todo`, and that PSIDrevert is one session of one method
(`Reverting`). One lemma per handler shows what it opens; `StepTyped` has one step per action.
The assumptions are on the shape of the drive (`BandAssumption`, `PlaceAssumption`,
`FactoryAssumption`), on the special passwords (`PasswordAssumption`) and that commands are
those of the program (`CommandAssumption`, `NamedAssumption`, `HashAssumption`).

`EnterprisePromises` proves of the same model:

* `SuccessKept`: `Spec => SuccessMeansDone`, if no band has a number above 254 (`Unmasked`);
* `CleanFailureKept`: `Spec => CleanFailureIsAtomic`, under the same condition;
* `MSIDSuffices`: `Spec => MSIDFinishes`.

`Unmasked` is what the third finding makes necessary: setband takes a band of a higher number for another,
so that setBandEnabled of band 256, say, enables band 0 and returns 0. The run has only low numbers; the
theorems cover any set of them. They also cover setBandsEnabled, which the run leaves out. The invariant
`Promises` tells for each command what it has done, from what is left of `todo`. Most of them (`Singles`)
call one method that matters, after sessions that only ask: `Singly` says that the drive is as it was and
that call is still to come (`Waiting`), or the drive is what the method makes of it and nothing is left
(`Finished`). `HandlerShape` shows that each of their handlers has this form. The loops need more:
`Listing` and `Enabling` say that a band is dealt with or a session for it is left, and that once a band
is enabled nothing is left that could be refused. For takeOwnership and initialSetup `Owning` says that each
master has been given the password or is to get it (`Given`), that no session gives it twice or
gives it to BandMaster0 after a session has used it (`InTurn`), so that on a fresh drive each master
that has still to be given it has the MSID (`OwnClean`), and that an error that is passed over is due to a
fault or to another PIN than the MSID. A handler that is put together from others is put together from
their `Part`s. Then `OkStep` and `ErrStep` say where a command can return 0 and where an error.

`DtaDevOpalProof` proves, for any ranges, passwords, places, set of commands and, but for the
last, any number of processes on the drive:

* `OpalTypeCorrect`: `Spec => []TypeOK`;
* `OpalDriveSane`: `Spec => []Sane(drive)`, which UnlockSEDs assumes: a LockingSP that is not active
  has nothing locked, guarded, placed, rekeyed or in single user mode, no user and no PIN, and no shadow MBR;
* `OpalLabelReverts`: `Spec => PSIDRecovers`;
* `OwnershipRefined`: `Spec => OwnershipKept`, the refinement of OpalOwnership, if -n is not given
  (`NoHash \subseteq {FALSE}`). With -n it is not true: the password whose text is the MSID is then the
  MSID, and an owner who sets it is none;
* `OpalShadowStaysDown`: `Spec => ShadowStaysDown`, for one process. Two that run setMBRDone and
  setMBREnable at once can present the shadow MBR, as TLC shows in 20 steps.

The argument has three layers. OpalHandlersProof has one lemma per handler: every session it
opens is in `SoundSessions`, that is, its methods are typed, none sets the PSID or makes the SID's
PIN the MSID (`SoundMethods`), activation is asked for only by the SID with a PIN that is not the
MSID (`Activation`), users and Admin1 log in to the LockingSP only; and MBREnable is switched on
only in the session after the one that sets MBRDone (`Lowered`). Lemmas about `Performed` say
what each method does to the PINs. In DtaDevOpalProof, `IInv` states that `todo` is a sequence of
such sessions (`Planned`), that a process in a session holds the drive's only session and that
the LockingSP of such a session is active (`InSession`), that the drive is `Sane` and its PSID the
label's, and that PSIDrevert is one session of one method (`Reverting`). For the refinement
`Owned` adds that a drive without an owner is not active, and that a session that is going to
activate is only open on a drive with one: whatever other processes do before it is opened,
nobody takes the owner away while it is. Each action is then one of the steps of OpalOwnership or a
stutter (`OwnersStep`). For the shadow MBR `Lowering` adds that when MBREnable is to be switched on
next, MBRDone is set.

`UnlockSEDsProof` proves, for any number of devices, whatever they are, any pass-phrases, and any
drives that are `Sane`:

* `UnlockedTrue`: `Spec => []UnlockedIsOpen`;
* `FailedTrue`: `Spec => []FailedIsShut`;
* `PassPhraseOpened`: `Spec => []PassPhraseOpens`.

The three follow from one invariant, `UInv`: `Turn` says what is true of the drive of this turn (which
handlers are left, and that the flag `failed` is about this drive only), `Past` what each report says about
the drives of earlier turns, which no later turn touches, and `Over` that the loop has not passed an
absent device. A drive whose shadow is up or whose range is locked has an active
LockingSP because it is `Sane`; without that the loop would report drives it cannot unlock.

`LoadPBAProof` proves, for any limits of the drive and any file:

* `LoadTypeCorrect`: no unsigned position or length of loadPBA wraps;
* `BlocksFit`: `Fits` is an invariant;
* `LoadIsWhole`: `LoadedWhole` is an invariant.

The invariant adds how the three positions are related (`Positions`) and that the block size
never exceeds the first (`Bounded`). `PacketAssumption` and `TokenAssumption` exclude drives
with limits of about a hundred bytes, for which the subtractions would wrap; the TCG core
specification requires ten times as much.

`SedutilProof` proves of the whole program, for any disks, any drivers under them and any command
lines of up to 253 arguments:

* `SedutilTypeCorrect`: `Spec => []TypeOK`, so that the indices in bytes do not wrap;
* `HandlerSees`: `Spec => []HandlerSeesItsDisk`;
* `BlocksFitDisk`, `LoadsWhole`: `FitsDisk`, `Fits` and `LoadedWhole` are invariants of the program, the
  last two from the invariant of LoadPBAProof, of which loadPBA's steps here are steps;
* `ArgumentsRead`: `Spec => []ArgumentsAsUsage`.

Two invariants carry them. `SInv` is about the start-up: loadPBA has not begun before it is called
(`Quiet`), the limits of the device object never exceed the disk's (`Limited`), a discovery tells all the
classes of the disk or none (`Heard`), and from the assertion on the object that calls has heard of its
class (`Chosen`). `Heard` rests on what the feature walk finds: `Walk` sums lengths with a recursive
function, and `WalkReaches` shows, with a least counterexample in the place of an induction, that it
reaches every feature but an empty last one. `Limited` needs that the loop over the properties
stops at MaxIndTokenSize, and which of several properties of one name it keeps (`PropertiesTold`). `OInv` is about
the command line: before the command baseOptions is one ahead of the loop variable, and a
command that is accepted takes the arguments to their end (`Reading`); for each command the tables of
DtaOptions and of usage() are compared (`UsageExplains`). enableuser, which usage() does not
list with its operands, is the exception that `Sizes` names. The assumptions are
`DiskAssumption` (a disk has a feature, those that name a class are long enough to be one, and its properties
before the host's are its own), `DefaultAssumption` and `LineAssumption`.

## Only model-checked

* Liveness (`Terminates`, `TimeoutFreesSlot`, `Ends`), which TLAPS cannot treat with
  fairness.
* `SuccessMeansDone`, `CleanFailureIsAtomic` and `SetupSUMResumes` of DtaDevOpal: their invariant
  would follow each of its handlers, as that of EnterprisePromises does.

## Not modelled

* PBKDF2: vendored arithmetic. A password and its hash are told apart, no more.
* The token parser and the getters of DtaResponse, and the bytes DtaCommand writes: what a
  drive may answer is not in the repository, and a wrong token ends the process, which is an
  action (`Exit`, `Interrupt`). The length of a Set is modelled (LoadPBA).
* Which fields of a Discovery 0 feature are copied where, beyond class, ComID and the order of
  features; byte order.
* The command blocks of the transports: pure I/O.
* Logging, hex dumps and annotated dumps, `puke`, `objDump`, `rawCmd`, usage(), and the
  printing of `listLockingRanges`.
* The refusal of user names other than EraseMaster and BandMaster in the Enterprise setPassword
  (`DtaDevEnterprise.cpp:387`), which comes before everything else. The commands of the model name
  masters only, those of missing bands among them.
* `diskScan` over several disks, the keyboard input of the pre-boot system, build files,
  images and the shell scripts.

## Plan

Done: DtaSession, OpalTPer, OpalHandlers, OpalOwnership, DtaDevOpal, UnlockSEDs, EnterpriseTPer,
EnterpriseHandlers, DtaDevEnterprise, LoadPBA, Transport, DtaOptions, DtaDev, Sedutil, and a proof
module for each component that runs: every invariant of the runs is a theorem, and so are PSIDRecovers,
ShadowStaysDown, the refinement of OpalOwnership and all action properties of DtaDevEnterprise.

Next, in this order:

1. SuccessMeansDone and CleanFailureIsAtomic of DtaDevOpal, command by command as in
   EnterprisePromises: one process, and two methods in some sessions.
2. The tokens of DtaCommand and DtaResponse over short sequences: round trip, and the token
   counts getLockingRange_status relies on.
