----------------------------- MODULE DtaOptions -----------------------------
(***************************************************************************)
(* The command line.  DtaOptions takes the arguments one by one; for a     *)
(* command it checks how many arguments there are in all, tests literals,  *)
(* and records at which index of argv each operand is.                     *)
(***************************************************************************)
EXTENDS Integers, Sequences

CONSTANT CommandLines  \* the arguments after the program's name

(* An argument: an option, a command, or an operand - a locking range, a   *)
(* switch (on, off), a locking state, the name of the disk, other text.    *)
Arg(kind, is) == [kind |-> kind, is |-> is]

VARIABLES
  argv,         \* the command line; argv[0] is the program, argc its length + 1
  at,           \* the loop variable of DtaOptions
  baseOptions,  \* program, options and command met so far
  opts,         \* the index of each operand in argv, 0 if not given
  action,       \* the command, or "deadbeef"
  parsed        \* no; yes; or error

optionVars == <<argv, at, baseOptions, opts, action, parsed>>

argc == Len(argv) + 1

Fields == {"password", "newpassword", "userid", "pbafile", "lrstart", "lrlength", "device"}

(* BEGIN_OPTION, with its TESTARGs and its OPTION_ISs; "none" is an index  *)
(* that is passed over.                                                    *)
Form(args, tests, fields) == [args |-> args, tests |-> tests, fields |-> fields]

PD  == <<"password", "device">>
PND_Swapped == <<"newpassword", "password", "device">>
PND == <<"password", "newpassword", "device">>
PUD == <<"password", "userid", "device">>
PUN == <<"password", "userid", "newpassword", "device">>
LRs == <<"lrstart", "lrlength", "password", "device">>

(* The commands up to enableuser.                                          *)
OwnerOptions ==
  [initialSetup      |-> Form(2, <<>>, PD),
   setSIDPassword    |-> Form(3, <<>>, PND),
   setup_SUM         |-> Form(6, <<"range">>,
                              <<"lrstart", "lrlength", "password", "newpassword", "device">>),
   setAdmin1Pwd      |-> Form(3, <<>>, PND),
   loadPBAimage      |-> Form(3, <<>>, <<"password", "pbafile", "device">>),
   revertTPer        |-> Form(2, <<>>, PD),
   revertNoErase     |-> Form(2, <<>>, PD),
   PSIDrevert        |-> Form(2, <<>>, PD),
   PSIDrevertAdminSP |-> Form(2, <<>>, PD),
   yesIreallywanttoERASEALLmydatausingthePSID |-> Form(2, <<>>, PD),
   enableuser        |-> Form(2, <<>>, PUD)]

(* From activateLockingSP to printLockingRangeStatus.                      *)
LockingOptions ==
  [activateLockingSP       |-> Form(2, <<>>, PD),
   activateLockingSP_SUM   |-> Form(3, <<"range">>, PD),
   eraseLockingRange_SUM   |-> Form(3, <<"range">>, PD),
   query                   |-> Form(1, <<>>, <<"device">>),
   scan                    |-> Form(0, <<>>, <<>>),
   isValidSED              |-> Form(1, <<>>, <<"device">>),
   eraseLockingRange       |-> Form(3, <<"range">>, PD),
   takeOwnership           |-> Form(2, <<>>, PD),
   revertLockingSP         |-> Form(2, <<>>, PD),
   setPassword             |-> Form(4, <<>>, PUN),
   setPassword_SUM         |-> Form(4, <<>>, PUN),
   validatePBKDF2          |-> Form(0, <<>>, <<>>),
   setMBREnable            |-> Form(3, <<"switch">>, PD),
   setMBRDone              |-> Form(3, <<"switch">>, PD),
   printLockingRangeStatus |-> Form(3, <<"range">>, PD)]

(* From setLockingRange to setupLockingRange_SUM.                          *)
RangeOptions ==
  [setLockingRange       |-> Form(4, <<"range", "state">>, PD),
   setLockingRange_SUM   |-> Form(4, <<"range", "state">>, PD),
   enableLockingRange    |-> Form(3, <<"range">>, PD),
   disableLockingRange   |-> Form(3, <<"range">>, PD),
   setupLockingRange     |-> Form(5, <<"range">>, LRs),
   setupLockingRange_SUM |-> Form(5, <<"range">>, LRs)]

(* The rest.                                                               *)
BandOptions ==
  [readonlyLockingRange |-> Form(3, <<"range">>, PD),
   listLockingRanges    |-> Form(2, <<>>, PD),
   listLockingRange     |-> Form(3, <<"range">>, PD),
   rekeyLockingRange    |-> Form(3, <<"range">>, PD),
   setBandsEnabled      |-> Form(2, <<>>, PD),
   setBandEnabled       |-> Form(3, <<"range">>, PD),
   objDump              |-> Form(5, <<>>, <<"none", "none", "none", "none", "device">>),
   printDefaultPassword |-> Form(1, <<>>, <<"device">>),
   rawCmd               |-> Form(7, <<>>, <<"none", "none", "none", "none", "none", "none", "device">>)]

OptionForms ==
  [c \in UNION {DOMAIN OwnerOptions, DOMAIN LockingOptions, DOMAIN RangeOptions,
                DOMAIN BandOptions} |->
     CASE c \in DOMAIN OwnerOptions   -> OwnerOptions[c]
       [] c \in DOMAIN LockingOptions -> LockingOptions[c]
       [] c \in DOMAIN RangeOptions   -> RangeOptions[c]
       [] c \in DOMAIN BandOptions    -> BandOptions[c]]

(* The loop variable and baseOptions are bytes: with up to 253 arguments   *)
(* neither wraps.  What is none of the commands above is an operand.       *)
ASSUME LineAssumption ==
  \A line \in CommandLines :
    /\ line \in Seq([kind : {"option", "help", "operand", "command"}, is : STRING])
    /\ Len(line) <= 253
    /\ \A k \in DOMAIN line : line[k].kind = "command" => line[k].is \in DOMAIN OptionForms

-----------------------------------------------------------------------------

OptionsInit ==
  /\ argv \in CommandLines
  /\ at = 1 /\ baseOptions = 2
  /\ opts = [f \in Fields |-> 0]
  /\ action = "deadbeef"
  /\ parsed = "no"

Refuse == parsed' = "error" /\ UNCHANGED <<argv, at, baseOptions, opts, action>>

NoArguments == parsed = "no" /\ argc < 2 /\ Refuse

(* -v, -n, -l: whatever stands at the index of an option.                  *)
ParseOption ==
  /\ parsed = "no" /\ at < argc /\ argv[at].kind = "option"
  /\ at' = at + 1 /\ baseOptions' = baseOptions + 1
  /\ UNCHANGED <<argv, opts, action, parsed>>

(* -h, or an argument that should be a command.                            *)
ParseOther ==
  /\ parsed = "no" /\ at < argc /\ argv[at].kind \in {"help", "operand"}
  /\ Refuse

(* CHECKARGS and the TESTARGs, which look at the arguments that follow.    *)
Accepted(form) ==
  /\ form.args + baseOptions = argc
  /\ \A k \in DOMAIN form.tests : argv[at + k].is = form.tests[k]

ParseCommand ==
  /\ parsed = "no" /\ at < argc /\ argv[at].kind = "command"
  /\ LET form  == OptionForms[argv[at].is]
         first == at + Len(form.tests)
     IN  IF Accepted(form)
         THEN /\ action' = argv[at].is
              /\ opts' = [f \in Fields |->
                            IF \E k \in DOMAIN form.fields : form.fields[k] = f
                            THEN first + CHOOSE k \in DOMAIN form.fields : form.fields[k] = f
                            ELSE opts[f]]
              /\ at' = first + Len(form.fields) + 1
              /\ UNCHANGED <<argv, baseOptions, parsed>>
         ELSE Refuse

OptionsEnd ==
  /\ parsed = "no" /\ 2 <= argc /\ argc <= at
  /\ parsed' = "yes"
  /\ UNCHANGED <<argv, at, baseOptions, opts, action>>

DtaOptions == NoArguments \/ ParseOption \/ ParseOther \/ ParseCommand \/ OptionsEnd
=============================================================================
