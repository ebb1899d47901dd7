---------------------------- MODULE MCDtaDevOpal ----------------------------
(* DtaDevOpal for TLC: the sets of commands the runs are about.            *)
EXTENDS DtaDevOpal, TLC

Hashed == {FALSE}

(* The commands about owners, users, the shadow MBR and reverts, and those *)
(* that a drive without single user mode must refuse.                      *)
Provisioning == {"initialSetup", "takeOwnership", "setSIDPassword", "activateLockingSP",
                 "setPassword", "enableUser", "setMBREnable", "setMBRDone",
                 "revertLockingSP", "revertNoErase", "revertTPer", "PSIDrevert",
                 "activateLockingSP_SUM", "setup_SUM"}

(* The commands on locking ranges, in single user mode and without it.     *)
RangeCommands == {"takeOwnership", "activateLockingSP", "activateLockingSP_SUM",
                  "configureLockingRange", "setLockingRange", "rekeyLockingRange",
                  "setupLockingRange", "setup_SUM", "eraseLockingRange_SUM",
                  "setupLockingRange_SUM", "setLockingRange_SUM", "setNewPassword_SUM",
                  "revertNoErase", "revertTPer"}

SingleUserSetup == {"setup_SUM", "revertTPer"}

(* Commands of one or two sessions, for two processes.                     *)
Racing == {"takeOwnership", "activateLockingSP", "setSIDPassword", "revertTPer"}

Symmetry == Permutations(Procs)
=============================================================================
