-------------------------- MODULE MCDtaDevEnterprise --------------------------
(* DtaDevEnterprise for TLC: the drives and the commands of the runs.      *)
EXTENDS DtaDevEnterprise

Hashed == {FALSE}

ThreeBands == <<0, 1, 2>>
(* A drive with many bands, of which only these are looked at.             *)
ManyBands == <<0, 1, 256>>

Provisioning == {"initialSetup", "takeOwnership", "setSIDPassword", "setPassword",
                 "configureLockingRange", "setLockingRange", "setupLockingRange",
                 "rekeyLockingRange", "eraseLockingRange", "setBandEnabled",
                 "listLockingRanges", "listLockingRange", "revertNoErase", "revertTPer",
                 "PSIDrevert"}
                \cup {"setMBREnable", "setup_SUM"}
Passwording == {"takeOwnership", "setPassword"}
=============================================================================
