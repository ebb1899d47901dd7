---------------------------- MODULE MCUnlockSEDs ----------------------------
(* UnlockSEDs for TLC: drives that DtaDevOpal's handlers have set up.      *)
EXTENDS UnlockSEDs
LOCAL INSTANCE SequencesExt

CONSTANTS
  Owners,  \* the passwords drives were set up with
  NoHash   \* whether they were set up with option -n: a subset of BOOLEAN

ASSUME OwnersAssumption == Owners \subseteq Passwords /\ NoHash \subseteq BOOLEAN

(* The drive after the handlers have run to their end.                     *)
After(d, sessions) ==
  FoldLeft(LAMBDA x, s : FoldLeft(Performed, x, s.methods), d, sessions)

(* Never set up; set up for a boot drive, with or without the shadow MBR,  *)
(* and locking enabled for any of the ranges; or set up for single user    *)
(* mode: range 1 by setup_SUM, or the global range, locked by its user.    *)
SetUp ==
  {Factory} \cup
  UNION {LET j == [NoJob EXCEPT !.pw = pw, !.new = pw, !.n = n, !.range = 1]
             g == [j EXCEPT !.range = 0]
         IN {After(Factory, initialSetup(j) \o setMBREnable(j, mbr)
                            \o configureLockingRange(j, 0, g0)
                            \o configureLockingRange(j, 1, g1)) :
               mbr \in BOOLEAN, g0 \in {{}, Modes}, g1 \in {{}, Modes}}
            \cup {After(Factory, setup_SUM(j, Factory)),
                  After(Factory, takeOwnership(g) \o activateLockingSP_SUM(g)
                                 \o setLockingRange_SUM(g, Empty, "LK"))} :
         pw \in Owners, n \in NoHash}
=============================================================================
