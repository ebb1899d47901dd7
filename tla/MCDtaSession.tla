---------------------------- MODULE MCDtaSession ----------------------------
(***************************************************************************)
(* The constants of DtaSession for TLC: named processes, told apart only   *)
(* by equality.                                                            *)
(***************************************************************************)
EXTENDS DtaSession
=============================================================================
