------------------------------- MODULE DtaDev -------------------------------
(***************************************************************************)
(* Discovery 0 as the device classes read it.  A response is a header of   *)
(* 48 bytes and a list of features, each of 4 bytes and the data whose     *)
(* length they give.                                                       *)
(***************************************************************************)
EXTENDS Integers, Sequences

(* The features that tell the SSC; the others are told apart by name only. *)
SSCs == {"OPALV200", "OPALV100", "Enterprise"}

(* The walk: cpos moves from feature to feature up to epos, the start plus *)
(* the length in the header - which does not count its own 4 bytes.        *)
Walk(fs) ==
  LET cpos[k \in 1 .. Len(fs) + 1] ==
        IF k = 1 THEN 48 ELSE cpos[k - 1] + fs[k - 1].length + 4
      epos == cpos[Len(fs) + 1] - 4
  IN  {k \in 1 .. Len(fs) : k = 1 \/ cpos[k] < epos}

(* The features that disk_info has afterwards; what is zeros is Unknown.   *)
discovery0(fs) == {fs[k] : k \in Walk(fs)}

Reports(seen, code) == \E f \in seen : f.code = code

isOpal2(seen)  == Reports(seen, "OPALV200")
isOpal1(seen)  == Reports(seen, "OPALV100")
isEprise(seen) == Reports(seen, "Enterprise")

(* ANY_OPAL_SSC, set along with any of the three.                          *)
isAnySSC(seen) == \E code \in SSCs : Reports(seen, code)

(* The base ComID that a class of device uses: 0 if its SSC was not seen.  *)
comID(seen, class) ==
  IF Reports(seen, class) THEN (CHOOSE f \in seen : f.code = class).comID ELSE 0
=============================================================================
