---------------------------- MODULE LoadPBAProof ----------------------------
(***************************************************************************)
(* Proofs about LoadPBA, for drives of any limits and files of any size.   *)
(* The inductive invariant adds to the properties where the three          *)
(* positions are - in the stream, in the table, in what is known intact -  *)
(* and that blockSize never grows beyond what the limits allow.            *)
(***************************************************************************)
EXTENDS LoadPBA, TLAPS

Positions ==
  /\ filepos <= eofpos
  /\ load \in {"idle", "image", "session"} => ~bad /\ readpos = 0 /\ filepos = 0 /\ intact = 0
  /\ load = "blocks" /\ ~bad => readpos = filepos /\ intact = filepos

Bounded == load \in {"session", "blocks"} => blockSize <= BlockSize

IInv == LoadTypeOK /\ Positions /\ Bounded /\ LoadedWhole

(* The limits leave room for a block.                                      *)
LEMMA BlockSizeNat ==
  ASSUME LoadTypeOK
  PROVE  /\ BlockSize \in Nat
         /\ BlockSize + Overhead <= Least(MAX_BUFFER_LENGTH, tperMaxPacket)
         /\ BlockSize + Overhead + 4 <= tperMaxToken
<1>1. tperMaxPacket \in Nat /\ tperMaxPacket > Overhead
  BY PacketAssumption DEF LoadTypeOK
<1>2. tperMaxToken \in Nat /\ tperMaxToken > Overhead + 4
  BY TokenAssumption DEF LoadTypeOK
<1>. QED
  BY <1>1, <1>2 DEF BlockSize, Least, Overhead, OPALHeader, MAX_BUFFER_LENGTH

(* A block is part of what is left of the file.                            *)
LEMMA BlockNat ==
  ASSUME LoadTypeOK, Positions
  PROVE  /\ Block \in Nat
         /\ Block <= blockSize
         /\ filepos + Block <= eofpos
BY DEF LoadTypeOK, Positions, Block, Least

(* What the tokens of a Set and its padding take is within the estimate.   *)
LEMMA OverheadSuffices ==
  ASSUME NEW pos \in Nat, NEW n \in Nat
  PROVE  CommandLength(pos, n) <= n + Overhead
<1>1. TokenLength(pos) \in 1 .. 5
  BY DEF TokenLength
<1>2. PICK used \in Nat : used = OPALHeader + 19 + (3 + TokenLength(pos)) + (3 + 4 + n) + 2 + 6
  BY <1>1 DEF OPALHeader
<1>3. used <= n + 98
  BY <1>1, <1>2 DEF OPALHeader
<1>4. 4 * ((used + 3) \div 4) <= used + 3
  BY SMT
<1>5. CommandLength(pos, n) = 4 * ((used + 3) \div 4)
  BY <1>2 DEF CommandLength
<1>. QED
  BY <1>3, <1>4, <1>5 DEF Overhead, OPALHeader

LEMMA InitEstablishes == LimitsInit /\ LoadInit => IInv
<1>. SUFFICES ASSUME LimitsInit, LoadInit PROVE IInv
  OBVIOUS
<1>1. LoadTypeOK
  <2>1. bad \in BOOLEAN
    BY Zenon DEF LoadInit
  <2>2. {eofpos, readpos, filepos, blockSize, intact} \subseteq Nat
    BY SMT DEF LoadInit
  <2>. QED
    BY <2>1, <2>2 DEF LimitsInit, LoadInit, LoadTypeOK
<1>2. Positions
  BY DEF LoadInit, Positions
<1>3. Bounded /\ LoadedWhole
  BY DEF LoadInit, Bounded, LoadedWhole
<1>. QED
  BY <1>1, <1>2, <1>3 DEF IInv

LEMMA StepPreserves == IInv /\ [LoadNext]_<<limits, loadVars>> => IInv'
<1>. SUFFICES ASSUME IInv, [LoadNext]_<<limits, loadVars>> PROVE IInv'
  OBVIOUS
<1>. USE DEF IInv
<1>1. /\ Block \in Nat /\ Block <= blockSize /\ filepos + Block <= eofpos
      /\ BlockSize \in Nat
  BY BlockNat, BlockSizeNat
<1>2. CASE loadPBA
  BY <1>2 DEF loadPBA, limits, LoadTypeOK, Positions, Bounded, LoadedWhole
<1>3. CASE OpenImage
  <2>1. LoadTypeOK'
    BY <1>1, <1>3, FileAssumption DEF OpenImage, limits, LoadTypeOK
  <2>2. BlockSize' = BlockSize
    BY <1>3 DEF OpenImage, limits, BlockSize
  <2>3. Bounded'
    BY <1>1, <1>3, <2>2 DEF OpenImage, Bounded
  <2>4. Positions' /\ LoadedWhole'
    BY <1>3, <2>1 DEF OpenImage, LoadTypeOK, Positions, LoadedWhole
  <2>. QED
    BY <2>1, <2>3, <2>4
<1>4. CASE StartSession
  <2>1. BlockSize' = BlockSize
    BY <1>4 DEF StartSession, limits, BlockSize
  <2>. QED
    BY <1>4, <2>1 DEF StartSession, limits, LoadTypeOK, Positions, Bounded, LoadedWhole
<1>5. CASE SendBlock
  <2>1. BlockSize' = BlockSize
    BY <1>5 DEF SendBlock, limits, BlockSize
  <2>2. intact' = filepos + Block
    BY <1>5 DEF SendBlock, Positions, Written, LoadTypeOK
  <2>. QED
    BY <1>1, <1>5, <2>1, <2>2 DEF SendBlock, limits, LoadTypeOK, Positions, Bounded, LoadedWhole
<1>6. CASE ReadFails
  <2>1. BlockSize' = BlockSize
    BY <1>6 DEF ReadFails, limits, BlockSize
  <2>. QED
    BY <1>6, <2>1 DEF ReadFails, limits, LoadTypeOK, Positions, Bounded, LoadedWhole
<1>7. CASE SendStaleBlock
  <2>1. BlockSize' = BlockSize
    BY <1>7 DEF SendStaleBlock, limits, BlockSize
  <2>. QED
    BY <1>1, <1>7, <2>1 DEF SendStaleBlock, Least, limits, LoadTypeOK, Positions, Bounded, LoadedWhole
<1>8. CASE BlockFails
  <2>1. BlockSize' = BlockSize
    BY <1>8 DEF BlockFails, limits, BlockSize
  <2>2. ~bad => Written(filepos, readpos, Block) = filepos + Block
    BY <1>8 DEF BlockFails, Positions, Written, LoadTypeOK
  <2>3. intact' \in Nat /\ (~bad => intact' \in filepos .. filepos + blockSize)
    BY <1>1, <1>8, <2>2 DEF BlockFails, Positions, LoadTypeOK, Least
  <2>. QED
    BY <1>8, <2>1, <2>3 DEF BlockFails, limits, LoadTypeOK, Positions, Bounded, LoadedWhole
<1>9. CASE ImageSent
  BY <1>9 DEF ImageSent, More, limits, LoadTypeOK, Positions, Bounded, LoadedWhole
<1>10. CASE UNCHANGED <<limits, loadVars>>
  BY <1>10 DEF limits, loadVars, LoadTypeOK, Positions, Bounded, BlockSize, LoadedWhole
<1>. QED
  BY <1>2, <1>3, <1>4, <1>5, <1>6, <1>7, <1>8, <1>9, <1>10 DEF LoadNext, LoadStep, LoadFails

LEMMA Inductive == LoadSpec => []IInv
BY InitEstablishes, StepPreserves, PTL DEF LoadSpec

LEMMA BlockWithin ==
  ASSUME IInv, load = "blocks", More
  PROVE  /\ CommandLength(filepos, Block) <= Least(MAX_BUFFER_LENGTH, tperMaxPacket)
         /\ 4 + Block <= tperMaxToken
<1>1. Block \in Nat /\ Block <= blockSize /\ blockSize <= BlockSize /\ blockSize \in Nat
  BY BlockNat DEF IInv, Bounded, LoadTypeOK
<1>2. CommandLength(filepos, Block) <= Block + Overhead
  BY <1>1, OverheadSuffices DEF IInv, LoadTypeOK
<1>3. /\ BlockSize \in Nat
      /\ BlockSize + Overhead <= Least(MAX_BUFFER_LENGTH, tperMaxPacket)
      /\ BlockSize + Overhead + 4 <= tperMaxToken
  BY BlockSizeNat DEF IInv
<1>4. CommandLength(filepos, Block) \in Int /\ Overhead \in Nat
  BY <1>1 DEF IInv, LoadTypeOK, CommandLength, TokenLength, Overhead, OPALHeader
<1>5. Least(MAX_BUFFER_LENGTH, tperMaxPacket) \in Int /\ tperMaxToken \in Int
  BY PacketAssumption, TokenAssumption DEF IInv, LoadTypeOK, Least, MAX_BUFFER_LENGTH
<1>. QED
  BY <1>1, <1>2, <1>3, <1>4, <1>5

(* The types of loadPBA's variables; in particular no position is ever     *)
(* beyond the end of the file by an unsigned wrap.                         *)
THEOREM LoadTypeCorrect == LoadSpec => []LoadTypeOK
<1>1. IInv => LoadTypeOK
  BY DEF IInv
<1>. QED
  BY <1>1, Inductive, PTL

(* Every Set that loadPBA builds fits in the command buffer and in what    *)
(* the drive accepts, for any limits the drive may report.                 *)
THEOREM BlocksFit == LoadSpec => []Fits
<1>1. IInv => Fits
  BY BlockWithin DEF Fits
<1>. QED
  BY <1>1, Inductive, PTL

(* A load that returns 0 has put the whole file into the table, unless a   *)
(* read of the file failed; one that fails has put a prefix there.         *)
THEOREM LoadIsWhole == LoadSpec => []LoadedWhole
<1>1. IInv => LoadedWhole
  BY DEF IInv
<1>. QED
  BY <1>1, Inductive, PTL
=============================================================================
