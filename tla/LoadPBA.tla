------------------------------- MODULE LoadPBA -------------------------------
(***************************************************************************)
(* DtaDevOpal::loadPBA: an image file is written to the shadow MBR table   *)
(* in one session, by one Set after another.  The size of a block follows  *)
(* from what the drive said of itself in the properties exchange; the last *)
(* block is short.  Reading the file or an exchange may fail at any block. *)
(***************************************************************************)
EXTENDS Integers

CONSTANTS
  PacketLimits,  \* values of tperMaxPacket: the drive's MaxComPacketSize
  TokenLimits,   \* values of tperMaxToken: the drive's MaxIndTokenSize
  FileSizes      \* sizes of image files, less than 2^32

(* What a block takes besides its bytes, by loadPBA's own estimate.        *)
MAX_BUFFER_LENGTH == 61440
OPALHeader        == 56
Overhead          == OPALHeader + 50

(* No drive may report less than 1024 and 968 (TCG Storage Core): with     *)
(* even less the unsigned subtractions of loadPBA would wrap.              *)
ASSUME PacketAssumption == PacketLimits \subseteq {n \in Nat : n > Overhead}
ASSUME TokenAssumption  == TokenLimits \subseteq {n \in Nat : n > Overhead + 4}
ASSUME FileAssumption   == FileSizes \subseteq Nat

VARIABLES
  load,           \* idle, image, session, blocks; then loaded or failed
  tperMaxPacket,  \* the limits known to the device object
  tperMaxToken,
  eofpos,         \* the size of the file
  readpos,        \* where the stream is
  filepos,        \* where the next block goes to in the table
  blockSize,
  bad,            \* a read of the file has failed
  intact          \* how many of the table's first bytes equal the file's

limits   == <<tperMaxPacket, tperMaxToken>>
loadVars == <<load, eofpos, readpos, filepos, blockSize, bad, intact>>

Least(a, b) == IF b < a THEN b ELSE a

BlockSize_Headless == Least(Least(MAX_BUFFER_LENGTH, tperMaxPacket), tperMaxToken - 4) - 50

BlockSize == Least(Least(MAX_BUFFER_LENGTH, tperMaxPacket), tperMaxToken - 4) - Overhead

(* The length of the next block.                                           *)
Block == Least(blockSize, eofpos - filepos)

TokenLength(number) ==
  IF number < 64 THEN 1 ELSE IF number < 256 THEN 2 ELSE IF number < 65536 THEN 3 ELSE 5

(* The packet of a Set(Where = pos, Values = n bytes): the call, its list, *)
(* the end of data with the status list, all padded to a multiple of 4.    *)
CommandLength(pos, n) ==
  LET used == OPALHeader + 19 + (3 + TokenLength(pos)) + (3 + 4 + n) + 2 + 6
  IN  4 * ((used + 3) \div 4)

-----------------------------------------------------------------------------

LoadInit ==
  /\ load = "idle" /\ bad = FALSE
  /\ eofpos = 0 /\ readpos = 0 /\ filepos = 0 /\ blockSize = 0 /\ intact = 0

loadPBA ==
  /\ load = "idle" /\ load' = "image"
  /\ UNCHANGED <<limits, eofpos, readpos, filepos, blockSize, bad, intact>>

OpenImage ==
  /\ load = "image"
  /\ blockSize' = BlockSize
  /\ \/ load' = "session" /\ eofpos' \in FileSizes
     \/ load' = "failed" /\ UNCHANGED eofpos
  /\ UNCHANGED <<limits, readpos, filepos, bad, intact>>

StartSession ==
  /\ load = "session"
  /\ load' \in {"blocks", "failed"}
  /\ UNCHANGED <<limits, eofpos, readpos, filepos, blockSize, bad, intact>>

(* The Set of bytes [from, from + n) of the file at position pos.          *)
Written(pos, from, n) == IF pos = from /\ pos <= intact THEN pos + n ELSE Least(pos, intact)

More_ToEnd == filepos <= eofpos

More_Whole == blockSize <= eofpos - filepos

More == filepos # eofpos

SendBlock ==
  /\ load = "blocks" /\ More /\ ~bad
  /\ blockSize' = Block
  /\ readpos' = readpos + Block
  /\ intact' = Written(filepos, readpos, Block)
  /\ filepos' = filepos + Block
  /\ UNCHANGED <<limits, load, eofpos, bad>>

ReadFails ==
  /\ load = "blocks" /\ More /\ ~bad
  /\ bad' = TRUE
  /\ UNCHANGED <<limits, load, eofpos, readpos, filepos, blockSize, intact>>

(* A read that fails is not noticed: what the buffer held is sent, and so  *)
(* is it for the rest of the file, unless the stream is at its end.        *)
SendStaleBlock ==
  /\ load = "blocks" /\ More /\ bad
  /\ blockSize' = Block
  /\ filepos' = filepos + Block
  /\ intact' = Least(filepos, intact)
  /\ UNCHANGED <<limits, load, eofpos, readpos, bad>>

(* The Set is refused or lost, or only its answer is.                      *)
BlockFails ==
  /\ load = "blocks" /\ More
  /\ load' = "failed"
  /\ intact' \in {intact, IF bad THEN Least(filepos, intact) ELSE Written(filepos, readpos, Block)}
  /\ UNCHANGED <<limits, eofpos, readpos, filepos, blockSize, bad>>

ImageSent ==
  /\ load = "blocks" /\ (~More \/ bad)
  /\ load' = "loaded"
  /\ UNCHANGED <<limits, eofpos, readpos, filepos, blockSize, bad, intact>>

LoadStep  == OpenImage \/ StartSession \/ SendBlock \/ SendStaleBlock \/ ImageSent
LoadFails == ReadFails \/ BlockFails

(* loadPBA by itself, for a drive of any limits.                           *)
LimitsInit == tperMaxPacket \in PacketLimits /\ tperMaxToken \in TokenLimits
LoadNext   == loadPBA \/ LoadStep \/ LoadFails
LoadSpec   == LimitsInit /\ LoadInit /\ [][LoadNext]_<<limits, loadVars>>

-----------------------------------------------------------------------------
(* Properties                                                              *)

(* Types.                                                                  *)
LoadTypeOK ==
  /\ load \in {"idle", "image", "session", "blocks", "loaded", "failed"}
  /\ tperMaxPacket \in PacketLimits /\ tperMaxToken \in TokenLimits
  /\ {eofpos, readpos, filepos, blockSize, intact} \subseteq Nat
  /\ bad \in BOOLEAN

(* The Set of the next block fits in the command buffer (complete() would  *)
(* exit the process), and in the packets and the tokens the object was     *)
(* told of: the 50 bytes that loadPBA allows for tokens and padding are    *)
(* enough wherever in the table the block goes.                            *)
Fits ==
  load = "blocks" /\ More =>
    /\ CommandLength(filepos, Block) <= Least(MAX_BUFFER_LENGTH, tperMaxPacket)
    /\ 4 + Block <= tperMaxToken

(* If loadPBA returns 0 then the table holds the whole file, unless a read *)
(* of the file failed; until then, and after a failure, it holds what was  *)
(* sent of it.                                                             *)
LoadedWhole ==
  ~bad => /\ load = "loaded" => intact = eofpos
          /\ load = "blocks" => intact = filepos
          /\ load = "failed" => intact \in filepos .. filepos + blockSize
=============================================================================
