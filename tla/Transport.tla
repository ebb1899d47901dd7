----------------------------- MODULE Transport ------------------------------
(***************************************************************************)
(* The drivers below DtaDevOS::sendCmd and identify.  Each turns the fate  *)
(* of a pass-through call into the status byte that sendCmd returns, and   *)
(* they do not agree about what an error is:                               *)
(*   done     the data was moved                                           *)
(*   refused  the operating system failed the call                         *)
(*   lost     the call returned, but the command timed out on the bus      *)
(*   sense    check condition, with sense data that is not an ATA status   *)
(*   aborted  the drive's own error: ATA error register, NVMe status       *)
(*   path     an NVMe status whose low byte is 0 (internal path error)     *)
(***************************************************************************)
EXTENDS Integers

(* The drivers: two of one Linux class, and the Windows ones.              *)
Drivers == {"sata", "sas", "nvme", "winATA", "winUSB", "winNVMe"}

(* What may become of a call, besides being done.                          *)
Mishaps(driver) ==
  CASE driver = "sata"                   -> {"refused", "lost", "sense", "aborted"}
    [] driver = "sas"                    -> {"refused", "lost", "sense"}
    [] driver = "nvme"                   -> {"refused", "aborted", "path"}
    [] driver = "winATA"                 -> {"refused", "aborted"}
    [] driver \in {"winUSB", "winNVMe"}  -> {"refused", "sense"}

(* The disks a driver can talk to: libata gives ATA disks a SCSI face.     *)
Reaches(driver, disk) ==
  disk = CASE driver \in {"sata", "winATA", "winUSB"} -> "ATA"
           [] driver = "sas"                          -> IF disk = "ATA" THEN "ATA" ELSE "SCSI"
           [] driver \in {"nvme", "winNVMe"}          -> "NVMe"

Fates(driver, disk) == Mishaps(driver) \cup IF Reaches(driver, disk) THEN {"done"} ELSE {}

-----------------------------------------------------------------------------
(* sendCmd                                                                 *)

(* The sense data is looked at, the host status is not; sense[11] is the   *)
(* ATA error register (4: aborted).                                        *)
LinuxSata_sendCmd(fate) ==
  CASE fate \in {"done", "lost"}      -> 0
    [] fate \in {"refused", "sense"}  -> 255
    [] fate = "aborted"               -> 4

LinuxSata_sendCmd_SAS(fate) == IF fate \in {"done", "lost"} THEN 0 ELSE 255

(* errno (EIO), or the NVMe status (Invalid Field; Internal Path Error),   *)
(* in a byte.                                                              *)
LinuxNvme_sendCmd(fate) ==
  (CASE fate = "done"    -> 0
     [] fate = "refused" -> 5
     [] fate = "aborted" -> 2
     [] fate = "path"    -> 768) % 256

(* GetLastError only: the error register is not looked at.                 *)
DiskATA_sendCmd(fate) == IF fate = "refused" THEN 1 ELSE 0

(* ScsiStatus only, 0 before the call: a call that fails leaves it so.     *)
DiskUSB_sendCmd(fate) == IF fate = "sense" THEN 2 ELSE 0

DiskNVMe_sendCmd(fate) == IF fate = "done" THEN 0 ELSE 1

sendCmd(driver, fate) ==
  CASE driver = "sata"    -> LinuxSata_sendCmd(fate)
    [] driver = "sas"     -> LinuxSata_sendCmd_SAS(fate)
    [] driver = "nvme"    -> LinuxNvme_sendCmd(fate)
    [] driver = "winATA"  -> DiskATA_sendCmd(fate)
    [] driver = "winUSB"  -> DiskUSB_sendCmd(fate)
    [] driver = "winNVMe" -> DiskNVMe_sendCmd(fate)

-----------------------------------------------------------------------------
(* identify: the device type, and the driver used from then on             *)

Identity(type, driver) == [devType |-> type, driver |-> driver]

(* A good INQUIRY of a disk switches the object to SAS for good.           *)
LinuxSata_identify_SAS(inquiry) ==
  IF inquiry = "done" THEN Identity("SAS", "sas") ELSE Identity("OTHER", "sata")

(* No ATA identify data, whatever the reason: try SAS.                     *)
LinuxSata_identify(fate, inquiry) ==
  IF fate = "done" THEN Identity("ATA", "sata") ELSE LinuxSata_identify_SAS(inquiry)

LinuxNvme_identify(fate) == Identity(IF fate = "done" THEN "NVME" ELSE "OTHER", "nvme")

(* The status is only logged: the data decides.                            *)
DiskATA_identify(fate) == Identity(IF fate = "done" THEN "ATA" ELSE "OTHER", "winATA")

DiskUSB_identify(fate) == Identity(IF fate = "done" THEN "USB" ELSE "OTHER", "winUSB")

(* The type is never set: it stays 0, which is ATA.                        *)
DiskNVMe_identify == Identity("ATA", "winNVMe")

(* The identities a disk may get.                                          *)
identify(driver, disk) ==
  CASE driver = "sata"    -> {LinuxSata_identify(f, q) : f \in Fates("sata", disk),
                                                         q \in Fates("sas", disk)}
    [] driver = "nvme"    -> {LinuxNvme_identify(f) : f \in Fates("nvme", disk)}
    [] driver = "winATA"  -> {DiskATA_identify(f) : f \in Fates("winATA", disk)}
    [] driver = "winUSB"  -> {DiskUSB_identify(f) : f \in Fates("winUSB", disk)}
    [] driver = "winNVMe" -> {DiskNVMe_identify}
=============================================================================
