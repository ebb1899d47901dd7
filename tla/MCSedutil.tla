----------------------------- MODULE MCSedutil ------------------------------
(* Sedutil for TLC: command lines, and disks of all drivers and classes.   *)
EXTENDS Sedutil

Option  == Arg("option", "-v")
Word    == Arg("operand", "word")
Name    == Arg("operand", "disk")
Command(c) == Arg("command", c)

(* The operands a command is made for, with the device at the end.         *)
Operands(c) ==
  LET form  == OptionForms[c]
      words == [k \in DOMAIN form.fields |-> IF form.fields[k] = "device" THEN Name ELSE Word]
  IN  [k \in DOMAIN form.tests |-> Arg("operand", form.tests[k])] \o words

(* As they should be, one too few, one too many, the first not as it       *)
(* should be; with none or two options before, or one behind.              *)
Lines(c) ==
  LET good == Operands(c)
      some == {good} \cup IF good = <<>> THEN {<<Word>>}
                          ELSE {SubSeq(good, 1, Len(good) - 1), good \o <<Word>>, <<Word>> \o Tail(good)}
  IN  {lead \o <<Command(c)>> \o operands : lead \in {<<>>, <<Option, Option>>}, operands \in some}
        \cup {<<Command(c)>> \o good \o <<Option>>}

AllLines ==
  UNION {Lines(c) : c \in DOMAIN OptionForms}
    \cup {<<>>, <<Option>>, <<Word>>, <<Arg("help", "-h")>>, <<Command("enableuser"), Word, Name>>}

EnableUserLines == Lines("enableuser")

Feature(code, length, id) == [code |-> code, length |-> length, comID |-> id]
Property(name, value) == [name |-> name, value |-> value]

TPer    == Feature("TPer", 12, 0)
Locking == Feature("Locking", 12, 0)
Opal2   == Feature("OPALV200", 16, 2044)
Opal1   == Feature("OPALV100", 16, 2046)
Eprise  == Feature("Enterprise", 16, 2048)

Disk(path, driver, kind, features) ==
  [path |-> path, driver |-> driver, kind |-> kind, features |-> features, namespace |-> <<>>,
   properties |-> <<Property("other", 1), Property("MaxComPacketSize", 9216),
                    Property("other", 1), Property("MaxIndTokenSize", 9000),
                    Property("MaxComPacketSize", 65536), Property("MaxIndTokenSize", 65536)>>,
   packet |-> 9216, token |-> 9000]

AllDisks ==
  { Disk("sd", "sata", "ATA", <<TPer, Locking, Opal1, Opal2>>),
    Disk("sd", "sata", "SCSI", <<TPer, Locking, Eprise>>),
    [Disk("nvme", "nvme", "NVMe", <<TPer, Opal2, Feature("vendor", 0, 0)>>) EXCEPT
       !.namespace = <<Feature("NSGeometry", 28, 0)>>,
       !.properties = <<Property("MaxIndTokenSize", 1950), Property("MaxComPacketSize", 2048)>>,
       !.packet = 2048, !.token = 1950],
    Disk("win", "winATA", "ATA", <<TPer, Opal1, Eprise>>),
    [Disk("win", "winUSB", "ATA", <<TPer, Opal2>>) EXCEPT
       !.properties = <<Property("MaxComPacketSize", 65536), Property("MaxIndTokenSize", 65536)>>,
       !.packet = 65536, !.token = 65536],
    Disk("win", "winNVMe", "NVMe", <<TPer>>),
    Disk("other", "nvme", "NVMe", <<TPer, Opal2>>) }

OneDisk == {Disk("sd", "sata", "ATA", <<TPer, Locking, Opal2>>)}
=============================================================================
