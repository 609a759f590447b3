------------------------ MODULE MCDeviceFileTransfer ------------------------
(***************************************************************************)
(* Small instances of DeviceFileTransfer.  Bytes are 1..3, the checksum is *)
(* the value of the bytes as digits (equal for equal bytes only), and the  *)
(* packages are chosen so that their chunks can be mixed: two of the same  *)
(* length that share one byte, one that is longer than the firmware takes, *)
(* and one for each way a commit can end.                                  *)
(***************************************************************************)
EXTENDS DeviceFileTransfer, SequencesExt

MCByte == 0..3
MCBoot == <<0>>
MCCrc(bytes) == FoldLeft(LAMBDA crc, byte : 4 * crc + byte, 0, bytes)

Red == <<1, 2, 3>>
Blue == <<2, 1, 3>>
Big == <<1, 2, 3, 3>>
Bad == <<3, 3>>
NoSchemaNumber == <<1, 1>>
BadTickInterval == <<2, 2>>

MCVerdict(bytes) ==
    CASE bytes = Bad -> "rejected"
      [] bytes = NoSchemaNumber -> "raises"
      [] bytes = BadTickInterval -> "raisesLate"
      [] OTHER -> "runs"

AllFiles == {Red, Blue, Big, Bad, NoSchemaNumber, BadTickInterval}
SchemaFiles == {Red, Bad, NoSchemaNumber}
ThreeFiles == {Red, Blue, Big}
=============================================================================
