-------------------------- MODULE MCPicoFirmwareLoop --------------------------
(***************************************************************************)
(* A small PicoFirmwareLoop: a prefix of two bytes, a header of three whose *)
(* last is the body's length, a checksum of one byte.  The frames have a   *)
(* body that is empty, one with a newline in it, and one that looks like   *)
(* the beginning of a frame; the first's checksum is a newline.  The lines *)
(* are a ping, one that begins like a frame, and an empty one.             *)
(***************************************************************************)
EXTENDS PicoFirmwareLoop

K == 7
V == 6
End == 9

Hello == << K, V, 0, End >>
Chunk == << K, V, 1, End, 5 >>
Run == << K, V, 2, K, V, 5 >>
Ping == << 1, End >>
Package == << K, 1, K, V, End >>
Empty == << End >>

MCItems == {Hello, Chunk, Run, Ping, Package, Empty}
MCCommitting == {Run, Package}
MCPrefix == << K, V >>
Budget(items, bounces, milliseconds) ==
  [items |-> items, bounces |-> bounces, milliseconds |-> milliseconds]
MCBudgets == {Budget(4, 0, 0), Budget(1, 0, 10), Budget(0, 5, 9), Budget(1, 1, 3)}
==============================================================================
