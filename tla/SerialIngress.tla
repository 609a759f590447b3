----------------------------- MODULE SerialIngress -----------------------------
(***************************************************************************)
(* How the firmware finds lines of text and binary frames in one stream of *)
(* bytes: class KiboDeviceProtocolV1UsbSerialIngress,                      *)
(* src/runtime/pico/vertical_slice/src/                                    *)
(*   kibo_device_protocol_v1_serial_ingress.cpp.                           *)
(* A frame begins like a line and is recognised by its first bytes; its    *)
(* header says how long it is, and no byte marks its end.                  *)
(***************************************************************************)
EXTENDS Naturals, SequencesExt

CONSTANTS
  Prefix,         \* "KIBO" and the version, the six bytes a frame begins with
  HeaderLength,   \* 20
  LengthAt,       \* position of the body's length in the header
  TrailerLength,  \* the four bytes of the checksum
  MaxLine,        \* k_max_serial_line_characters
  MaxFrame,       \* k_max_kibo_device_protocol_v1_binary_frame_byte_length
  Newline

ASSUME FrameAssumption ==
  /\ {HeaderLength, LengthAt, TrailerLength, MaxLine, MaxFrame} \subseteq Nat \ {0}
  /\ Prefix \in Seq(Nat) /\ Prefix # << >>
  /\ Len(Prefix) < LengthAt /\ LengthAt <= HeaderLength
  /\ Len(Prefix) <= MaxLine
  /\ Newline \in Nat /\ \A i \in 1..Len(Prefix) : Prefix[i] # Newline

\* is_binary_accumulating_, line_characters_ and binary_frame_bytes_
InLine(line) == [binary |-> FALSE, line |-> line, frame |-> << >>]
InFrame(frame) == [binary |-> TRUE, line |-> << >>, frame |-> frame]
Idle == InLine(<< >>)

Fed(ingress, out) == [ingress |-> ingress, out |-> out]

ExpectedLength(frame) == HeaderLength + frame[LengthAt] + TrailerLength

\* Mutant: the next byte is taken for one more of the frame that is complete.
StayBinary(ingress) ==
  LET total == ExpectedLength(ingress.frame)
  IN  CASE Len(ingress.frame) < HeaderLength -> Fed(ingress, << >>)
        [] Len(ingress.frame) >= HeaderLength /\ total > MaxFrame -> Fed(Idle, << >>)
        [] OTHER -> IF Len(ingress.frame) < total THEN Fed(ingress, << >>)
                    ELSE Fed(InFrame(<< >>), << ingress.frame >>)

\* try_emit_completed_binary_frame_or_false: bytes come one at a time, so
\* nothing is left of the buffer when a frame is complete.
TryEmit(ingress) ==
  LET total == ExpectedLength(ingress.frame)
  IN  CASE Len(ingress.frame) < HeaderLength -> Fed(ingress, << >>)
        [] Len(ingress.frame) >= HeaderLength /\ total > MaxFrame -> Fed(Idle, << >>)
        [] OTHER -> IF Len(ingress.frame) < total THEN Fed(ingress, << >>)
                    ELSE Fed(Idle, << ingress.frame >>)

FeedFrame(ingress, byte) ==
  IF Len(ingress.frame) >= MaxFrame THEN Fed(Idle, << >>)
  ELSE TryEmit(InFrame(Append(ingress.frame, byte)))

FeedLine(ingress, byte) ==
  LET line == Append(ingress.line, byte)
  IN  CASE byte = Newline -> Fed(Idle, IF ingress.line = << >> THEN << >> ELSE << ingress.line >>)
        [] byte # Newline /\ Len(ingress.line) >= MaxLine -> Fed(Idle, << >>)
        [] OTHER -> IF IsPrefix(Prefix, line)
                      THEN TryEmit(InFrame(line))
                      ELSE Fed(InLine(line), << >>)

\* feed_byte: what the ingress holds afterwards, and what it hands on.
FeedByte(ingress, byte) ==
  IF ingress.binary THEN FeedFrame(ingress, byte) ELSE FeedLine(ingress, byte)

==============================================================================
