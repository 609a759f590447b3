--------------------------- MODULE PicoFirmwareLoop ---------------------------
(***************************************************************************)
(* loop() of the firmware, src/runtime/pico/vertical_slice/src/main.cpp:   *)
(* one reading of the clock, the serial poll, the button and the tick of   *)
(* the live runtime, again and again.  Bytes arrive, a button bounces and  *)
(* time passes meanwhile.  The uploads themselves are DeviceFileTransfer;  *)
(* here an item of the stream either commits a package or does not.        *)
(*                                                                         *)
(* Times are true times.  The code has them modulo ClockSize and compares  *)
(* unsigned differences, which is what Since is.                           *)
(***************************************************************************)
EXTENDS SerialIngress, Integers

CONSTANTS
  Items,            \* what tools write: frames, and lines with their newline
  Committing,       \* those of Items that load a package
  ClockSize,        \* 2^32: unsigned long of the board
  BootInterval, LoadedInterval,   \* g_live_tick_interval_milliseconds
  ResetInterval,    \* k_live_animation_reset_interval_milliseconds
  PollInterval,     \* k_button_event_poll_interval_milliseconds
  Debounce,         \* k_button_debounce_milliseconds
  Budgets           \* bounds: items written, bounces and milliseconds

ASSUME LoopAssumption ==
  /\ ClockSize \in Nat
  /\ {BootInterval, LoadedInterval, ResetInterval, PollInterval, Debounce} \subseteq Nat \ {0}
  /\ \A interval \in {BootInterval, LoadedInterval, ResetInterval, PollInterval, Debounce} :
       interval < ClockSize
  /\ Committing \subseteq Items

\* A frame is as long as its header says and fits the firmware's buffer.
IsFrame(item) == IsPrefix(Prefix, item)

FrameAsWritten(item) ==
  HeaderLength <= Len(item) /\ Len(item) = ExpectedLength(item) /\ Len(item) <= MaxFrame

\* A line has one newline, its last byte, and fits the firmware's buffer.
LineAsWritten(item) ==
  /\ item # << >> /\ Len(item) - 1 <= MaxLine
  /\ \A i \in 1..Len(item) : item[i] = Newline <=> i = Len(item)

ASSUME ItemAssumption ==
  /\ Items \subseteq Seq(Nat)
  /\ \A item \in Items : IF IsFrame(item) THEN FrameAsWritten(item) ELSE LineAsWritten(item)

VARIABLES
  time, at, now,    \* the clock, the place in loop(), now_milliseconds
  live,             \* the live runtime's timers and the time it was ticked for
  button,           \* the contact and what the polls made of it
  wire, ingress,    \* bytes on their way, and those not yet handed on
  owed, lost,       \* items written and not handed on; FALSE: nothing was lost
  budget            \* what may still happen

vars == << time, at, now, live, button, wire, ingress, owed, lost, budget >>
serial == << wire, ingress, owed, lost >>

Since(later, earlier) == (later - earlier) % ClockSize

------------------------------------------------------------------------------
(* The world. *)

TimePasses ==
  /\ budget.milliseconds > 0
  /\ budget' = [budget EXCEPT !.milliseconds = @ - 1]
  /\ time' = time + 1
  /\ UNCHANGED << at, now, live, button, serial >>

\* A press or a release, with as many bounces as there are left.
Bounce ==
  /\ budget.bounces > 0
  /\ budget' = [budget EXCEPT !.bounces = @ - 1]
  /\ button' = [button EXCEPT !.down = ~@]
  /\ UNCHANGED << time, at, now, live, serial >>

\* What a line or frame is handed on as.
Payload(item) == IF IsFrame(item) THEN item ELSE Front(item)

\* An empty line is not handed on.
Write(item) ==
  /\ budget.items > 0 /\ wire = << >>
  /\ budget' = [budget EXCEPT !.items = @ - 1]
  /\ wire' = item
  /\ owed' = IF lost \/ Payload(item) = << >> THEN owed ELSE Append(owed, item)
  /\ UNCHANGED << time, at, now, live, button, ingress, lost >>

LoseByte ==
  /\ wire # << >>
  /\ wire' = Tail(wire) /\ lost' = TRUE /\ owed' = << >>
  /\ UNCHANGED << time, at, now, live, button, ingress, budget >>

------------------------------------------------------------------------------
(* The live runtime's timers. *)

\* Mutant: the last tick is that of the runtime before.
RestartedKeepingTick(interval, reset) ==
  [live EXCEPT !.interval = interval, !.periodic = reset, !.startedAt = time, !.ticked = 0]

\* reset_live_animation_runtime_from_active_package_or_log_exception
Restarted(interval, reset) ==
  [interval |-> interval, periodic |-> reset, startedAt |-> time, lastTick |-> time, ticked |-> 0]

LiveAfterReset == Restarted(live.interval, live.periodic)
LiveAfterCommit == Restarted(LoadedInterval, FALSE)

------------------------------------------------------------------------------
(* loop() *)

ReadClock ==
  /\ at = "top" /\ at' = "serial" /\ now' = time
  /\ UNCHANGED << time, live, button, serial, budget >>

HandedOn(out, items) == \E item \in items : out = << Payload(item) >>

\* poll_incoming_usb_serial_line_for_package_frames: one byte.
ReceiveByte ==
  /\ at = "serial" /\ wire # << >>
  /\ LET fed == FeedByte(ingress, Head(wire)) IN
       /\ ingress' = fed.ingress
       /\ owed' = IF owed # << >> /\ fed.out = << Payload(Head(owed)) >> THEN Tail(owed) ELSE owed
       /\ live' = IF HandedOn(fed.out, Committing) THEN LiveAfterCommit ELSE live
       \* A line that is read to its end leaves nothing behind.
       /\ lost' = (lost /\ ~(Head(wire) = Newline /\ Len(wire) = 1 /\ ~ingress.binary))
  /\ wire' = Tail(wire)
  /\ UNCHANGED << time, at, now, button, budget >>

\* No byte is available (yet).
EndSerialPoll ==
  /\ at = "serial" /\ at' = "button"
  /\ UNCHANGED << time, now, live, button, serial, budget >>

\* Mutant: a change of the level does not begin a new debounce interval.
LevelSeenAgain == [button EXCEPT !.polledAt = now, !.raw = button.down]

LevelChanged == [button EXCEPT !.polledAt = now, !.raw = button.down, !.changedAt = now]

\* The event goes to the live runtime, which there is from setup() on.
LevelStable ==
  [button EXCEPT !.polledAt = now, !.stable = button.down,
                 !.presses = @ + IF button.down /\ ~button.stable THEN 1 ELSE 0]

\* poll_physical_button_events_if_due
PollButton ==
  /\ at = "button" /\ at' = "tick"
  /\ button' = CASE Since(now, button.polledAt) < PollInterval -> button
                 [] Since(now, button.polledAt) >= PollInterval /\ button.down # button.raw ->
                      LevelChanged
                 [] OTHER -> IF Since(now, button.changedAt) >= Debounce THEN LevelStable
                             ELSE [button EXCEPT !.polledAt = now]
  /\ UNCHANGED << time, now, live, serial, budget >>

ResetDue == live.periodic /\ Since(now, live.startedAt) >= ResetInterval

\* tick_live_animation_if_due
TickIfDue ==
  /\ at = "tick" /\ at' = "top"
  /\ live' = CASE ResetDue -> LiveAfterReset
               [] ~ResetDue /\ Since(now, live.lastTick) >= live.interval ->
                    [live EXCEPT !.lastTick = now, !.ticked = @ + live.interval]
               [] OTHER -> live
  /\ UNCHANGED << time, now, button, serial, budget >>

------------------------------------------------------------------------------

\* After setup().
Init ==
  /\ time = 0 /\ at = "top" /\ now = 0
  /\ live = [interval |-> BootInterval, periodic |-> TRUE, startedAt |-> 0, lastTick |-> 0,
             ticked |-> 0]
  /\ button = [down |-> FALSE, raw |-> FALSE, stable |-> FALSE, polledAt |-> 0, changedAt |-> 0,
               presses |-> 0]
  /\ wire = << >> /\ ingress = Idle /\ owed = << >> /\ lost = FALSE
  /\ budget \in Budgets

Next ==
  \/ ReadClock \/ ReceiveByte \/ EndSerialPoll \/ PollButton \/ TickIfDue
  \/ TimePasses \/ Bounce \/ LoseByte
  \/ \E item \in Items : Write(item)

Spec == Init /\ [][Next]_vars

------------------------------------------------------------------------------
(* Properties. *)

\* Lines and frames that were written in full are handed on in full as soon as
\* their last byte is read, whatever stood between them and whatever bytes a
\* body is made of; after a loss, again from the next line on that is read as
\* a line.
WholeItemsArrive == wire = << >> /\ ~lost => owed = << >>

\* No timer runs ahead of the clock, wherever the clock wraps around.  The boot
\* package is never ticked for more time than has passed since it started; a
\* package loaded in the middle of a pass, whose clock was read before, for two
\* intervals more.  From press to press a release and a press are each seen by
\* one poll and confirmed, the debounce interval later, by another.
NeverAheadOfTime ==
  /\ live.ticked <= (time - live.startedAt) + (IF live.periodic THEN 0 ELSE 2 * live.interval)
  /\ button.presses * 2 * (Debounce + PollInterval) <= time + Debounce + PollInterval

==============================================================================
