------------------------ MODULE PicoFirmwareLoopProofs ------------------------
(***************************************************************************)
(* Proofs about the firmware's loop, for any clock size, any intervals and *)
(* any items: its timers and its button never run ahead of the clock, and  *)
(* what is written without a loss is handed on whole.                      *)
(***************************************************************************)
EXTENDS PicoFirmwareLoop, SequenceTheorems, TLAPS

Live == [interval : Nat \ {0}, periodic : BOOLEAN, startedAt : Nat, lastTick : Nat, ticked : Nat]

Contact == [down : BOOLEAN, raw : BOOLEAN, stable : BOOLEAN, polledAt : Nat, changedAt : Nat,
            presses : Nat]

LoopTypes ==
  /\ time \in Nat /\ now \in Nat /\ now <= time
  /\ at \in {"top", "serial", "button", "tick"}
  /\ live \in Live /\ button \in Contact

\* The boot package's last tick is never later than the reading of the clock
\* its next tick compares it with.
BootTimers ==
  live.periodic =>
    /\ live.ticked <= live.lastTick - live.startedAt
    /\ at # "top" => live.lastTick <= now

\* A package is loaded after the pass has read the clock.  Its first tick may
\* then be due at once, and sets the last tick to before the start; that is one
\* interval too many, and the interval after it begins too early.
LoadedTimers ==
  ~live.periodic =>
    /\ live.lastTick >= live.startedAt =>
         live.ticked <= (live.lastTick - live.startedAt) + 2 * live.interval
    /\ live.lastTick < live.startedAt => live.ticked <= live.interval
    /\ at # "top" /\ live.lastTick > now => live.ticked = 0 /\ live.lastTick = live.startedAt
    /\ at # "top" /\ live.lastTick <= now => live.startedAt <= now

TimersInvariant ==
  /\ live.startedAt <= time /\ live.lastTick <= time
  /\ BootTimers /\ LoadedTimers

\* A change of the confirmed level takes a poll that sees it, at least one poll
\* interval after the poll before, and a poll the debounce interval later.
Confirm == Debounce + PollInterval
Changes == 2 * button.presses - (IF button.stable THEN 1 ELSE 0)

ButtonInvariant ==
  /\ button.polledAt <= now /\ button.changedAt <= button.polledAt
  /\ button.raw = button.stable => Changes * Confirm <= button.polledAt
  /\ button.raw # button.stable => Changes * Confirm + PollInterval <= button.changedAt

ClockInvariant == LoopTypes /\ TimersInvariant /\ ButtonInvariant

------------------------------------------------------------------------------
\* Operators

\* What the code takes for elapsed time is never more than what has elapsed.
LEMMA SinceIsBounded ==
  ASSUME NEW later \in Nat, NEW earlier \in Nat, earlier <= later
  PROVE  Since(later, earlier) <= later - earlier
<1>1. ClockSize \in Nat /\ ClockSize > 0
  BY LoopAssumption
<1> DEFINE passed == later - earlier
<1>2. passed \in Nat
  OBVIOUS
<1> HIDE DEF passed
<1>3. passed % ClockSize <= passed
  BY <1>1, <1>2
<1> QED BY <1>3 DEF passed, Since

\* n + 1 changes take one confirmation more than n.
LEMMA OneMore ==
  ASSUME NEW n \in Int
  PROVE  (n + 1) * Confirm = n * Confirm + Confirm
BY LoopAssumption DEF Confirm

------------------------------------------------------------------------------
\* Initially

\* At boot nothing has been ticked and nothing is due.
LEMMA ClockInit == Init => ClockInvariant
<1> SUFFICES ASSUME Init PROVE ClockInvariant
  OBVIOUS
<1>1. LoopTypes
  BY LoopAssumption DEF Init, LoopTypes, Live, Contact
<1>2. TimersInvariant
  BY LoopAssumption DEF Init, TimersInvariant, BootTimers, LoadedTimers
<1>3. ButtonInvariant
  BY LoopAssumption DEF Init, ButtonInvariant, Changes, Confirm
<1> QED BY <1>1, <1>2, <1>3 DEF ClockInvariant

------------------------------------------------------------------------------
\* Steps

\* A runtime that is started now is typed and has been ticked for no time.
LEMMA RestartedIsNew ==
  ASSUME NEW interval \in Nat \ {0}, NEW reset \in BOOLEAN, time \in Nat
  PROVE  /\ Restarted(interval, reset) \in Live
         /\ Restarted(interval, reset).startedAt = time
         /\ Restarted(interval, reset).lastTick = time
         /\ Restarted(interval, reset).ticked = 0
         /\ Restarted(interval, reset).periodic = reset
BY DEF Restarted, Live

\* A new reading of the clock is the time it is.
LEMMA ReadClockKeepsTime == ClockInvariant /\ ReadClock => ClockInvariant'
<1> SUFFICES ASSUME ClockInvariant, ReadClock PROVE ClockInvariant'
  OBVIOUS
<1> USE DEF ReadClock
<1>1. LoopTypes'
  BY DEF ClockInvariant, LoopTypes
<1>2. TimersInvariant'
  BY DEF ClockInvariant, LoopTypes, Live, TimersInvariant, BootTimers, LoadedTimers
<1>3. ButtonInvariant'
  BY DEF ClockInvariant, LoopTypes, Contact, ButtonInvariant, Changes, Confirm
<1> QED BY <1>1, <1>2, <1>3 DEF ClockInvariant

\* A package that is loaded now starts now; the pass's reading of the clock may
\* be older.
LEMMA ReceiveByteKeepsTime == ClockInvariant /\ ReceiveByte => ClockInvariant'
<1> SUFFICES ASSUME ClockInvariant, ReceiveByte PROVE ClockInvariant'
  OBVIOUS
<1>1. UNCHANGED << time, at, now, button >> /\ at = "serial" /\ live' \in {live, LiveAfterCommit}
  BY DEF ReceiveByte
<1>2. ButtonInvariant'
  BY <1>1 DEF ClockInvariant, ButtonInvariant, Changes
<1>3. CASE live' = live
  BY <1>1, <1>2, <1>3
     DEF ClockInvariant, LoopTypes, TimersInvariant, BootTimers, LoadedTimers
<1>4. CASE live' = LiveAfterCommit
  <2>1. /\ live' \in Live /\ live'.startedAt = time /\ live'.lastTick = time
        /\ live'.ticked = 0 /\ ~live'.periodic
    BY <1>4, RestartedIsNew, LoopAssumption DEF ClockInvariant, LoopTypes, LiveAfterCommit
  <2>2. LoopTypes'
    BY <1>1, <2>1 DEF ClockInvariant, LoopTypes
  <2>3. TimersInvariant'
    BY <1>1, <2>1, <2>2 DEF TimersInvariant, BootTimers, LoadedTimers, LoopTypes, Live
  <2> QED BY <1>2, <2>2, <2>3 DEF ClockInvariant
<1> QED BY <1>1, <1>3, <1>4

\* The end of the serial poll touches no timer.
LEMMA EndSerialPollKeepsTime == ClockInvariant /\ EndSerialPoll => ClockInvariant'
<1> SUFFICES ASSUME ClockInvariant, EndSerialPoll PROVE ClockInvariant'
  OBVIOUS
<1> QED
  BY DEF EndSerialPoll, ClockInvariant, LoopTypes, TimersInvariant, BootTimers, LoadedTimers,
         ButtonInvariant, Changes

\* A poll of the button reports a press only after a stable level.
LEMMA PollButtonKeepsTime == ClockInvariant /\ PollButton => ClockInvariant'
<1> SUFFICES ASSUME ClockInvariant, PollButton PROVE ClockInvariant'
  OBVIOUS
<1>1. UNCHANGED << time, now, live >> /\ at = "button" /\ at' = "tick"
  BY DEF PollButton
<1>2. TimersInvariant'
  BY <1>1 DEF ClockInvariant, TimersInvariant, BootTimers, LoadedTimers
<1>3. button \in Contact /\ now \in Nat /\ Changes \in Int /\ Changes * Confirm \in Int
  BY LoopAssumption DEF ClockInvariant, LoopTypes, Contact, Changes, Confirm
<1>4. /\ Since(now, button.polledAt) <= now - button.polledAt
      /\ Since(now, button.changedAt) <= now - button.changedAt
  BY <1>3, SinceIsBounded DEF ClockInvariant, ButtonInvariant, Contact
<1>5. /\ PollInterval \in Nat /\ Debounce \in Nat
      /\ Since(now, button.polledAt) \in Int /\ Since(now, button.changedAt) \in Int
  BY <1>3, LoopAssumption DEF Since, Contact
<1>6. button' \in Contact /\ ButtonInvariant'
  <2>1. CASE button' = button
    BY <1>1, <1>3, <2>1 DEF ClockInvariant, ButtonInvariant, Changes
  <2>2. CASE /\ button' = LevelChanged /\ button.down # button.raw
             /\ Since(now, button.polledAt) >= PollInterval
    <3>1. /\ button' \in Contact
          /\ button'.polledAt = now /\ button'.changedAt = now /\ button'.raw = button.down
          /\ button'.stable = button.stable /\ button'.presses = button.presses
      BY <1>3, <2>2 DEF LevelChanged, Contact
    <3>2. button.polledAt + PollInterval <= now
      BY <1>3, <1>4, <1>5, <2>2 DEF Contact
    <3>3. Changes' = Changes
      BY <3>1 DEF Changes
    <3>4. button.raw = button.stable => Changes * Confirm + PollInterval <= now
      BY <1>3, <1>5, <3>2 DEF ClockInvariant, ButtonInvariant, Contact
    <3>5. button.raw # button.stable => Changes * Confirm <= now
      BY <1>3, <1>5 DEF ClockInvariant, ButtonInvariant, Contact
    <3> QED BY <1>1, <1>3, <2>2, <3>1, <3>3, <3>4, <3>5 DEF ButtonInvariant, Contact
  <2>3. CASE /\ button' = LevelStable /\ button.down = button.raw
             /\ Since(now, button.changedAt) >= Debounce
    <3>1. /\ button' \in Contact
          /\ button'.polledAt = now /\ button'.changedAt = button.changedAt
          /\ button'.raw = button.raw /\ button'.stable = button.raw
          /\ button'.presses =
               button.presses + IF button.raw /\ ~button.stable THEN 1 ELSE 0
      <4>1. button.presses + (IF button.down /\ ~button.stable THEN 1 ELSE 0) \in Nat
        BY <1>3 DEF Contact
      <4> QED BY <1>3, <2>3, <4>1 DEF LevelStable, Contact
    <3>2. button.changedAt + Debounce <= now
      BY <1>3, <1>4, <1>5, <2>3 DEF Contact
    <3>3. CASE button.raw = button.stable
      <4>1. Changes' = Changes
        BY <1>3, <3>1, <3>3 DEF Changes, Contact
      <4> QED BY <1>1, <1>3, <3>1, <3>3, <4>1 DEF ClockInvariant, ButtonInvariant, Contact
    <3>4. CASE button.raw # button.stable
      <4>1. Changes' = Changes + 1
        BY <1>3, <3>1, <3>4 DEF Changes, Contact
      <4>2. Changes' * Confirm = Changes * Confirm + Debounce + PollInterval
        BY <1>3, <1>5, <4>1, OneMore DEF Confirm
      <4>3. Changes * Confirm + PollInterval <= button.changedAt
        BY <3>4 DEF ClockInvariant, ButtonInvariant
      <4>4. Changes' * Confirm <= now
        BY <1>3, <1>5, <3>2, <4>2, <4>3 DEF Contact
      <4> QED BY <1>1, <1>3, <3>1, <4>4 DEF ClockInvariant, ButtonInvariant, Contact
    <3> QED BY <3>3, <3>4
  <2>4. CASE button' = [button EXCEPT !.polledAt = now]
    <3>1. /\ button' \in Contact
          /\ button'.polledAt = now /\ button'.changedAt = button.changedAt
          /\ button'.raw = button.raw /\ button'.stable = button.stable
          /\ button'.presses = button.presses
      BY <1>3, <2>4 DEF Contact
    <3>2. Changes' = Changes
      BY <3>1 DEF Changes
    <3> QED BY <1>1, <1>3, <3>1, <3>2 DEF ClockInvariant, ButtonInvariant, Contact
  <2> QED BY <1>3, <1>5, <2>1, <2>2, <2>3, <2>4 DEF PollButton, Contact
<1>7. LoopTypes'
  BY <1>1, <1>6 DEF ClockInvariant, LoopTypes
<1> QED BY <1>2, <1>6, <1>7 DEF ClockInvariant

\* A tick is for one interval, and one interval or a restart is behind it.
LEMMA TickIfDueKeepsTime == ClockInvariant /\ TickIfDue => ClockInvariant'
<1> SUFFICES ASSUME ClockInvariant, TickIfDue PROVE ClockInvariant'
  OBVIOUS
<1>1. UNCHANGED << time, now, button >> /\ at = "tick" /\ at' = "top"
  BY DEF TickIfDue
<1>2. ButtonInvariant'
  BY <1>1 DEF ClockInvariant, ButtonInvariant, Changes
<1>3. live \in Live /\ now \in Nat /\ time \in Nat /\ now <= time
  BY DEF ClockInvariant, LoopTypes
<1>4. CASE live' = live
  BY <1>1, <1>2, <1>3, <1>4
     DEF ClockInvariant, LoopTypes, TimersInvariant, BootTimers, LoadedTimers
<1>5. CASE live' = LiveAfterReset
  <2>1. /\ live' \in Live /\ live'.startedAt = time /\ live'.lastTick = time
        /\ live'.ticked = 0 /\ live'.periodic = live.periodic
    BY <1>3, <1>5, RestartedIsNew DEF LiveAfterReset, Live
  <2>2. LoopTypes'
    BY <1>1, <2>1 DEF ClockInvariant, LoopTypes
  <2>3. TimersInvariant'
    BY <1>1, <1>3, <2>1, <2>2 DEF TimersInvariant, BootTimers, LoadedTimers, Live
  <2> QED BY <1>2, <2>2, <2>3 DEF ClockInvariant
<1>6. CASE /\ live' = [live EXCEPT !.lastTick = now, !.ticked = @ + live.interval]
           /\ Since(now, live.lastTick) >= live.interval
  <2>1. /\ live' \in Live /\ live'.startedAt = live.startedAt /\ live'.lastTick = now
        /\ live'.ticked = live.ticked + live.interval /\ live'.interval = live.interval
        /\ live'.periodic = live.periodic
    <3>1. live.ticked + live.interval \in Nat
      BY <1>3 DEF Live
    <3> QED BY <1>3, <1>6, <3>1 DEF Live
  <2>2. LoopTypes'
    BY <1>1, <2>1 DEF ClockInvariant, LoopTypes
  <2>3. live.lastTick <= now => live.lastTick + live.interval <= now
    <3>1. live.lastTick <= now => Since(now, live.lastTick) <= now - live.lastTick
      BY <1>3, SinceIsBounded DEF Live
    <3>2. Since(now, live.lastTick) \in Int
      BY <1>3, LoopAssumption DEF Since, Live
    <3> QED BY <1>3, <1>6, <3>1, <3>2 DEF Live
  <2>4. BootTimers'
    BY <1>1, <1>3, <2>1, <2>3 DEF ClockInvariant, TimersInvariant, BootTimers, Live
  <2>5. LoadedTimers'
    BY <1>1, <1>3, <2>1, <2>3 DEF ClockInvariant, TimersInvariant, LoadedTimers, Live
  <2>6. TimersInvariant'
    BY <1>1, <1>3, <2>1, <2>4, <2>5 DEF ClockInvariant, TimersInvariant, Live
  <2> QED BY <1>2, <2>2, <2>6 DEF ClockInvariant
<1> QED BY <1>4, <1>5, <1>6 DEF TickIfDue

\* Time only makes the bounds wider.
LEMMA TimePassesKeepsTime == ClockInvariant /\ TimePasses => ClockInvariant'
<1> SUFFICES ASSUME ClockInvariant, TimePasses PROVE ClockInvariant'
  OBVIOUS
<1> USE DEF TimePasses
<1>1. LoopTypes'
  BY DEF ClockInvariant, LoopTypes
<1>2. TimersInvariant'
  BY DEF ClockInvariant, LoopTypes, Live, TimersInvariant, BootTimers, LoadedTimers
<1>3. ButtonInvariant'
  BY DEF ClockInvariant, ButtonInvariant, Changes
<1> QED BY <1>1, <1>2, <1>3 DEF ClockInvariant

\* A bounce is no press yet.
LEMMA BounceKeepsTime == ClockInvariant /\ Bounce => ClockInvariant'
<1> SUFFICES ASSUME ClockInvariant, Bounce PROVE ClockInvariant'
  OBVIOUS
<1>1. UNCHANGED << time, at, now, live >> /\ button' = [button EXCEPT !.down = ~@]
  BY DEF Bounce
<1>2. button \in Contact
  BY DEF ClockInvariant, LoopTypes
<1>3. /\ button' \in Contact
      /\ button'.polledAt = button.polledAt /\ button'.changedAt = button.changedAt
      /\ button'.raw = button.raw /\ button'.stable = button.stable
      /\ button'.presses = button.presses
  BY <1>1, <1>2 DEF Contact
<1>4. LoopTypes' /\ TimersInvariant'
  BY <1>1, <1>3 DEF ClockInvariant, LoopTypes, TimersInvariant, BootTimers, LoadedTimers
<1>5. ButtonInvariant'
  BY <1>1, <1>3 DEF ClockInvariant, ButtonInvariant, Changes
<1> QED BY <1>4, <1>5 DEF ClockInvariant

\* What happens on the wire alone touches no timer.
LEMMA WireKeepsTime ==
  ASSUME ClockInvariant, UNCHANGED << time, at, now, live, button >>
  PROVE  ClockInvariant'
BY DEF ClockInvariant, LoopTypes, TimersInvariant, BootTimers, LoadedTimers, ButtonInvariant,
       Changes

\* The bounds follow from the invariant.
LEMMA ClockInvariantBounds == ClockInvariant => NeverAheadOfTime
<1> SUFFICES ASSUME ClockInvariant PROVE NeverAheadOfTime
  OBVIOUS
<1>1. live.ticked <= (time - live.startedAt) + (IF live.periodic THEN 0 ELSE 2 * live.interval)
  BY DEF ClockInvariant, LoopTypes, Live, TimersInvariant, BootTimers, LoadedTimers
<1>2. button \in Contact /\ Changes \in Int /\ Confirm \in Nat /\ Changes * Confirm \in Int
  BY LoopAssumption DEF ClockInvariant, LoopTypes, Contact, Changes, Confirm
<1>3. Changes * Confirm <= time
  BY <1>2, LoopAssumption DEF ClockInvariant, LoopTypes, ButtonInvariant, Contact
<1>4. button.presses * 2 * Confirm <= Changes * Confirm + Confirm
  <2>1. CASE button.stable
    <3>1. button.presses * 2 = Changes + 1
      BY <1>2, <2>1 DEF Changes, Contact
    <3> QED BY <1>2, <3>1, OneMore
  <2>2. CASE ~button.stable
    <3>1. button.presses * 2 = Changes
      BY <1>2, <2>2 DEF Changes, Contact
    <3> QED BY <1>2, <3>1
  <2> QED BY <2>1, <2>2
<1>5. button.presses * 2 * (Debounce + PollInterval) <= time + Debounce + PollInterval
  <2>1. Debounce \in Nat /\ PollInterval \in Nat /\ Confirm = Debounce + PollInterval
    BY LoopAssumption DEF Confirm
  <2>2. button.presses * 2 * Confirm <= time + Confirm
    <3>1. time \in Nat /\ button.presses * 2 * Confirm \in Int
      BY <1>2 DEF ClockInvariant, LoopTypes, Contact
    <3> QED BY <1>2, <1>3, <1>4, <3>1
  <2> QED BY <2>1, <2>2 DEF ClockInvariant, LoopTypes
<1> QED BY <1>1, <1>5 DEF NeverAheadOfTime

\* Whatever the clock's size and the intervals, the live program is never ticked
\* for more time than has passed (a loaded one for two intervals more), and a
\* press is never counted without the time that seeing a release and a press takes.
THEOREM TimersNeverAhead == Spec => []NeverAheadOfTime
<1>1. Init => ClockInvariant
  BY ClockInit
<1>2. ClockInvariant /\ [Next]_vars => ClockInvariant'
  <2> SUFFICES ASSUME ClockInvariant, [Next]_vars PROVE ClockInvariant'
    OBVIOUS
  <2>1. CASE ReadClock
    BY <2>1, ReadClockKeepsTime
  <2>2. CASE ReceiveByte
    BY <2>2, ReceiveByteKeepsTime
  <2>3. CASE EndSerialPoll
    BY <2>3, EndSerialPollKeepsTime
  <2>4. CASE PollButton
    BY <2>4, PollButtonKeepsTime
  <2>5. CASE TickIfDue
    BY <2>5, TickIfDueKeepsTime
  <2>6. CASE TimePasses
    BY <2>6, TimePassesKeepsTime
  <2>7. CASE Bounce
    BY <2>7, BounceKeepsTime
  <2>8. CASE LoseByte
    BY <2>8, WireKeepsTime DEF LoseByte
  <2>9. CASE \E item \in Items : Write(item)
    BY <2>9, WireKeepsTime DEF Write
  <2>10. CASE UNCHANGED vars
    BY <2>10, WireKeepsTime DEF vars
  <2> QED
    BY <2>1, <2>2, <2>3, <2>4, <2>5, <2>6, <2>7, <2>8, <2>9, <2>10 DEF Next
<1> QED BY <1>1, <1>2, ClockInvariantBounds, PTL DEF Spec

------------------------------------------------------------------------------
\* Framing

\* What the ingress holds after the first k bytes of an item.
InTheMiddle(item, k) ==
  IF IsFrame(item) /\ k >= Len(Prefix) THEN InFrame(SubSeq(item, 1, k))
  ELSE InLine(SubSeq(item, 1, k))

\* What remains owed of an item that is on its way.
OwedFor(item) == IF Payload(item) = << >> THEN << >> ELSE << item >>

ReadingAnItem ==
  \E item \in Items, k \in Nat :
    /\ k < Len(item) /\ wire = SubSeq(item, k + 1, Len(item))
    /\ ingress = InTheMiddle(item, k) /\ owed = OwedFor(item)

NothingUnderWay == wire = << >> /\ ingress = Idle /\ owed = << >>

FramingInvariant ==
  /\ wire \in Seq(Nat)
  /\ lost => owed = << >>
  /\ lost \/ NothingUnderWay \/ ReadingAnItem

\* One more byte of an item.
LEMMA OneByteMore ==
  ASSUME NEW item \in Seq(Nat), NEW k \in Nat, k < Len(item)
  PROVE  /\ Append(SubSeq(item, 1, k), item[k + 1]) = SubSeq(item, 1, k + 1)
         /\ SubSeq(item, 1, k) \in Seq(Nat) /\ Len(SubSeq(item, 1, k)) = k
         /\ Head(SubSeq(item, k + 1, Len(item))) = item[k + 1]
         /\ Tail(SubSeq(item, k + 1, Len(item))) = SubSeq(item, k + 2, Len(item))
         /\ Len(SubSeq(item, k + 1, Len(item))) = Len(item) - k
<1>1. Len(item) \in Nat /\ k + 1 \in 1..Len(item)
  BY LenProperties
<1>2. \A i \in 1..Len(item) : item[i] \in Nat
  BY ElementOfSeq
<1>3. SubSeq(item, 1, k) \in Seq(Nat) /\ Len(SubSeq(item, 1, k)) = k
  <2>1. \A i \in 1..k : item[i] \in Nat
    BY <1>1, <1>2
  <2> QED BY <2>1, SubSeqProperties
<1>4. Append(SubSeq(item, 1, k), item[k + 1]) = SubSeq(item, 1, k + 1)
  <2>1. SubSeq(item, 1, k + 1) = SubSeq(item, 1, (k + 1) - 1) \o << item[k + 1] >>
    BY <1>1, SubSeqRecursiveSecond
  <2>2. Append(SubSeq(item, 1, k), item[k + 1]) = SubSeq(item, 1, k) \o << item[k + 1] >>
    BY <1>1, <1>2, <1>3, AppendIsConcat
  <2>3. (k + 1) - 1 = k
    OBVIOUS
  <2> QED BY <2>1, <2>2, <2>3
<1>5. /\ Head(SubSeq(item, k + 1, Len(item))) = item[k + 1]
      /\ Tail(SubSeq(item, k + 1, Len(item))) = SubSeq(item, (k + 1) + 1, Len(item))
  BY <1>1, HeadTailOfSubSeq
<1>6. Len(SubSeq(item, k + 1, Len(item))) = Len(item) - k
  <2>1. \A i \in (k + 1)..Len(item) : item[i] \in Nat
    BY <1>1, <1>2
  <2>2. Len(SubSeq(item, k + 1, Len(item))) =
          IF k + 1 <= Len(item) THEN Len(item) - (k + 1) + 1 ELSE 0
    BY <1>1, <2>1, SubSeqProperties
  <2> QED BY <1>1, <2>2
<1>7. (k + 1) + 1 = k + 2
  OBVIOUS
<1> QED BY <1>3, <1>4, <1>5, <1>6, <1>7

\* The first bytes of an item begin like a frame once the prefix is complete,
\* and only if the item is a frame.
LEMMA PrefixIsSeen ==
  ASSUME NEW item \in Seq(Nat), NEW k \in Nat, k <= Len(item)
  PROVE  IsPrefix(Prefix, SubSeq(item, 1, k)) <=> IsFrame(item) /\ k >= Len(Prefix)
<1>1. Len(Prefix) \in Nat /\ Len(Prefix) # 0
  BY FrameAssumption, EmptySeq, LenProperties
<1>2. Len(SubSeq(item, 1, k)) = k /\ Len(item) \in Nat
  <2>1. CASE k = Len(item)
    BY <2>1, SubSeqFull, LenProperties
  <2>2. CASE k < Len(item)
    BY <2>2, OneByteMore, LenProperties
  <2> QED BY <2>1, <2>2, LenProperties
<1>3. CASE k >= Len(Prefix)
  <2>1. CASE k = 0
    BY <1>1, <1>3, <2>1
  <2>2. CASE k > 0
    <3>1. SubSeq(SubSeq(item, 1, k), 1, Len(Prefix)) =
            SubSeq(item, 1 + 1 - 1, 1 + Len(Prefix) - 1)
      <4>1. /\ 1 \in 1..Len(item) /\ k \in 1..Len(item)
            /\ 1 \in 1..(k - 1 + 1) /\ Len(Prefix) \in 1..(k - 1 + 1)
        BY <1>1, <1>2, <1>3, <2>2
      <4> QED BY <4>1, SubSeqOfSubSeq
    <3>2. 1 + 1 - 1 = 1 /\ 1 + Len(Prefix) - 1 = Len(Prefix)
      BY <1>1
    <3>3. SubSeq(SubSeq(item, 1, k), 1, Len(Prefix)) = SubSeq(item, 1, Len(Prefix))
      BY <3>1, <3>2
    <3>4. Len(Prefix) <= Len(item)
      BY <1>1, <1>2, <1>3
    <3> QED BY <1>2, <1>3, <3>3, <3>4 DEF IsPrefix, IsFrame
  <2> QED BY <2>1, <2>2
<1>4. CASE k < Len(Prefix)
  BY <1>1, <1>2, <1>4 DEF IsPrefix
<1> QED BY <1>1, <1>3, <1>4

\* The byte of a frame that says how long it is, is read with the header.
LEMMA LengthIsSeen ==
  ASSUME NEW item \in Seq(Nat), NEW k \in Nat, k <= Len(item), HeaderLength <= k
  PROVE  ExpectedLength(SubSeq(item, 1, k)) = ExpectedLength(item)
<1>1. LengthAt \in 1..k
  BY FrameAssumption, LenProperties
<1>2. \A i \in 1..k : item[i] \in Nat
  BY ElementOfSeq, LenProperties
<1>3. \A i \in 1..(k - 1 + 1) : SubSeq(item, 1, k)[i] = item[1 + i - 1]
  BY <1>2, SubSeqProperties
<1>4. SubSeq(item, 1, k)[LengthAt] = item[LengthAt]
  BY <1>1, <1>3
<1> QED BY <1>4 DEF ExpectedLength

\* A frame that has grown to k bytes is handed on when k is its length, not before.
LEMMA FrameGrows ==
  ASSUME NEW item \in Items, NEW k \in Nat, k <= Len(item), IsFrame(item), k >= Len(Prefix)
  PROVE  TryEmit(InFrame(SubSeq(item, 1, k))) =
           IF k < Len(item) THEN Fed(InFrame(SubSeq(item, 1, k)), << >>) ELSE Fed(Idle, << item >>)
<1> DEFINE held == InFrame(SubSeq(item, 1, k))
<1>1. item \in Seq(Nat) /\ FrameAsWritten(item)
  BY ItemAssumption
<1>2. Len(item) \in Nat /\ HeaderLength \in Nat
  BY <1>1, FrameAssumption, LenProperties
<1>3. Len(held.frame) = k /\ held.frame = SubSeq(item, 1, k)
  BY <1>1, <1>2, OneByteMore, SubSeqFull DEF InFrame
<1> HIDE DEF held
<1> SUFFICES TryEmit(held) = IF k < Len(item) THEN Fed(held, << >>) ELSE Fed(Idle, << item >>)
  BY DEF held
<1>4. CASE k < HeaderLength
  BY <1>1, <1>2, <1>3, <1>4 DEF TryEmit, FrameAsWritten
<1>5. CASE k >= HeaderLength
  <2>1. ExpectedLength(held.frame) = Len(item) /\ Len(item) <= MaxFrame
    BY <1>1, <1>3, <1>5, LengthIsSeen DEF FrameAsWritten
  <2>2. MaxFrame \in Nat
    BY FrameAssumption
  <2>3. k = Len(item) => held.frame = item
    BY <1>1, <1>3, SubSeqFull
  <2>4. CASE k < Len(item)
    BY <1>2, <1>3, <1>5, <2>1, <2>2, <2>4 DEF TryEmit
  <2>5. CASE k = Len(item)
    <3>1. ~(Len(held.frame) < ExpectedLength(held.frame)) /\ ~(ExpectedLength(held.frame) > MaxFrame)
          /\ ~(Len(held.frame) < HeaderLength)
      BY <1>2, <1>3, <1>5, <2>1, <2>2, <2>5
    <3>2. TryEmit(held) = Fed(Idle, << held.frame >>)
      BY <3>1 DEF TryEmit
    <3> QED BY <1>2, <2>3, <2>5, <3>2
  <2> QED BY <1>2, <2>4, <2>5
<1> QED BY <1>2, <1>4, <1>5

\* A byte within an item is kept, and nothing is handed on.
LEMMA FeedWithin ==
  ASSUME NEW item \in Items, NEW k \in Nat, k + 1 < Len(item)
  PROVE  FeedByte(InTheMiddle(item, k), item[k + 1]) = Fed(InTheMiddle(item, k + 1), << >>)
<1> DEFINE held == InTheMiddle(item, k)
           byte == item[k + 1]
<1>1. item \in Seq(Nat) /\ Len(item) \in Nat /\ Len(Prefix) \in Nat
  BY ItemAssumption, FrameAssumption, LenProperties
<1>2. /\ Append(SubSeq(item, 1, k), byte) = SubSeq(item, 1, k + 1)
      /\ Len(SubSeq(item, 1, k)) = k
  BY <1>1, OneByteMore
<1>3. CASE IsFrame(item) /\ k >= Len(Prefix)
  <2>1. held.binary /\ held.frame = SubSeq(item, 1, k)
    BY <1>3 DEF InTheMiddle, InFrame
  <2>2. InTheMiddle(item, k + 1) = InFrame(SubSeq(item, 1, k + 1))
    <3>1. k + 1 >= Len(Prefix)
      BY <1>1, <1>3
    <3> QED BY <1>3, <3>1 DEF InTheMiddle
  <2>3. k < MaxFrame
    BY <1>1, <1>3, ItemAssumption, FrameAssumption DEF FrameAsWritten
  <2>4. TryEmit(InTheMiddle(item, k + 1)) = Fed(InTheMiddle(item, k + 1), << >>)
    <3>1. k + 1 >= Len(Prefix) /\ k + 1 <= Len(item) /\ k + 1 \in Nat
      BY <1>1, <1>3
    <3> QED BY <1>3, <2>2, <3>1, FrameGrows
  <2>5. FeedByte(held, byte) = TryEmit(InFrame(SubSeq(item, 1, k + 1)))
    <3>1. MaxFrame \in Nat
      BY FrameAssumption
    <3>2. /\ Append(held.frame, byte) = SubSeq(item, 1, k + 1)
          /\ ~(Len(held.frame) >= MaxFrame)
      BY <1>2, <2>1, <2>3, <3>1
    <3> HIDE DEF held, byte
    <3> QED BY <2>1, <3>2 DEF FeedByte, FeedFrame
  <2> QED BY <2>2, <2>4, <2>5
<1>4. CASE ~(IsFrame(item) /\ k >= Len(Prefix))
  <2>1. ~held.binary /\ held.line = SubSeq(item, 1, k)
    BY <1>4 DEF InTheMiddle, InLine
  <2>2. byte # Newline /\ k < MaxLine
    <3>1. CASE IsFrame(item)
      <4>1. k + 1 \in 1..Len(Prefix) /\ k < MaxLine
        BY <1>1, <1>4, <3>1, FrameAssumption
      <4>2. byte = Prefix[k + 1]
        <5>1. /\ SubSeq(Prefix, 1, Len(Prefix))[k + 1] = Prefix[1 + (k + 1) - 1]
              /\ SubSeq(item, 1, Len(Prefix))[k + 1] = item[1 + (k + 1) - 1]
          <6>1. Prefix \in Seq(Nat) /\ Len(Prefix) <= Len(item)
            BY <3>1, FrameAssumption DEF IsFrame, IsPrefix
          <6>2. /\ \A i \in 1..Len(Prefix) : Prefix[i] \in Nat
                /\ \A i \in 1..Len(Prefix) : item[i] \in Nat
            BY <1>1, <6>1, ElementOfSeq
          <6> QED BY <1>1, <4>1, <6>2, SubSeqProperties
        <5>2. SubSeq(Prefix, 1, Len(Prefix)) = SubSeq(item, 1, Len(Prefix))
          BY <3>1 DEF IsFrame, IsPrefix
        <5>3. 1 + (k + 1) - 1 = k + 1
          OBVIOUS
        <5> QED BY <5>1, <5>2, <5>3
      <4> QED BY <4>1, <4>2, FrameAssumption
    <3>2. CASE ~IsFrame(item)
      <4>1. LineAsWritten(item) /\ k + 1 \in 1..Len(item)
        BY <1>1, <3>2, ItemAssumption
      <4> QED BY <1>1, <4>1, FrameAssumption DEF LineAsWritten
    <3> QED BY <3>1, <3>2
  <2>3. IsPrefix(Prefix, SubSeq(item, 1, k + 1)) <=> IsFrame(item) /\ k + 1 >= Len(Prefix)
    BY <1>1, PrefixIsSeen
  <2> DEFINE line == SubSeq(item, 1, k + 1)
  <2>4. FeedByte(held, byte) =
          IF IsPrefix(Prefix, line) THEN TryEmit(InFrame(line))
          ELSE Fed(InLine(line), << >>)
    <3>1. MaxLine \in Nat
      BY FrameAssumption
    <3>2. ~held.binary /\ Append(held.line, byte) = line /\ Len(held.line) = k
      BY <1>2, <2>1
    <3>3. byte # Newline /\ ~(Len(held.line) >= MaxLine)
      BY <2>2, <3>1, <3>2
    <3> HIDE DEF held, byte, line
    <3> QED BY <3>2, <3>3 DEF FeedByte, FeedLine
  <2>5. CASE IsPrefix(Prefix, line)
    <3>1. InTheMiddle(item, k + 1) = InFrame(line)
      BY <2>3, <2>5 DEF InTheMiddle
    <3>2. TryEmit(InTheMiddle(item, k + 1)) = Fed(InTheMiddle(item, k + 1), << >>)
      <4>1. IsFrame(item) /\ k + 1 >= Len(Prefix) /\ k + 1 <= Len(item) /\ k + 1 \in Nat
        BY <1>1, <2>3, <2>5
      <4> QED BY <3>1, <4>1, FrameGrows
    <3> QED BY <2>4, <2>5, <3>1, <3>2
  <2>6. CASE ~IsPrefix(Prefix, line)
    <3>1. InTheMiddle(item, k + 1) = InLine(line)
      BY <2>3, <2>6 DEF InTheMiddle
    <3> QED BY <2>4, <2>6, <3>1
  <2> QED BY <2>5, <2>6
<1> QED BY <1>3, <1>4

\* With its last byte an item is handed on, and the ingress holds nothing.
LEMMA FeedLast ==
  ASSUME NEW item \in Items, NEW k \in Nat, k + 1 = Len(item)
  PROVE  FeedByte(InTheMiddle(item, k), item[k + 1]) =
           Fed(Idle, IF Payload(item) = << >> THEN << >> ELSE << Payload(item) >>)
<1> DEFINE held == InTheMiddle(item, k)
           byte == item[k + 1]
<1>1. item \in Seq(Nat) /\ Len(item) \in Nat /\ Len(Prefix) \in Nat
  BY ItemAssumption, FrameAssumption, LenProperties
<1>2. /\ Append(SubSeq(item, 1, k), byte) = SubSeq(item, 1, k + 1)
      /\ Len(SubSeq(item, 1, k)) = k
  BY <1>1, OneByteMore
<1>3. CASE IsFrame(item)
  <2>1. FrameAsWritten(item) /\ k >= Len(Prefix)
    BY <1>1, <1>3, ItemAssumption, FrameAssumption DEF FrameAsWritten
  <2>2. held.binary /\ held.frame = SubSeq(item, 1, k)
    BY <1>3, <2>1 DEF InTheMiddle, InFrame
  <2>3. k < MaxFrame
    BY <1>1, <2>1, FrameAssumption DEF FrameAsWritten
  <2> DEFINE whole == InFrame(SubSeq(item, 1, k + 1))
  <2>4. FeedByte(held, byte) = TryEmit(whole)
    <3>1. MaxFrame \in Nat
      BY FrameAssumption
    <3>2. /\ Append(held.frame, byte) = SubSeq(item, 1, k + 1)
          /\ ~(Len(held.frame) >= MaxFrame)
      BY <1>2, <2>2, <2>3, <3>1
    <3> HIDE DEF held, byte
    <3> QED BY <2>2, <3>2 DEF FeedByte, FeedFrame
  <2>5. TryEmit(whole) = Fed(Idle, << item >>)
    <3>1. k + 1 >= Len(Prefix) /\ k + 1 <= Len(item) /\ k + 1 \in Nat
      BY <1>1, <2>1
    <3>2. ~(k + 1 < Len(item))
      BY <1>1
    <3> QED BY <1>3, <3>1, <3>2, FrameGrows
  <2>6. Payload(item) = item /\ item # << >>
    BY <1>1, <1>3, EmptySeq DEF Payload
  <2> QED BY <2>4, <2>5, <2>6
<1>4. CASE ~IsFrame(item)
  <2>1. ~held.binary /\ held.line = SubSeq(item, 1, k)
    BY <1>4 DEF InTheMiddle, InLine
  <2>2. byte = Newline
    <3>1. LineAsWritten(item) /\ k + 1 \in 1..Len(item)
      BY <1>1, <1>4, ItemAssumption
    <3> QED BY <3>1 DEF LineAsWritten
  <2>3. Payload(item) = SubSeq(item, 1, k)
    <3>1. Len(item) - 1 = k
      BY <1>1
    <3> QED BY <1>4, <3>1 DEF Payload, Front
  <2>4. FeedByte(held, byte) =
          Fed(Idle, IF held.line = << >> THEN << >> ELSE << held.line >>)
    <3> HIDE DEF held, byte
    <3> QED BY <2>1, <2>2 DEF FeedByte, FeedLine
  <2> QED BY <2>1, <2>3, <2>4
<1> QED BY <1>3, <1>4

\* At boot nothing is on the wire.
LEMMA FramingInit == Init => FramingInvariant
BY DEF Init, FramingInvariant, NothingUnderWay

\* A byte received moves the item on the wire on by one byte.
LEMMA ReceiveByteKeepsFraming == FramingInvariant /\ ReceiveByte => FramingInvariant'
<1> SUFFICES ASSUME FramingInvariant, ReceiveByte PROVE FramingInvariant'
  OBVIOUS
<1> DEFINE fed == FeedByte(ingress, Head(wire))
<1>1. /\ wire # << >> /\ wire' = Tail(wire) /\ ingress' = fed.ingress
      /\ owed' = IF owed # << >> /\ fed.out = << Payload(Head(owed)) >> THEN Tail(owed) ELSE owed
      /\ lost' = (lost /\ ~(Head(wire) = Newline /\ Len(wire) = 1 /\ ~ingress.binary))
  BY DEF ReceiveByte
<1>2. wire \in Seq(Nat) /\ wire' \in Seq(Nat) /\ Len(wire') = Len(wire) - 1
  BY <1>1, HeadTailProperties DEF FramingInvariant
<1>3. CASE lost
  <2>1. owed' = << >>
    BY <1>1, <1>3 DEF FramingInvariant
  <2>2. CASE lost'
    BY <1>2, <2>1, <2>2 DEF FramingInvariant
  <2>3. CASE ~lost'
    <3>1. Head(wire) = Newline /\ Len(wire) = 1 /\ ~ingress.binary
      BY <1>1, <1>3, <2>3
    <3>2. wire' = << >>
      BY <1>2, <3>1, EmptySeq
    <3>3. ingress' = Idle
      BY <1>1, <3>1 DEF FeedByte, FeedLine, Fed
    <3> QED BY <1>2, <2>1, <2>3, <3>2, <3>3 DEF FramingInvariant, NothingUnderWay
  <2> QED BY <2>2, <2>3
<1>4. CASE ~lost
  <2>1. ~lost'
    BY <1>1, <1>4
  <2>2. PICK item \in Items, k \in Nat :
          /\ k < Len(item) /\ wire = SubSeq(item, k + 1, Len(item))
          /\ ingress = InTheMiddle(item, k) /\ owed = OwedFor(item)
    BY <1>1, <1>4 DEF FramingInvariant, NothingUnderWay, ReadingAnItem
  <2>3. item \in Seq(Nat) /\ Len(item) \in Nat
    BY ItemAssumption, LenProperties
  <2>4. Head(wire) = item[k + 1] /\ wire' = SubSeq(item, k + 2, Len(item))
    BY <1>1, <2>2, <2>3, OneByteMore
  <2>5. CASE k + 1 < Len(item)
    <3>1. ingress' = InTheMiddle(item, k + 1) /\ fed.out = << >>
      <4>1. fed = Fed(InTheMiddle(item, k + 1), << >>)
        BY <2>2, <2>4, <2>5, FeedWithin
      <4> QED BY <1>1, <4>1 DEF Fed
    <3>2. owed' = OwedFor(item)
      <4>1. << >> # << Payload(Head(owed)) >>
        OBVIOUS
      <4>2. owed' = owed
        BY <1>1, <3>1, <4>1
      <4> QED BY <2>2, <4>2
    <3>3. wire' = SubSeq(item, (k + 1) + 1, Len(item)) /\ k + 1 \in Nat
      <4>1. (k + 1) + 1 = k + 2
        OBVIOUS
      <4> QED BY <2>4, <4>1
    <3>4. ReadingAnItem'
      BY <2>5, <3>1, <3>2, <3>3 DEF ReadingAnItem
    <3> QED BY <1>2, <2>1, <3>4 DEF FramingInvariant
  <2>6. CASE k + 1 = Len(item)
    <3>1. ingress' = Idle /\ fed.out = IF Payload(item) = << >> THEN << >> ELSE << Payload(item) >>
      <4>1. fed = Fed(Idle, IF Payload(item) = << >> THEN << >> ELSE << Payload(item) >>)
        BY <2>2, <2>4, <2>6, FeedLast
      <4> QED BY <1>1, <4>1 DEF Fed
    <3>2. owed' = << >>
      <4>1. CASE Payload(item) = << >>
        BY <1>1, <2>2, <4>1 DEF OwedFor
      <4>2. CASE Payload(item) # << >>
        <5>1. owed = << item >> /\ Head(owed) = item /\ Tail(owed) = << >> /\ owed # << >>
          BY <2>2, <4>2 DEF OwedFor
        <5>2. fed.out = << Payload(Head(owed)) >>
          BY <3>1, <4>2, <5>1
        <5> QED BY <1>1, <5>1, <5>2
      <4> QED BY <4>1, <4>2
    <3>3. wire' = << >>
      BY <2>3, <2>4, <2>6, SubSeqEmpty
    <3> QED BY <1>2, <2>1, <3>1, <3>2, <3>3 DEF FramingInvariant, NothingUnderWay
  <2> QED BY <2>2, <2>3, <2>5, <2>6
<1> QED BY <1>3, <1>4

\* An item is written to a wire that is free.
LEMMA WriteKeepsFraming ==
  ASSUME FramingInvariant, NEW item \in Items, Write(item)
  PROVE  FramingInvariant'
<1>1. /\ wire = << >> /\ wire' = item /\ UNCHANGED << ingress, lost >>
      /\ owed' = IF lost \/ Payload(item) = << >> THEN owed ELSE Append(owed, item)
  BY DEF Write
<1>2. item \in Seq(Nat) /\ Len(item) \in Nat /\ Len(item) > 0
  <2>1. item \in Seq(Nat)
    BY ItemAssumption
  <2>2. item # << >>
    BY <2>1, ItemAssumption, FrameAssumption, EmptySeq DEF FrameAsWritten, LineAsWritten
  <2> QED BY <2>1, <2>2, EmptySeq, LenProperties
<1>3. CASE lost
  BY <1>1, <1>2, <1>3 DEF FramingInvariant
<1>4. CASE ~lost
  <2>1. ingress = Idle /\ owed = << >>
    <3>1. ~ReadingAnItem
      <4> SUFFICES ASSUME NEW other \in Items, NEW k \in Nat, k < Len(other),
                          wire = SubSeq(other, k + 1, Len(other))
                   PROVE  FALSE
        BY DEF ReadingAnItem
      <4>1. other \in Seq(Nat) /\ Len(other) \in Nat
        BY ItemAssumption, LenProperties
      <4>2. Len(wire) = Len(other) - k
        BY <4>1, OneByteMore
      <4>3. Len(wire) = 0
        BY <1>1, EmptySeq
      <4> QED BY <4>1, <4>2, <4>3
    <3> QED BY <1>4, <3>1 DEF FramingInvariant, NothingUnderWay
  <2>2. owed' = OwedFor(item)
    BY <1>1, <1>4, <2>1 DEF OwedFor
  <2>3. ingress' = InTheMiddle(item, 0)
    <3>1. SubSeq(item, 1, 0) = << >>
      BY SubSeqEmpty
    <3>2. ~(0 >= Len(Prefix))
      BY FrameAssumption, EmptySeq
    <3> QED BY <1>1, <2>1, <3>1, <3>2 DEF InTheMiddle, Idle
  <2>4. wire' = SubSeq(item, 0 + 1, Len(item))
    BY <1>1, <1>2, SubSeqFull
  <2>5. ReadingAnItem'
    BY <1>2, <2>2, <2>3, <2>4 DEF ReadingAnItem
  <2> QED BY <1>1, <1>2, <2>5 DEF FramingInvariant
<1> QED BY <1>3, <1>4

\* After a loss the invariant promises nothing about the framing.
LEMMA LoseByteKeepsFraming == FramingInvariant /\ LoseByte => FramingInvariant'
<1> SUFFICES ASSUME FramingInvariant, LoseByte PROVE FramingInvariant'
  OBVIOUS
<1>1. wire' \in Seq(Nat)
  BY HeadTailProperties DEF LoseByte, FramingInvariant
<1> QED BY <1>1 DEF LoseByte, FramingInvariant

\* The other actions touch neither the wire nor the ingress.
LEMMA OthersKeepFraming ==
  ASSUME FramingInvariant, UNCHANGED << wire, ingress, owed, lost >>
  PROVE  FramingInvariant'
BY DEF FramingInvariant, NothingUnderWay, ReadingAnItem

\* An item whose last byte is read leaves the wire empty and nothing owed.
LEMMA NothingIsOwed == FramingInvariant => WholeItemsArrive
<1> SUFFICES ASSUME FramingInvariant, wire = << >>, ~lost PROVE owed = << >>
  BY DEF WholeItemsArrive
<1>1. ~ReadingAnItem
  <2> SUFFICES ASSUME NEW item \in Items, NEW k \in Nat, k < Len(item),
                      wire = SubSeq(item, k + 1, Len(item))
               PROVE  FALSE
    BY DEF ReadingAnItem
  <2>1. item \in Seq(Nat) /\ Len(item) \in Nat
    BY ItemAssumption, LenProperties
  <2>2. Len(wire) = Len(item) - k
    BY <2>1, OneByteMore
  <2> QED BY <2>1, <2>2
<1> QED BY <1>1 DEF FramingInvariant, NothingUnderWay

\* Every line and frame that fits the firmware's buffers is handed on as soon as
\* its last byte is read, whatever its bytes are; after a loss, again from the
\* next item on that follows a line read as a line.
THEOREM ItemsArriveWhole == Spec => []WholeItemsArrive
<1>1. Init => FramingInvariant
  BY FramingInit
<1>2. FramingInvariant /\ [Next]_vars => FramingInvariant'
  <2> SUFFICES ASSUME FramingInvariant, [Next]_vars PROVE FramingInvariant'
    OBVIOUS
  <2>1. CASE ReceiveByte
    BY <2>1, ReceiveByteKeepsFraming
  <2>2. CASE LoseByte
    BY <2>2, LoseByteKeepsFraming
  <2>3. ASSUME NEW item \in Items, Write(item) PROVE FramingInvariant'
    BY <2>3, WriteKeepsFraming
  <2>4. CASE ReadClock \/ EndSerialPoll \/ PollButton \/ TickIfDue \/ TimePasses \/ Bounce
    BY <2>4, OthersKeepFraming
       DEF ReadClock, EndSerialPoll, PollButton, TickIfDue, TimePasses, Bounce, serial
  <2>5. CASE UNCHANGED vars
    BY <2>5, OthersKeepFraming DEF vars
  <2> QED BY <2>1, <2>2, <2>3, <2>4, <2>5 DEF Next
<1> QED BY <1>1, <1>2, NothingIsOwed, PTL DEF Spec

==============================================================================
