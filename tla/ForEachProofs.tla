---------------------------- MODULE ForEachProofs ----------------------------
(***************************************************************************)
(* What a loop of the C++ interpreter preserves, whatever its body is: the *)
(* loop is ForEach of HostRuntime for one body Op.  A proof about a loop   *)
(* takes an instance of this module with the body of that loop.            *)
(***************************************************************************)
EXTENDS Integers, Sequences, WellFoundedInduction, TLAPS

CONSTANT Op(_, _, _)

\* Definition of ForEach with Op for its body.
Loop(context, h, seq) ==
  LET after[n \in 0..Len(seq)] ==
        IF n = 0 THEN h
        ELSE IF after[n - 1].outcome = "running"
          THEN Op(after[n - 1], context, seq[n]) ELSE after[n - 1]
  IN  after[Len(seq)]

\* Induction over 0..n in terms of the set P of the numbers it has reached.
LEMMA UpTo ==
  ASSUME NEW n \in Nat, NEW P, 0 \in P, \A i \in 1..n : i - 1 \in P => i \in P
  PROVE  \A i \in 0..n : i \in P
<1> DEFINE Missed == {i \in 0..n : i \notin P}
<1>1. SUFFICES ASSUME Missed # {} PROVE FALSE
  OBVIOUS
<1>2. Missed \subseteq Nat
  OBVIOUS
<1>3. PICK m \in Missed : \A e \in Missed : ~ (<<e, m>> \in OpToRel(<, Nat))
  <2> HIDE DEF Missed
  <2> QED  BY <1>1, <1>2, WFMin, NatLessThanWellFounded
<1>4. m \in 1..n
  OBVIOUS
<1>5. m - 1 \in Missed /\ m - 1 < m /\ m - 1 \in Nat /\ m \in Nat
  BY <1>4
<1>6. <<m - 1, m>> \in OpToRel(<, Nat)
  BY <1>5 DEF OpToRel
<1> QED  BY <1>3, <1>5, <1>6

\* after[i] is the state that the first i passes over seq lead to from h.
Passes(after, context, h, seq) ==
  /\ after[0] = h
  /\ \A i \in 1..Len(seq) :
       after[i] = IF after[i - 1].outcome = "running"
                    THEN Op(after[i - 1], context, seq[i]) ELSE after[i - 1]

\* A loop has a state after each of its passes, beginning with h.
LEMMA LoopRuns ==
  ASSUME NEW context, NEW seq, Len(seq) \in Nat, NEW h
  PROVE  \E after :
           Loop(context, h, seq) = after[Len(seq)] /\ Passes(after, context, h, seq)
<1> DEFINE n == Len(seq)
           Pass(g, i) == IF g.outcome = "running" THEN Op(g, context, seq[i]) ELSE g
           Runs(f, k) == \A i \in 0..k : f[i] = IF i = 0 THEN h ELSE Pass(f[i - 1], i)
           Equation(f) ==
             f = [i \in 0..Len(seq) |->
                    IF i = 0 THEN h
                    ELSE IF f[i - 1].outcome = "running"
                      THEN Op(f[i - 1], context, seq[i]) ELSE f[i - 1]]
           Reached == {k \in 0..n : \E f : Runs(f, k)}
<1>1. 0 \in Reached
  <2>1. Runs([i \in 0..0 |-> h], 0)
    OBVIOUS
  <2> HIDE DEF Runs
  <2> QED  BY <2>1
<1>2. ASSUME NEW k \in 1..n, k - 1 \in Reached
      PROVE  k \in Reached
  <2>1. PICK f : Runs(f, k - 1)
    BY <1>2
  <2> DEFINE g == [i \in 0..k |-> IF i = k THEN Pass(f[k - 1], k) ELSE f[i]]
  <2>2. \A i \in 0..(k - 1) : g[i] = f[i]
    OBVIOUS
  <2>3. g[k] = Pass(f[k - 1], k)
    OBVIOUS
  <2>4. ASSUME NEW i \in 0..k
        PROVE  g[i] = IF i = 0 THEN h ELSE Pass(g[i - 1], i)
    <3>1. CASE i = 0
      BY <2>1, <2>2, <3>1
    <3>2. CASE i \in 1..(k - 1)
      <4>1. i \in 0..(k - 1) /\ i - 1 \in 0..(k - 1) /\ i # 0
        BY <3>2
      <4>2. g[i] = f[i] /\ g[i - 1] = f[i - 1]
        BY <2>2, <4>1
      <4>3. f[i] = Pass(f[i - 1], i)
        BY <2>1, <4>1
      <4> HIDE DEF g, Pass
      <4> QED  BY <4>1, <4>2, <4>3
    <3>3. CASE i = k
      <4>1. k - 1 \in 0..(k - 1) /\ i # 0
        BY <3>3
      <4>2. g[k - 1] = f[k - 1]
        BY <2>2, <4>1
      <4> HIDE DEF g, Pass
      <4> QED  BY <2>3, <3>3, <4>1, <4>2
    <3> HIDE DEF g, Pass
    <3> QED  BY <3>1, <3>2, <3>3
  <2>5. Runs(g, k)
    BY <2>4
  <2> HIDE DEF Runs, g
  <2> QED  BY <2>5
<1>3. PICK f : Runs(f, n)
  <2>1. \A k \in 0..n : k \in Reached
    <3> HIDE DEF Reached
    <3> QED  BY <1>1, <1>2, UpTo
  <2>2. n \in Reached
    <3> HIDE DEF Reached
    <3> QED  BY <2>1
  <2> QED  BY <2>2
<1>4. \E e : Equation(e)
  <2> DEFINE e == [i \in 0..n |-> f[i]]
  <2>1. ASSUME NEW i \in 0..n
        PROVE  e[i] = IF i = 0 THEN h ELSE Pass(e[i - 1], i)
    BY <1>3
  <2>2. e = [i \in 0..n |-> IF i = 0 THEN h ELSE Pass(e[i - 1], i)]
    <3> HIDE DEF Pass
    <3> QED  BY <2>1
  <2> HIDE DEF e
  <2>3. Equation(e)
    BY <2>2
  <2> HIDE DEF Equation
  <2> QED  BY <2>3
<1> DEFINE after == CHOOSE a : Equation(a)
<1>5. Equation(after)
  <2> HIDE DEF Equation
  <2> QED  BY <1>4
<1>6. \A i \in 0..n : after[i] = IF i = 0 THEN h ELSE Pass(after[i - 1], i)
  <2> HIDE DEF after
  <2> QED  BY <1>5
<1>7. Loop(context, h, seq) = after[n]
  BY DEF Loop, after, Equation
<1> HIDE DEF after, Equation
<1>8. after[0] = h /\ \A i \in 1..n : after[i] = Pass(after[i - 1], i)
  <2> HIDE DEF Pass
  <2>1. \A i \in 1..n : i \in 0..n /\ i # 0
    OBVIOUS
  <2> QED  BY <1>6, <2>1
<1>9. Passes(after, context, h, seq)
  BY <1>8 DEF Passes
<1> QED  BY <1>7, <1>9

\* A loop that begins in Stage[0], and that every pass leads from one stage into
\* the next, ends in the last stage.  After an exception nothing changes, so a
\* state an exception has left belongs to all later stages.
LEMMA LoopEndsInItsLastStage ==
  ASSUME NEW context, NEW seq, Len(seq) \in Nat,
         NEW Stage, NEW h, h \in Stage[0],
         \A i \in 1..Len(seq) : \A g \in Stage[i - 1] :
           IF g.outcome = "running" THEN Op(g, context, seq[i]) \in Stage[i]
                                    ELSE g \in Stage[i]
  PROVE  Loop(context, h, seq) \in Stage[Len(seq)]
<1> DEFINE n == Len(seq)
<1>0. PICK after : Loop(context, h, seq) = after[n] /\ Passes(after, context, h, seq)
  BY LoopRuns
<1>1. /\ Loop(context, h, seq) = after[n] /\ after[0] = h
      /\ \A i \in 1..n : after[i] = IF after[i - 1].outcome = "running"
                                     THEN Op(after[i - 1], context, seq[i]) ELSE after[i - 1]
  BY <1>0 DEF Passes
<1> DEFINE Staged == {i \in 0..n : after[i] \in Stage[i]}
<1>2. 0 \in Staged
  BY <1>1
<1>3. ASSUME NEW i \in 1..n, i - 1 \in Staged
      PROVE  i \in Staged
  BY <1>1, <1>3
<1>4. n \in Staged
  <2>1. \A i \in 0..n : i \in Staged
    <3> HIDE DEF Staged
    <3> QED  BY <1>2, <1>3, UpTo
  <2> HIDE DEF Staged
  <2> QED  BY <2>1
<1> QED  BY <1>1, <1>4

\* What every pass preserves, the loop preserves.
THEOREM LoopStaysIn ==
  ASSUME NEW context, NEW seq, Len(seq) \in Nat, NEW S, NEW h \in S,
         \A i \in 1..Len(seq) : \A g \in S :
           g.outcome = "running" => Op(g, context, seq[i]) \in S
  PROVE  Loop(context, h, seq) \in S
<1> DEFINE n == Len(seq)
           Stage == [i \in 0..n |-> S]
<1>1. \A i \in 1..n : i - 1 \in 0..n /\ i \in 0..n
  OBVIOUS
<1>2. h \in Stage[0]
  OBVIOUS
<1>3. ASSUME NEW i \in 1..n, NEW g \in Stage[i - 1]
      PROVE  IF g.outcome = "running" THEN Op(g, context, seq[i]) \in Stage[i]
                                      ELSE g \in Stage[i]
  BY <1>1
<1>4. Loop(context, h, seq) \in Stage[n]
  <2> HIDE DEF Stage
  <2> QED  BY <1>2, <1>3, LoopEndsInItsLastStage
<1> QED  BY <1>4

\* A loop over nothing does nothing.
LEMMA LoopOverNothing ==
  ASSUME NEW context, NEW seq, Len(seq) = 0, NEW h
  PROVE  Loop(context, h, seq) = h
<1>1. PICK after : Loop(context, h, seq) = after[Len(seq)] /\ Passes(after, context, h, seq)
  BY LoopRuns
<1> QED  BY <1>1 DEF Passes

\* The first k passes do nothing, and what comes behind them is treated like the
\* elements of rest.  (Like them only: a body may ignore its element.)
Runs(h) == h.outcome = "running"
DoesNothing(context, h, seq, k) == \A i \in 1..k : Op(h, context, seq[i]) = h
Behind(context, seq, k, rest) ==
  \A i \in 1..Len(rest) : \A g : Op(g, context, seq[i + k]) = Op(g, context, rest[i])

\* A loop that does nothing with its first k elements is the loop over the rest.
THEOREM LoopSkips ==
  ASSUME NEW context, NEW seq, Len(seq) \in Nat, NEW rest, Len(rest) \in Nat, NEW h,
         NEW k \in Nat, Len(seq) = k + Len(rest),
         DoesNothing(context, h, seq, k), Behind(context, seq, k, rest)
  PROVE  Loop(context, h, seq) = Loop(context, h, rest)
<1> DEFINE n == Len(seq)
           r == Len(rest)
<1>0. PICK after : Loop(context, h, rest) = after[r] /\ Passes(after, context, h, rest)
  BY LoopRuns
<1>1. /\ Loop(context, h, rest) = after[r] /\ after[0] = h
      /\ \A i \in 1..r : after[i] = IF after[i - 1].outcome = "running"
                                     THEN Op(after[i - 1], context, rest[i]) ELSE after[i - 1]
  BY <1>0 DEF Passes
<1> DEFINE Stage == [i \in 0..n |-> IF i <= k THEN {h} ELSE {after[i - k]}]
<1>2. /\ \A i \in 0..k : i \in 0..n /\ Stage[i] = {h}
      /\ \A i \in 0..r : i + k \in 0..n /\ Stage[i + k] = {after[i]}
  <2>1. \A i \in 0..k : i \in 0..n /\ i <= k
    OBVIOUS
  <2>2. \A i \in 1..r : i + k \in 0..n /\ ~ (i + k <= k) /\ (i + k) - k = i
    OBVIOUS
  <2>3. Stage[0 + k] = {after[0]}
    BY <1>1, <2>1
  <2>4. \A i \in 0..k : Stage[i] = {h}
    BY <2>1
  <2>5. \A i \in 1..r : Stage[i + k] = {after[i]}
    BY <2>2
  <2> HIDE DEF Stage
  <2> QED  BY <2>1, <2>2, <2>3, <2>4, <2>5
<1> HIDE DEF Stage
<1>3. ASSUME NEW i \in 1..n, NEW g \in Stage[i - 1]
      PROVE  IF g.outcome = "running" THEN Op(g, context, seq[i]) \in Stage[i]
                                      ELSE g \in Stage[i]
  <2>1. CASE i <= k
    <3>1. i \in 1..k /\ i \in 0..k /\ i - 1 \in 0..k
      BY <2>1
    <3>2. g = h /\ Stage[i] = {h}
      BY <1>2, <3>1
    <3> QED  BY <3>1, <3>2 DEF DoesNothing
  <2>2. CASE i > k
    <3>1. PICK j \in 1..r : i = j + k
      <4>1. i - k \in 1..r /\ i = (i - k) + k
        BY <2>2
      <4> QED  BY <4>1
    <3>2. j - 1 \in 0..r /\ j \in 0..r /\ i - 1 = (j - 1) + k
      BY <3>1
    <3>3. g = after[j - 1] /\ Stage[i] = {after[j]}
      BY <1>2, <3>1, <3>2
    <3>4. Op(g, context, seq[i]) = Op(g, context, rest[j])
      BY <3>1 DEF Behind
    <3> QED  BY <1>1, <3>1, <3>3, <3>4
  <2> QED  BY <2>1, <2>2
<1>4. Loop(context, h, seq) \in Stage[n]
  <2>1. h \in Stage[0]
    BY <1>2
  <2> QED  BY <1>3, <2>1, LoopEndsInItsLastStage
<1>5. r \in 0..r /\ n = r + k
  OBVIOUS
<1> QED  BY <1>1, <1>2, <1>4, <1>5

\* A loop is its first pass and then the loop over the rest.
THEOREM LoopBegins ==
  ASSUME NEW context, NEW seq, Len(seq) \in Nat, NEW rest, Len(rest) \in Nat, NEW h,
         Len(seq) = 1 + Len(rest), Runs(h), Behind(context, seq, 1, rest)
  PROVE  Loop(context, h, seq) = Loop(context, Op(h, context, seq[1]), rest)
<1> DEFINE n == Len(seq)
           r == Len(rest)
           first == Op(h, context, seq[1])
<1>0. PICK after : Loop(context, first, rest) = after[r] /\ Passes(after, context, first, rest)
  <2> HIDE DEF first
  <2> QED  BY LoopRuns
<1>1. /\ Loop(context, first, rest) = after[r] /\ after[0] = first
      /\ \A i \in 1..r : after[i] = IF after[i - 1].outcome = "running"
                                     THEN Op(after[i - 1], context, rest[i]) ELSE after[i - 1]
  BY <1>0 DEF Passes
<1> DEFINE Stage == [i \in 0..n |-> IF i = 0 THEN {h} ELSE {after[i - 1]}]
<1>2. Stage[0] = {h} /\ \A i \in 1..n : Stage[i] = {after[i - 1]}
  BY n \in Nat
<1> HIDE DEF Stage
<1>3. ASSUME NEW i \in 1..n, NEW g \in Stage[i - 1]
      PROVE  IF g.outcome = "running" THEN Op(g, context, seq[i]) \in Stage[i]
                                      ELSE g \in Stage[i]
  <2>1. CASE i = 1
    <3>1. g = h /\ Stage[i] = {first}
      BY <1>1, <1>2, <2>1
    <3> QED  BY <2>1, <3>1 DEF Runs
  <2>2. CASE i # 1
    <3>1. PICK j \in 1..r : i = j + 1
      <4>1. i - 1 \in 1..r /\ i = (i - 1) + 1
        BY <2>2
      <4> QED  BY <4>1
    <3>2. i - 1 \in 1..n /\ i \in 1..n /\ (i - 1) - 1 = j - 1 /\ i - 1 = j
      BY <3>1
    <3>3. g = after[j - 1] /\ Stage[i] = {after[j]}
      BY <1>2, <3>2
    <3>4. Op(g, context, seq[i]) = Op(g, context, rest[j])
      BY <3>1 DEF Behind
    <3> HIDE DEF first
    <3> QED  BY <1>1, <3>1, <3>3, <3>4
  <2> QED  BY <2>1, <2>2
<1>4. Loop(context, h, seq) \in Stage[n]
  <2>1. h \in Stage[0]
    BY <1>2
  <2> QED  BY <1>3, <2>1, LoopEndsInItsLastStage
<1>5. n \in 1..n /\ n - 1 = r
  OBVIOUS
<1>6. Loop(context, h, seq) = Loop(context, first, rest)
  <2> HIDE DEF first
  <2> QED  BY <1>1, <1>2, <1>4, <1>5
<1> QED  BY <1>6

------------------------------------------------------------------------------
(* Loops that have come to their k-th element. *)

\* The rest of a sequence.
LEMMA RestOfASequence ==
  ASSUME NEW T, NEW seq \in Seq(T), NEW k \in 1..(Len(seq) + 1)
  PROVE  /\ Len(SubSeq(seq, k, Len(seq))) = Len(seq) - k + 1
         /\ Len(SubSeq(seq, k, Len(seq))) \in Nat
         /\ \A i \in 1..(Len(seq) - k + 1) : SubSeq(seq, k, Len(seq))[i] = seq[k + i - 1]
OBVIOUS

\* Nothing is left of a loop that has come to its end.
LEMMA LoopIsOver ==
  ASSUME NEW context, NEW T, NEW seq \in Seq(T), NEW h
  PROVE  Loop(context, h, SubSeq(seq, Len(seq) + 1, Len(seq))) = h
<1>1. PICK rest : rest = SubSeq(seq, Len(seq) + 1, Len(seq))
  OBVIOUS
<1>2. Len(rest) = 0
  BY <1>1
<1>3. Loop(context, h, rest) = h
  BY <1>2, LoopOverNothing
<1> QED  BY <1>1, <1>3

\* A loop that begins has everything before it.
LEMMA LoopIsWhole ==
  ASSUME NEW context, NEW T, NEW seq \in Seq(T), NEW h
  PROVE  Loop(context, h, SubSeq(seq, 1, Len(seq))) = Loop(context, h, seq)
<1>1. SubSeq(seq, 1, Len(seq)) = seq
  OBVIOUS
<1> QED  BY <1>1

\* A loop goes on with its next element.
THEOREM LoopGoesOn ==
  ASSUME NEW context, NEW T, NEW seq \in Seq(T), NEW k \in 1..Len(seq),
         NEW h, h.outcome = "running"
  PROVE  Loop(context, h, SubSeq(seq, k, Len(seq)))
           = Loop(context, Op(h, context, seq[k]), SubSeq(seq, k + 1, Len(seq)))
<1>1. PICK all : all = SubSeq(seq, k, Len(seq))
  OBVIOUS
<1>2. PICK rest : rest = SubSeq(seq, k + 1, Len(seq))
  OBVIOUS
<1>3. k + 1 \in 1..(Len(seq) + 1) /\ k \in 1..(Len(seq) + 1) /\ Len(seq) \in Nat
  OBVIOUS
<1>4. /\ Len(all) = Len(seq) - k + 1 /\ Len(all) \in Nat
      /\ \A i \in 1..(Len(seq) - k + 1) : all[i] = seq[k + i - 1]
  BY <1>1, <1>3, RestOfASequence
<1>5. /\ Len(rest) = Len(seq) - (k + 1) + 1 /\ Len(rest) \in Nat
      /\ \A i \in 1..(Len(seq) - (k + 1) + 1) : rest[i] = seq[(k + 1) + i - 1]
  BY <1>2, <1>3, RestOfASequence
<1>6. Len(all) = 1 + Len(rest) /\ all[1] = seq[k]
  BY <1>3, <1>4, <1>5
<1>7. \A i \in 1..Len(rest) : all[i + 1] = rest[i]
  <2> SUFFICES ASSUME NEW i \in 1..Len(rest) PROVE all[i + 1] = rest[i]
    OBVIOUS
  <2>1. i + 1 \in 1..(Len(seq) - k + 1) /\ k + (i + 1) - 1 = (k + 1) + i - 1
    BY <1>3, <1>5
  <2> QED  BY <1>4, <1>5, <2>1
<1>8. Behind(context, all, 1, rest) /\ Runs(h)
  BY <1>7 DEF Behind, Runs
<1>9. Loop(context, h, all) = Loop(context, Op(h, context, all[1]), rest)
  BY <1>4, <1>5, <1>6, <1>8, LoopBegins
<1> QED  BY <1>1, <1>2, <1>6, <1>9

\* A loop that does nothing with its next elements goes on behind them.
THEOREM LoopPassesOver ==
  ASSUME NEW context, NEW T, NEW seq \in Seq(T), NEW j \in 1..(Len(seq) + 1),
         NEW k \in j..(Len(seq) + 1), NEW h,
         \A i \in j..(k - 1) : Op(h, context, seq[i]) = h
  PROVE  Loop(context, h, SubSeq(seq, j, Len(seq))) = Loop(context, h, SubSeq(seq, k, Len(seq)))
<1>1. PICK all : all = SubSeq(seq, j, Len(seq))
  OBVIOUS
<1>2. PICK rest : rest = SubSeq(seq, k, Len(seq))
  OBVIOUS
<1>3. k \in 1..(Len(seq) + 1) /\ Len(seq) \in Nat /\ k - j \in Nat
  OBVIOUS
<1>4. /\ Len(all) = Len(seq) - j + 1 /\ Len(all) \in Nat
      /\ \A i \in 1..(Len(seq) - j + 1) : all[i] = seq[j + i - 1]
  BY <1>1, RestOfASequence
<1>5. /\ Len(rest) = Len(seq) - k + 1 /\ Len(rest) \in Nat
      /\ \A i \in 1..(Len(seq) - k + 1) : rest[i] = seq[k + i - 1]
  BY <1>2, <1>3, RestOfASequence
<1>6. PICK skipped \in Nat : skipped = k - j
  BY <1>3
<1>7. Len(all) = skipped + Len(rest)
  BY <1>3, <1>4, <1>5, <1>6
<1>8. ASSUME NEW i \in 1..skipped
      PROVE  Op(h, context, all[i]) = h
  <2>1. i \in 1..(Len(seq) - j + 1) /\ j + i - 1 \in j..(k - 1)
    BY <1>3, <1>6
  <2> QED  BY <1>4, <2>1
<1>9. ASSUME NEW i \in 1..Len(rest)
      PROVE  all[i + skipped] = rest[i]
  <2>1. i + skipped \in 1..(Len(seq) - j + 1) /\ j + (i + skipped) - 1 = k + i - 1
    BY <1>3, <1>5, <1>6
  <2> QED  BY <1>4, <1>5, <2>1
<1>10. DoesNothing(context, h, all, skipped) /\ Behind(context, all, skipped, rest)
  BY <1>8, <1>9 DEF DoesNothing, Behind
<1>11. Loop(context, h, all) = Loop(context, h, rest)
  BY <1>4, <1>5, <1>7, <1>10, LoopSkips
<1> QED  BY <1>1, <1>2, <1>11

==============================================================================
