--------------------------- MODULE CooperativeTasks ---------------------------
(***************************************************************************)
(* What the scheduler promises to a task body, without saying when bodies  *)
(* are started: at most one body executes; while it does, time stands      *)
(* still and no other body moves; it gives up the processor by ending or   *)
(* by waiting; a waiting body continues where it stopped, and not before   *)
(* its time.  Only a lifecycle task may be started over while it waits.    *)
(***************************************************************************)
EXTENDS Integers

CONSTANTS Tasks, Restartable  \* the lifecycle tasks

VARIABLES
  now,
  executing,   \* the set of tasks whose body executes
  wakeAt       \* task -> when its wait is over, 0 when it does not wait

vars == <<now, executing, wakeAt>>

Init ==
  /\ now \in Nat
  /\ executing = {}
  /\ wakeAt = [task \in Tasks |-> 0]

\* A body that is not waiting is started, or continued at a loop's start.
Begin(task) ==
  /\ executing = {}
  /\ wakeAt[task] = 0 \/ task \in Restartable
  /\ executing' = {task}
  /\ wakeAt' = [wakeAt EXCEPT ![task] = 0]
  /\ UNCHANGED now

Continue(task) ==
  /\ executing = {}
  /\ wakeAt[task] # 0 /\ wakeAt[task] <= now
  /\ executing' = {task}
  /\ wakeAt' = [wakeAt EXCEPT ![task] = 0]
  /\ UNCHANGED now

WaitFor(task) ==
  /\ executing = {task}
  /\ executing' = {}
  /\ wakeAt'[task] \in Nat /\ wakeAt'[task] > now
  /\ wakeAt' = [wakeAt EXCEPT ![task] = wakeAt'[task]]
  /\ UNCHANGED now

End(task) ==
  /\ executing = {task}
  /\ executing' = {}
  /\ UNCHANGED <<now, wakeAt>>

\* A lifecycle task whose state is gone is given up without executing.
GiveUp(task) ==
  /\ executing = {} /\ task \in Restartable
  /\ wakeAt' = [wakeAt EXCEPT ![task] = 0]
  /\ UNCHANGED <<now, executing>>

Advance ==
  /\ executing = {}
  /\ now' \in Nat /\ now' >= now
  /\ UNCHANGED <<executing, wakeAt>>

Next ==
  \/ \E task \in Tasks :
       Begin(task) \/ Continue(task) \/ WaitFor(task) \/ End(task) \/ GiveUp(task)
  \/ Advance

Spec == Init /\ [][Next]_vars

==============================================================================
