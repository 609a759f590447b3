--------------------------- MODULE LifecycleHistory ---------------------------
(***************************************************************************)
(* SimulationRuntime with one history variable: the states whose enter     *)
(* hook was performed and whose exit hook was not, each with the time of   *)
(* its enter.  This is the picture of the state machine a script gets from *)
(* its `on enter` and `on exit` tasks alone; the properties relate it to   *)
(* what the runtime believes (activeLeaf and entryTime).                   *)
(***************************************************************************)
EXTENDS SimulationRuntime

VARIABLE entered

PerformedHook == IF plan # << >> /\ plan' = Tail(plan) THEN plan[1].hook ELSE "none"

Record ==
  entered' =
    CASE PerformedHook = "enter" ->
           [path \in DOMAIN entered \cup {plan[1].path} |->
              IF path = plan[1].path THEN total ELSE entered[path]]
      [] PerformedHook = "exit" ->
           [path \in DOMAIN entered \ {plan[1].path} |-> entered[path]]
      [] OTHER -> entered

HistoryInit == Init /\ entered = << >>
HistoryNext == Next /\ Record
HistorySpec == HistoryInit /\ [][HistoryNext]_<<vars, entered>>

ActiveStates == UNION {PrefixSet(activeLeaf[machine]) : machine \in Machines}

\* Between two calls exactly the active states have been entered and not left,
\* and their elapsed attribute counts from the moment their enter tasks ran.
HooksMatchActiveStates ==
  phase = "idle" =>
    /\ DOMAIN entered = ActiveStates
    /\ \A path \in DOMAIN entered : entered[path] = entryTime[path]

\* At every moment, also in the middle of a transition, an entered state lies
\* in entered states only: exit goes from the inside out, enter from the
\* outside in, and no state is skipped.
EnteredStatesAreNested ==
  \A path \in DOMAIN entered : PrefixSet(path) \subseteq DOMAIN entered

\* Hooks alternate: no state is entered twice without an exit between, and no
\* state is left that was not entered.
HooksAlternate ==
  [][ /\ PerformedHook = "enter" => plan[1].path \notin DOMAIN entered
      /\ PerformedHook = "exit" => plan[1].path \in DOMAIN entered
    ]_<<vars, entered>>

==============================================================================
