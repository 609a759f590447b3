---------------------------- MODULE CompileScript ----------------------------
(***************************************************************************)
(* The compiler's pipeline (src/src/compiler/compile-script.ts), from the  *)
(* text of WrittenScript up to the initial values the runtime gives the    *)
(* program.  Each pass runs only when the one before it had nothing to     *)
(* report.  Ambient is what a runtime the script is compiled against       *)
(* already holds; for a script of its own it is NoAmbient.                 *)
(***************************************************************************)
EXTENDS Compiler, Evaluation, WrittenScript

CONSTANT Ambient   \* refs, vars, consts and state paths of the runtime

VARIABLES source, stage, bound, compiled, report, values

results == <<source, bound, compiled, report, values>>
vars == <<writing, stage, results>>

Init ==
  /\ Begin
  /\ stage = "written"
  /\ source = <<>> /\ bound = <<>> /\ compiled = <<>> /\ report = <<>>
  /\ values = [vars |-> <<>>, consts |-> <<>>]

Write == stage = "written" /\ Type /\ UNCHANGED <<stage, results>>

\* A pass either reports, which ends the compilation, or hands on.
Passed(from, to, faults) ==
  /\ stage = from
  /\ report' = faults
  /\ stage' = IF faults = <<>> THEN to ELSE "rejected"
  /\ UNCHANGED writing

\* The editor's text is parsed whenever somebody runs it.
ParseText ==
  /\ entry = "script"
  /\ Passed("written", "parsed", IF outcome.fault = "" THEN <<>> ELSE <<outcome.fault>>)
  /\ source' = outcome.tree
  /\ UNCHANGED <<bound, compiled, values>>

RejectEmptyScript ==
  /\ source = <<>>
  /\ Passed("parsed", "bound", <<EmptyScript>>)
  /\ UNCHANGED <<source, bound, compiled, values>>

BindNames ==
  /\ source # <<>>
  /\ LET result == Bind(source, Ambient)
     IN Passed("parsed", "bound", result.report) /\ bound' = result.program
  /\ UNCHANGED <<source, compiled, values>>

CheckTypes ==
  /\ stage = "bound"
  /\ Passed("bound", "typed", TypeCheck(bound[1]))
  /\ UNCHANGED <<source, bound, compiled, values>>

CheckSemantics ==
  /\ stage = "typed"
  /\ Passed("typed", "checked", SemanticCheck(bound[1], Ambient.paths))
  /\ UNCHANGED <<source, bound, compiled, values>>

LowerProgram ==
  /\ stage = "checked"
  /\ Passed("checked", "lowered", <<>>)
  /\ compiled' = <<Lower(bound[1])>>
  /\ UNCHANGED <<source, bound, values>>

\* The runtime evaluates the initializers when it takes the program over.
LoadProgram ==
  /\ stage = "lowered"
  /\ Passed("lowered", "loaded", <<>>)
  /\ values' = InitialValues(compiled[1],
                 [vars |-> <<>>, consts |-> <<>>, elapsed |-> <<>>, readings |-> <<>>])
  /\ UNCHANGED <<source, bound, compiled>>

Next == \/ Write \/ ParseText \/ RejectEmptyScript \/ BindNames \/ CheckTypes
        \/ CheckSemantics \/ LowerProgram \/ LoadProgram

Spec == Init /\ [][Next]_vars

-----------------------------------------------------------------------------
(* Properties of the scripts the compiler lets through.                    *)

Accepted == stage \in {"lowered", "loaded"}
CompiledTasks == LET p == compiled[1] IN p.every \o p.loops \o p.on

\* Every pass through the body of a loop task executes a wait: the wait that
\* the semantic check finds is never in a branch, which the type check
\* refuses.  The scheduler's statement budget is for broken programs only.
LoopsAlwaysWait ==
  Accepted => \A t \in ToSet(compiled[1].loops) :
                \E i \in DOMAIN t.statements : t.statements[i].kind = "wait"

\* At most one task assigns a variable, through whatever branches, and the
\* writer table handed to the runtime names it.
OneWriterPerVariable ==
  Accepted =>
    \A t \in ToSet(CompiledTasks) : \A v \in Assigned(t.statements) :
      v \in DOMAIN compiled[1].writers /\ compiled[1].writers[v] = t.name

\* The temporaries a body reads before every path to the reading assigns them.
RECURSIVE UnassignedReads(_, _)
UnassignedReads(body, assigned) ==
  IF body = <<>> THEN {}
  ELSE LET s == Head(body)
           reads == {e.name : e \in {x \in UNION {ToSet(Subexpressions(s.args[i])) : i \in DOMAIN s.args} :
                                       x.kind = "temp"}}
       IN (reads \ assigned)
          \cup UNION {UnassignedReads(s.branches[b], assigned) : b \in DOMAIN s.branches}
          \cup UnassignedReads(Tail(body),
                               IF s.kind = "temp" THEN assigned \cup {s.name} ELSE assigned)

\* No statement reads a temporary that some way to it leaves unassigned.
TemporariesAreAssigned ==
  Accepted => \A t \in ToSet(CompiledTasks) : UnassignedReads(t.statements, {}) = {}

LeavesOf(machine) == {n.path : n \in {m \in machine.nodes : m.children = <<>>}}

\* `initial`s followed from a state of a machine, as often as it has states.
EventualLeaf(machine, target) ==
  LET below(path) == UNION {ToSet(n.initial) : n \in {m \in machine.nodes :
                               m.path = path /\ m.children # <<>>}}
      down[k \in 0..Cardinality(machine.nodes)] ==
        IF k = 0 THEN target
        ELSE IF below(down[k - 1]) = {} THEN down[k - 1]
        ELSE CHOOSE path \in below(down[k - 1]) : TRUE
  IN down[Cardinality(machine.nodes)]

Targets(machine) ==
  {t.target : t \in UNION ({ToSet(machine.transitions)} \cup {ToSet(n.transitions) : n \in machine.nodes})}

\* A machine starts in a leaf, and every transition of it, wherever it is
\* declared, leads down to a leaf of the same machine; a task lives in, and
\* waits for, states that some machine has.
StatesResolve ==
  Accepted =>
    /\ \A m \in ToSet(compiled[1].machines) :
         /\ m.initial \in LeavesOf(m)
         /\ \A target \in Targets(m) : EventualLeaf(m, target) \in LeavesOf(m)
    /\ \A t \in ToSet(CompiledTasks) : \A path \in ToSet(t.membership) :
         \E m \in ToSet(compiled[1].machines) : \E n \in m.nodes : IsPrefix(path, n.path)

\* A value the runtime holds after loading has the kind the type checker
\* computed for its name: what it accepts for a name is what the name holds.
ValuesHaveTheirKinds ==
  stage = "loaded" =>
    \A name \in DOMAIN values.vars :
      values.vars[name].tag = ValueKinds(bound[1])[name]
=============================================================================
