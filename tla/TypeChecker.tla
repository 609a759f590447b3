----------------------------- MODULE TypeChecker -----------------------------
(***************************************************************************)
(* Types of a bound program: src/src/compiler/type-checker.ts.  A value is *)
(* an integer or a string; an expression whose kind cannot be inferred has *)
(* NoKind and is rejected only where a kind is demanded.  All faults are   *)
(* collected.                                                              *)
(***************************************************************************)
EXTENDS ScriptTree

NoKind == "none"
ArgumentMismatch == "type.argument_type_mismatch"
TimeMisplaced == "type.animator_time_expression_invalid_context"
BranchUnsupported == "match.branch_unsupported_statement"
PercentOutOfRange == "type.percent_literal_out_of_range"
UnitMismatch == "unit.type_mismatch"

Lookup(kinds, name) == IF name \in DOMAIN kinds THEN kinds[name] ELSE NoKind

-----------------------------------------------------------------------------
(* The kind of an expression, in an environment that knows the kinds of    *)
(* the variables and temporaries and the initial values of the constants.  *)

ReadKind(device, property) ==
  CASE device.kind = "adc" -> IF property = "info" THEN "string" ELSE "integer"
    [] device.kind \in {"imu", "motor", "servo", "pwm"} /\ property = "info" -> "string"
    [] device.kind = "imu" /\ property \in {"roll", "pitch", "yaw", "accel_x", "accel_y", "accel_z"}
         -> "integer"
    [] device.kind = "motor" /\ property \in {"", "power"} -> "integer"
    [] device.kind = "servo" /\ property \in {"", "angle"} -> "integer"
    [] device.kind = "pwm" /\ property \in {"", "level"} -> "integer"
    [] OTHER -> NoKind

\* Mutant: one result whose kind is known is enough.
SomeKind(kinds) ==
  LET known == kinds \ {NoKind} IN IF known # {} THEN CHOOSE k \in known : TRUE ELSE NoKind

\* The result kinds of a match expression that can be inferred agree.
AgreedKind(kinds) ==
  LET known == kinds \ {NoKind}
  IN IF Cardinality(known) = 1 THEN CHOOSE k \in known : TRUE ELSE NoKind

Results(e) == {Last(e.args[i].args) : i \in 2..Len(e.args)}

RECURSIVE Infer(_, _)
Infer(e, env) ==
  CASE e.kind \in {"int", "percent", "dt", "step", "elapsed", "comparison"} -> "integer"
    [] e.kind = "string" -> "string"
    [] e.kind = "var" -> Lookup(env.vars, e.name)
    [] e.kind = "temp" -> Lookup(env.temps, e.name)
    [] e.kind = "const" -> Infer(SelectSeq(env.consts, LAMBDA c : c.name = e.name)[1].initial, env)
    [] e.kind \in Arithmetic
         -> IF \A i \in DOMAIN e.args : Infer(e.args[i], env) = "integer" THEN "integer" ELSE NoKind
    [] e.kind = "minus" -> Infer(e.args[1], env)
    [] e.kind = "match" -> AgreedKind({Infer(r, env) : r \in Results(e)})
    [] e.kind = "read" -> ReadKind(e.device, e.property)

\* dt and step are for periodic tasks.  The walk does not enter a match
\* expression.
RECURSIVE TimeFaults(_)
TimeFaults(e) ==
  IF e.kind \in Arithmetic \cup {"minus", "comparison", "step", "dt"}
  THEN FlattenSeq([i \in DOMAIN e.args |-> TimeFaults(e.args[i])])
       \o IF e.kind \in {"step", "dt"} THEN <<TimeMisplaced>> ELSE <<>>
  ELSE <<>>

TimeFaultsInAll(es) == FlattenSeq([i \in DOMAIN es |-> TimeFaults(es[i])])

\* Percentages lie in 0..100; comparisons and match expressions are not entered.
RECURSIVE PercentFaults(_)
PercentFaults(e) ==
  IF e.kind = "percent" THEN IF e.value \in 0..100 THEN <<>> ELSE <<PercentOutOfRange>>
  ELSE IF e.kind \in Arithmetic \cup {"minus", "step"}
  THEN FlattenSeq([i \in DOMAIN e.args |-> PercentFaults(e.args[i])])
  ELSE <<>>

-----------------------------------------------------------------------------
(* Statements.  ctx.place says whether a statement lies in a task's body,  *)
(* in a branch of an `if`, or in a branch of a `match`.                    *)

Methods == [adc |-> <<>>, button |-> <<>>, imu |-> <<>>,
  display |-> [circle |-> 3, clear |-> 0, line |-> 4, pixel |-> 2, present |-> 0, text |-> 3],
  led |-> [off |-> 0, on |-> 0, toggle |-> 0], motor |-> [power |-> 1], pwm |-> [level |-> 1],
  serial |-> [println |-> 1], servo |-> [angle |-> 1]]

Restricted(ctx) == ctx.schedule # "every"

IntegerParameters(method) ==
  CASE method = "circle" -> 1..3 [] method = "pixel" -> 1..2
    [] method = "line" -> 1..4 [] method = "text" -> 1..2 [] OTHER -> {}

DisplayFaults(s, env) ==
  IF \/ \E i \in IntegerParameters(s.method) : Infer(s.args[i], env) # "integer"
     \/ (s.method = "text" /\ Infer(s.args[3], env) # "string")
  THEN <<ArgumentMismatch>> ELSE <<>>

\* println and display return before the check of dt and step.
CallFaults(s, ctx, env) ==
  LET methods == Methods[s.device.kind]
  IN CASE s.method \notin DOMAIN methods -> <<"type.method_not_found">>
       [] Len(s.args) # methods[s.method] -> <<"type.method_arity_mismatch">>
       [] s.device.kind = "serial"
            -> IF Infer(s.args[1], env) = NoKind THEN <<ArgumentMismatch>> ELSE <<>>
       [] s.device.kind = "display" -> DisplayFaults(s, env)
       [] OTHER ->
            (IF s.device.kind = "pwm" /\ Infer(s.args[1], env) # "integer"
             THEN <<ArgumentMismatch>> ELSE <<>>)
            \o IF Restricted(ctx) THEN TimeFaultsInAll(s.args) ELSE <<>>

SetFaults(s, ctx, env) ==
  LET expected == Lookup(env.vars, s.name)
      actual == Infer(s.args[1], env)
  IN (IF Restricted(ctx) THEN TimeFaultsInAll(s.args) ELSE <<>>)
     \o IF NoKind \notin {expected, actual} /\ expected # actual THEN <<ArgumentMismatch>> ELSE <<>>

\* Mutant: a wait is refused in the branches of a match only.
WaitFaultsInMatchOnly(s, ctx, env) ==
  IF ctx.place = "match" THEN <<BranchUnsupported>> ELSE TimeFaultsInAll(s.args)

WaitFaults(s, ctx, env) ==
  IF ctx.place # "body" THEN <<BranchUnsupported>>
  ELSE TimeFaultsInAll(s.args) \o PercentFaults(s.args[1])
       \o IF Infer(s.args[1], env) = "string" THEN <<ArgumentMismatch>> ELSE <<>>

\* Temporaries and conditions are checked for dt and step in every task when
\* they lie in a branch of a match.
TimedFaults(s, ctx) ==
  IF Restricted(ctx) \/ ctx.place = "match" THEN TimeFaultsInAll(s.args) ELSE <<>>

EnvAfter(s, env) ==
  IF s.kind = "temp" /\ Infer(s.args[1], env) # NoKind
  THEN [env EXCEPT !.temps = (s.name :> Infer(s.args[1], env)) @@ @] ELSE env

RECURSIVE BodyTypeFaults(_, _, _)
BranchTypeFaults(s, ctx, env) ==
  FlattenSeq([b \in DOMAIN s.branches |-> BodyTypeFaults(s.branches[b], ctx, env)])

StatementTypeFaults(s, ctx, env) ==
  CASE s.kind = "do" -> CallFaults(s, ctx, env)
    [] s.kind = "set" -> SetFaults(s, ctx, env)
    [] s.kind = "wait" -> WaitFaults(s, ctx, env)
    [] s.kind = "temp" -> TimedFaults(s, ctx)
    [] s.kind = "if" ->
         TimedFaults(s, ctx)
         \o BranchTypeFaults(s, [ctx EXCEPT !.place = IF @ = "match" THEN "match" ELSE "if"], env)
    [] s.kind = "match" /\ ctx.place = "match" -> <<BranchUnsupported>>
    [] s.kind = "match" /\ ctx.place # "match" ->
         (IF Infer(s.args[1], env) # "string" THEN <<"match.target_requires_string">> ELSE <<>>)
         \o (IF Restricted(ctx) THEN TimeFaultsInAll(s.args) ELSE <<>>)
         \o BranchTypeFaults(s, [ctx EXCEPT !.place = "match"], env)

BodyTypeFaults(body, ctx, env) ==
  IF body = <<>> THEN <<>>
  ELSE StatementTypeFaults(Head(body), ctx, env)
       \o BodyTypeFaults(Tail(body), ctx, EnvAfter(Head(body), env))

-----------------------------------------------------------------------------
(* Animators and the program.                                              *)

AnimatorFaults(a) ==
  (IF a.ramp = "from_to" /\ a.from \notin 0..100 THEN <<PercentOutOfRange>> ELSE <<>>)
  \o (IF a.ramp = "from_to" /\ a.to \notin 0..100 THEN <<PercentOutOfRange>> ELSE <<>>)
  \o (IF a.unit # "ms" THEN <<UnitMismatch>> ELSE <<>>)
  \o (IF a.ease \notin {"linear", "ease_in_out"} THEN <<"type.animator_unsupported_ease">> ELSE <<>>)

\* A ramp without fixed ends needs a target, an integer expression in which
\* temporaries are unknown; a ramp with fixed ends takes none.
StepFaults(e, env, program) ==
  LET animator == SelectSeq(program.animators, LAMBDA a : a.name = e.name)[1]
  IN IF e.kind # "step" THEN <<>>
     ELSE (CASE animator.ramp = "over" /\ e.args = <<>> -> <<"type.animator_step_requires_target">>
             [] animator.ramp = "from_to" /\ e.args # <<>> -> <<"type.animator_step_forbids_target">>
             [] OTHER -> <<>>)
          \o IF e.args # <<>> /\ Infer(e.args[1], env) # "integer" THEN <<ArgumentMismatch>> ELSE <<>>

InitializerFaults(value, env) ==
  IF Infer(value.initial, env) = NoKind THEN <<ArgumentMismatch>>
  ELSE PercentFaults(value.initial) \o TimeFaults(value.initial)

\* The kinds of the values, each inferred from those before it.
ValueKinds(program) ==
  FoldLeft(LAMBDA kinds, v :
             LET kind == Infer(v.initial, [vars |-> kinds, temps |-> <<>>, consts |-> program.consts])
             IN IF kind = NoKind THEN kinds ELSE (v.name :> kind) @@ kinds,
           <<>>, program.values)

TasksOf(program) == program.every \o program.loops \o program.on

TypeCheck(program) ==
  LET env == [vars |-> ValueKinds(program), temps |-> <<>>, consts |-> program.consts]
      tasks == TasksOf(program)
      before(k) == [env EXCEPT !.vars = ValueKinds([program EXCEPT !.values = SubSeq(@, 1, k - 1)])]
      isVar(v) == v.kind = "var"
      initials == SelectSeq(program.values, isVar) \o program.consts
      mentioned == FlattenSeq([i \in DOMAIN initials |-> Subexpressions(initials[i].initial)])
                   \o FlattenSeq([i \in DOMAIN tasks |-> ExpressionsIn(tasks[i].statements)])
  IN FlattenSeq([k \in DOMAIN program.values |-> InitializerFaults(program.values[k], before(k))])
     \o FlattenSeq([i \in DOMAIN program.animators |-> AnimatorFaults(program.animators[i])])
     \o FlattenSeq([i \in DOMAIN tasks |->
          (IF tasks[i].schedule = "every" /\ tasks[i].unit # "ms" THEN <<UnitMismatch>> ELSE <<>>)
          \o BodyTypeFaults(tasks[i].statements, [schedule |-> tasks[i].schedule, place |-> "body"], env)])
     \o FlattenSeq([i \in DOMAIN mentioned |-> StepFaults(mentioned[i], env, program)])
=============================================================================
