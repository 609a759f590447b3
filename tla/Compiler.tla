------------------------------- MODULE Compiler -------------------------------
(***************************************************************************)
(* The compiler's pipeline as a function, for the modules that load        *)
(* scripts: src/src/compiler/compile-script.ts, compile-script-against-    *)
(* runtime-world.ts and compile-do-statement-source-line.ts.               *)
(***************************************************************************)
EXTENDS Binder, TypeChecker, SemanticChecker, Lowering

\* What the runtime already holds, seen by a script of its own.
NoAmbient == [refs |-> <<>>, vars |-> {}, consts |-> <<>>, paths |-> {}]
EmptyScript == "compiler.empty_script"

\* The report of the checks on a bound program.
Checked(bound, paths, types) == IF types # <<>> THEN types ELSE SemanticCheck(bound, paths)

Reported(binding, ambient) ==
  IF binding.report # <<>> THEN binding.report
  ELSE Checked(binding.program[1], ambient.paths, TypeCheck(binding.program[1]))

\* A program, or the report of the first pass that has one.
Lowered(binding, report) ==
  [report |-> report, program |-> IF report = <<>> THEN <<Lower(binding.program[1])>> ELSE <<>>]

CompileBound(binding, ambient) == Lowered(binding, Reported(binding, ambient))

Compile(program, ambient) ==
  IF program = <<>> THEN [report |-> <<EmptyScript>>, program |-> <<>>]
  ELSE CompileBound(Bind(program, ambient), ambient)

\* A `do` line of the terminal is the body of a periodic task in a script of
\* its own: it sees nothing the runtime holds.
DoLineScript(line) ==
  <<[kind |-> "task", name |-> "__interactive_do_line", schedule |-> "every", interval |-> 1,
     unit |-> "ms", membership |-> <<>>, target |-> <<>>, event |-> "", body |-> <<line>>]>>

\* The lines of a task body typed at the terminal, up to one with a report.
WithLine(acc, result) ==
  CASE acc.report # <<>> -> acc
    [] acc.report = <<>> /\ result.report # <<>> -> [acc EXCEPT !.report = result.report]
    [] OTHER -> [acc EXCEPT !.statements = Append(@, result.program[1].every[1].statements[1])]

CompileDoLines(lines) ==
  FoldLeft(LAMBDA acc, line : WithLine(acc, Compile(DoLineScript(line), NoAmbient)),
           [report |-> <<>>, statements |-> <<>>], lines)
=============================================================================
