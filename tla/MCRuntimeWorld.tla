---------------------------- MODULE MCRuntimeWorld ----------------------------
(***************************************************************************)
(* RuntimeWorld with the compiler of this project and a handful of scripts *)
(* that need, contest or repeat each other's names.                        *)
(***************************************************************************)
EXTENDS RuntimeWorld, Compiler, WorldDependencies, Evaluation, ScriptNodes

Idle == <<"rover", "Idle">>
Drive == <<"rover", "Drive">>
Ahead == <<"rover", "Drive", "Ahead">>
Blink == Do(Through("lamp"), "toggle", <<>>)
Lit == Do(Directly("led"), "toggle", <<>>)
Println(e) == Do(Directly("serial"), "println", <<e>>)
Later == Compare(Elapsed(Idle), ">=", Number(5))

MCScripts == {
  <<Var("x", Number(3)), Ref("lamp", "led"),
    Every("beat", 100, "ms", <<>>, <<If(Name("x"), <<Set("x", Number(0))>>, <<Blink>>)>>)>>,
  <<Every("rival", 5, "ms", <<>>, <<Set("x", Number(1))>>)>>,
  <<Ref("lamp", "pwm"), Var("x", Op("div", Number(1), Number(0))),
    Loop("slow", <<>>, <<Set("x", Read(Device("adc"), "")), Wait(Number(10))>>)>>,
  <<Machine("rover", Idle, <<On(Later, Drive), State("Idle", <<>>, <<>>),
      State("Drive", <<Ahead>>, <<State("Ahead", <<>>, <<>>)>>)>>)>>,
  <<Const("k", Number(2)), Hook("welcome", "enter", <<Drive>>, <<Println(Name("k"))>>)>>,
  <<Var("y", Number(1)), Every("watch", 5, "ms", <<>>,
      <<If(Name("y"), <<Set("y", Elapsed(Ahead))>>, <<>>)>>)>>,
  <<Animator("fade", "over", 0, "ms", "linear"),
    Machine("arm", <<"arm", "Up">>, <<State("Up", <<>>, <<On(Compare(Name("x"), ">", Number(2)), <<"arm", "Up">>)>>)>>)>>}

MCRefNames == {"lamp"}
MCVarNames == {"x", "y"}
MCConstNames == {"k"}
MCDevices == {Device("led"), Device("pwm")}
MCPaths == {Idle, Drive, Ahead, <<"arm", "Up">>}
MCTypedNames == {"beat", "typed"}
MCTypedBodies == {<<Lit>>, <<Lit, Do(Directly("led"), "dim", <<>>)>>, <<Blink>>}

\* What the compiler sees of the runtime: constants in a list.
MCCompileAgainst(script, held) ==
  Compile(script, [held EXCEPT !.consts = SetToSeq(@)])

MCInitialNames(program, held, constants) ==
  LET some(set) == [name \in set |-> [tag |-> "integer", value |-> 1]]
      values == InitialValues(program, [vars |-> some(held), consts |-> some(constants),
                                        elapsed |-> <<>>, readings |-> <<>>])
  IN [vars |-> DOMAIN values.vars, consts |-> DOMAIN values.consts]

DeclaredNames(script) == {script[i].name : i \in DOMAIN script}
RegisteredNames == DOMAIN aliases \cup names.vars \cup names.consts \cup DOMAIN writers
                   \cup DOMAIN tasks \cup DOMAIN active \cup animators

\* Refuted: a script that is right on its own, and whose names the runtime
\* does not know, can be added to whatever the runtime holds.
FreshScriptsAreAccepted ==
  \A script \in Scripts :
    LET alone == Compile(script, NoAmbient)
        added == MCCompileAgainst(script, Ambient)
    IN alone.report = <<>> /\ DeclaredNames(script) \cap RegisteredNames = {}
         => added.report = <<>> /\ RegisteredTwice(added.program[1]) = {}
=============================================================================
