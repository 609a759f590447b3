--------------------------- MODULE MCCompileScript ---------------------------
(***************************************************************************)
(* Scripts for CompileScript: every sequence of up to two declarations of  *)
(* Pool, alone, after a Base that declares a value of each sort, a ref and *)
(* an animator, and after the same with a machine; and up to three values. *)
(* They are written out, beside the texts of MCWrittenScript.              *)
(***************************************************************************)
EXTENDS CompileScript, MCWrittenScript

Rover == <<"rover">>
Idle == <<"rover", "Idle">>
Drive == <<"rover", "Drive">>
Ahead == <<"rover", "Drive", "Ahead">>
Back == <<"rover", "Drive", "Back">>
Blink == Do(Directly("led"), "toggle", <<>>)
Println(e) == Do(Directly("serial"), "println", <<e>>)

\* Every sort of expression, and values that depend on earlier ones.
Values == {
  Var("x", Number(3)), Var("x", Str("a")), Const("x", Number(1)), Const("k", Op("mul", Number(2), Minus(Number(4)))),
  Var("y", Name("k")), Const("k", Name("x")), Var("y", Percent(120)), Var("y", Dt),
  Var("y", Match(Name("x"), <<Arm("between", <<Number(0), Number(5)>>, Op("div", Number(7), Minus(Number(2)))),
                              Arm("otherwise", <<>>, Number(9))>>)),
  Var("y", Match(Number(1), <<Arm("equal", <<Number(1)>>, Str("one")), Arm("otherwise", <<>>, Number(2))>>)),
  Var("y", Match(Number(1), <<Arm("equal", <<Number(1)>>, Number(2)), Arm("otherwise", <<>>, Str("two"))>>)),
  Var("y", Match(Str("b"), <<Arm("below", <<Number(0)>>, Str("no")), Arm("equal", <<Str("b")>>, Str("yes")),
                             Arm("otherwise", <<>>, Op("add", Str("a"), Number(1)))>>)),
  Var("y", Compare(Name("x"), "<=", Number(3))), Var("y", Read(Device("adc"), "")),
  Var("y", Minus(Str("a"))), Var("y", Op("div", Number(1), Number(0))), Var("y", Elapsed(Idle)),
  Var("y", Compare(Str("a"), "<", Str("b"))), Var("y", Read(Device("imu"), "info"))}

Devices == {
  Ref("lamp", "led"), Ref("lamp", "pwm"), Ref("lamp", "laser"),
  Animator("fade", "over", 0, "ms", "linear"), Animator("fade", "from_to", 130, "deg", "bounce")}

\* A machine whose Drive has the given initial and children.
RoverWith(initial, driveInitial, children, target) ==
  Machine("rover", initial,
    <<On(Compare(Name("x"), ">", Number(2)), target),
      State("Idle", <<>>, <<>>),
      State("Drive", driveInitial, <<On(Compare(Elapsed(Idle), ">=", Number(5)), Idle)>> \o children)>>)
Children == <<State("Ahead", <<>>, <<>>), State("Back", <<>>, <<On(Number(1), Ahead)>>)>>

Machines == {
  RoverWith(Idle, <<Ahead>>, Children, Drive),
  RoverWith(Idle, <<>>, Children, Idle),
  RoverWith(Idle, <<Drive>>, Children, Drive),
  RoverWith(Drive, <<Drive>>, Children, Idle),
  RoverWith(Drive, <<>>, Children, Idle),
  RoverWith(Idle, <<Idle>>, <<State("Ahead", <<>>, <<>>)>>, Back),
  RoverWith(Ahead, <<>>, <<>>, Idle),
  RoverWith(Idle, <<Ahead>>, Children \o <<State("Ahead", <<>>, <<>>)>>, Idle)}

Tasks == {
  Every("beat", 100, "ms", <<>>, <<Set("x", Op("add", Name("x"), Number(1)))>>),
  Every("beat", 0, "ms", <<>>, <<Blink>>),
  Every("pulse", 5, "deg", <<>>, <<Blink>>),
  Every("pulse", 5, "ms", <<>>, <<Do(Directly("pwm"), "level", <<Step("fade", <<Number(80)>>)>>)>>),
  Every("pulse", 5, "ms", <<>>, <<Do(Directly("pwm"), "level", <<Step("fade", <<>>)>>)>>),
  Every("pulse", 5, "ms", <<>>, <<Do(Through("lamp"), "toggle", <<>>), Do(Directly("led"), "dim", <<Number(1)>>)>>),
  Every("shadow", 5, "ms", <<>>, <<Temp("k", Str("t")), MatchStatement(Name("k"), <<"go">>, <<<<Set("x", Dt)>>, <<>>>>)>>),
  Every("leak", 5, "ms", <<>>, <<If(Name("x"), <<Temp("t", Number(1))>>, <<Blink>>), Println(Name("t"))>>),
  Every("leak", 5, "ms", <<>>, <<If(Name("x"), <<Temp("t", Number(1))>>, <<Blink>>), Set("x", Name("t"))>>),
  Every("kinds", 5, "ms", <<>>, <<Set("x", Str("a")), Do(Directly("display"), "text", <<Number(0), Number(0), Number(1)>>)>>),
  Every("fixed", 5, "ms", <<>>, <<Set("k", Number(1))>>),
  Loop("spin", <<>>, <<Set("x", Number(0)), Wait(Number(10))>>),
  Loop("spin", <<>>, <<Blink>>),
  Loop("rest", <<>>, <<If(Name("x"), <<Wait(Number(1))>>, <<Set("x", Number(1))>>)>>),
  Loop("rest", <<>>, <<Println(Dt), MatchStatement(Str("a"), <<"a">>, <<<<Wait(Number(1))>>, <<>>>>), Wait(Str("long"))>>),
  Loop("rest", <<>>, <<Println(Dt), Do(Directly("pwm"), "level", <<Dt>>), Wait(Number(1))>>),
  Hook("welcome", "enter", <<Drive>>, <<If(Elapsed(Back), <<Set("x", Number(7))>>, <<>>)>>),
  Hook("welcome", "exit", <<<<"rover", "Parked">>>>, <<Blink>>),
  Hook("welcome", "enter", <<>>, <<Blink>>),
  OnEvent("press", Through("lamp"), <<Temp("t", Name("x")), Set("x", Name("t"))>>)}

Pool == Values \cup Devices \cup Machines \cup Tasks

Base == <<Var("x", Number(3)), Const("k", Number(2)), Ref("lamp", "led"),
          Animator("fade", "over", 0, "ms", "linear")>>
WithMachine == Append(Base, RoverWith(Idle, <<Ahead>>, Children, Drive))

UpToTwo(set) == {<<>>} \cup {<<d>> : d \in set} \cup {<<d, e>> : d, e \in set}

Scripts ==
  {prefix \o rest : prefix \in {<<>>, Base, WithMachine}, rest \in UpToTwo(Pool)}
  \cup {<<d>> \o rest : d \in Values, rest \in UpToTwo(Values)}

MCMeant == Readings \cup Scripts
=============================================================================
