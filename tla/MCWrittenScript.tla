--------------------------- MODULE MCWrittenScript ---------------------------
(***************************************************************************)
(* Texts for WrittenScript: expressions of every two levels of operators,  *)
(* one script with every form of declaration and statement, and openings   *)
(* in each part of the grammar.                                            *)
(***************************************************************************)
EXTENDS WrittenScript

Operands == {Name("a"), Number(1)}
Joined(lefts, rights) ==
  {Op(kind, l, r) : kind \in {"add", "sub", "mul", "div"}, l \in lefts, r \in rights}
  \cup {Compare(l, "<", r) : l \in lefts, r \in rights}
OneOperator == Operands \cup Joined(Operands, Operands) \cup {Minus(Name("a"))}
TwoLevels == Joined(OneOperator, OneOperator) \cup {Minus(e) : e \in OneOperator}

Arms == {Arm("equal", <<Number(1)>>, Name("a")), Arm("from", <<Name("a")>>, Percent(5)),
         Arm("below", <<Op("sub", Number(1), Name("a"))>>, Minus(Number(1))),
         Arm("between", <<Minus(Number(5)), Number(10)>>, Number(20))}
Otherwise == Arm("otherwise", <<>>, Number(0))
Special ==
  {Match(Name("a"), <<x>>) : x \in Arms} \cup {Match(Name("a"), <<x, y, Otherwise>>) : x \in Arms, y \in Arms}
  \cup {Step("fade", <<>>), Step("fade", <<Op("add", Dt, Number(1))>>), Step("fade", <<Step("fade", <<Name("a")>>)>>),
        Elapsed(<<"m", "s">>), Read(Device("adc"), ""), Op("mul", Read(Device("imu"), "ax"), Dt),
        Compare(Match(Name("a"), <<>>), "!=", Str("x"))}

Expressions == TwoLevels \cup Special

Whole == <<
  Ref("lamp", "led"), Const("k", Number(2)), Ramp("fade", "from_to", 10, 90, 100, "ms", "linear"),
  Animator("glow", "over", 0, "deg", "linear"),
  Machine("m", <<"m", "a">>,
    <<On(Compare(Name("x"), ">", Number(2)), <<"m", "b">>), State("a", <<>>, <<>>),
      State("b", <<<<"m", "b", "c">>>>, <<State("c", <<>>, <<On(Name("x"), <<"m", "a">>)>>), State("d", <<>>, <<>>)>>)>>),
  Every("beat", 10, "ms", <<>>, <<Set("x", Read(Device("adc"), "")), Do(Through("lamp"), "on", <<>>), Temp("t", Name("x")),
     If(Name("t"), <<Wait(Op("add", Number(1), Name("t")))>>, <<>>),
     If(Name("t"), <<>>, <<If(Name("x"), <<Set("x", Number(1))>>, <<Set("x", Number(2))>>)>>)>>),
  Loop("spin", <<<<"m", "b">>>>, <<MatchStatement(Str("s"), <<"s", "t">>, <<<<Wait(Number(5))>>, <<>>, <<Set("x", Number(1))>>>>)>>),
  Hook("bye", "exit", <<<<"m">>>>, <<Do(Directly("display"), "text", <<Number(0), Minus(Number(1)), Str("s")>>)>>),
  OnEvent("press", Through("lamp"), <<>>), OnEvent("tap", Directly("button"), <<>>)>>

Readings == {<<Var("x", e), Const("y", Name("a"))>> : e \in Expressions} \cup {Whole}

Value == Ident("var") \o Ident("x") \o Sign("equals")
LoopBody == Ident("task") \o Ident("t") \o Ident("loop") \o Sign("left_brace")
OpeningOf(place, given, words, signs, limit) ==
  [entry |-> place, given |-> given, room |-> limit,
   tokens |-> {Ident(w)[1] : w \in words} \cup {Sign(s)[1] : s \in signs} \cup {Num(1)[1]}]
Opening(given, words, signs, limit) == OpeningOf("script", given, words, signs, limit)

MCOpenings == {
  OpeningOf("line", <<>>, {"do", "led", "on", "wait"}, {"hash", "dot", "left_paren", "right_paren", "comma", "ms_keyword"}, 8),
  Opening(Value, {"a", "elapsed"}, {"minus", "star", "less", "left_paren", "right_paren", "percent_sign", "dot"}, 5),
  Opening(Value \o Ident("match") \o Ident("a") \o Sign("left_brace"), {"else"},
          {"minus", "dot_dot", "fat_arrow", "comma", "right_brace"}, 7),
  Opening(Value, {"step", "a", "with", "dt", "read"}, {"plus", "hash", "dot"}, 6),
  Opening(LoopBody, {"if", "else", "a"}, {"left_brace", "right_brace"}, 9),
  Opening(LoopBody, {"wait", "set", "match", "a"}, {"equals", "ms_keyword", "minus"}, 6),
  Opening(LoopBody \o Ident("match") \o Ident("a") \o Sign("left_brace") \o Text("s"), {"else"},
          {"fat_arrow", "left_brace", "right_brace"}, 9),
  Opening(LoopBody \o Ident("do"), {"led", "on"}, {"hash", "dot", "left_paren", "right_paren", "comma"}, 7),
  Opening(Ident("state") \o Ident("m"), {"every", "initial", "a", "on"},
          {"ms_keyword", "deg_keyword", "dot", "left_brace", "right_brace", "thin_arrow", "equals"}, 9),
  Opening(<<>>, {"task", "every", "on", "enter", "in", "loop"},
          {"ms_keyword", "deg_keyword", "hash", "dot", "left_brace", "right_brace"}, 7),
  Opening(<<>>, {"ref", "animator", "ramp", "over", "from", "to", "ease"},
          {"equals", "hash", "ms_keyword", "deg_keyword", "percent_sign"}, 11)}
=============================================================================
