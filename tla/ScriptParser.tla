---------------------------- MODULE ScriptParser ----------------------------
(***************************************************************************)
(* The parser (src/src/compiler/parser.ts): recursive descent over tokens, *)
(* one token of lookahead, to a syntax tree or the first fault.  A line    *)
(* break is no token: where a declaration, a statement or an arm ends, the *)
(* next token tells.  A fault is its kind; which tokens its report names   *)
(* is left out.                                                            *)
(*                                                                         *)
(* A cursor holds the tokens, the place in them, the trees collected since *)
(* the rule at work began, and the fault, if any.  A rule is what it wants *)
(* in order, and the tree it builds from what it got.  Words the grammar   *)
(* knows are identifiers like any other, apart from the units ms and deg.  *)
(***************************************************************************)
EXTENDS ScriptNodes

Tok(kind, lexeme) == [kind |-> kind, lexeme |-> lexeme]
EndOfFile == Tok("end_of_file", "")

UnexpectedToken == "parse.unexpected_token"
UnsupportedSyntax == "parse.unsupported_syntax"

CursorOf(tokens) == [tokens |-> Append(tokens, EndOfFile), at |-> 1, got |-> <<>>, fault |-> ""]

Current(p) == p.tokens[p.at]
Sees(p, kind) == Current(p).kind = kind
SeesWord(p, words) == Sees(p, "identifier") /\ Current(p).lexeme \in words
AtEnd(p) == Sees(p, "end_of_file")
Faulty(p) == p.fault # ""
Reject(p, fault) == [p EXCEPT !.fault = fault]
Skip(p) == [p EXCEPT !.at = @ + 1]
Collect(p, tree) == [p EXCEPT !.got = Append(@, tree)]

-----------------------------------------------------------------------------
(* What a rule wants next.                                                 *)

Mark(kind) == [want |-> "token", kind |-> kind, words |-> {}, keep |-> FALSE]
Word(word) == [want |-> "token", kind |-> "identifier", words |-> {word}, keep |-> FALSE]
AnyName == [want |-> "token", kind |-> "identifier", words |-> {}, keep |-> TRUE]
AnyNumber == [want |-> "token", kind |-> "number_literal", words |-> {}, keep |-> TRUE]
AnyString == [want |-> "token", kind |-> "string_literal", words |-> {}, keep |-> TRUE]
Part(rule) == [want |-> "part", rule |-> rule]
Body == Part("body")

\* Which of the rules below reads the part.
RECURSIVE Parse(_, _)

TakeToken(p, wanted) ==
  IF Sees(p, wanted.kind) /\ (wanted.words = {} \/ Current(p).lexeme \in wanted.words)
  THEN Skip(IF wanted.keep THEN Collect(p, Current(p).lexeme) ELSE p)
  ELSE Reject(p, UnexpectedToken)

\* The first unmet want is the fault; nothing after it is looked at.
RECURSIVE Follow(_, _)
Follow(p, wants) ==
  IF Faulty(p) \/ wants = <<>> THEN p
  ELSE Follow(IF Head(wants).want = "token" THEN TakeToken(p, Head(wants)) ELSE Parse(Head(wants).rule, p),
              Tail(wants))

\* A rule at work on its wants, and back at the rule it is part of.
Fresh(p) == [p EXCEPT !.got = <<>>]
Rule(p, wants) == Follow(Fresh(p), wants)
Build(p, q, tree) == IF Faulty(q) THEN q ELSE [q EXCEPT !.got = Append(p.got, tree)]

\* Rule after rule until a closing brace or the end of the text.
RECURSIVE Repeat(_, _)
Repeat(p, rule) ==
  IF Faulty(p) \/ Sees(p, "right_brace") \/ AtEnd(p) THEN p ELSE Repeat(Parse(rule, p), rule)

Braced(rule) == <<Mark("left_brace"), Part(rule), Mark("right_brace")>>

\* The statements of a body, or the items of a machine or a state, as one tree.
Listed(p, rule) ==
  LET q == Repeat(Fresh(p), rule)
  IN [q EXCEPT !.got = Append(p.got, q.got)]

\* A rule that yields what its only part does.
Inner(p, wants) == LET q == Rule(p, wants) IN Build(p, q, q.got[1])

Statements(p) == Inner(p, Braced("statements"))

TimeUnit(p) ==
  CASE Sees(p, "ms_keyword") -> Skip(Collect(p, "ms"))
    [] Sees(p, "deg_keyword") -> Skip(Collect(p, "deg"))
    [] OTHER -> Reject(p, UnexpectedToken)

\* A dotted path, as a sequence of names.
RECURSIVE MoreSegments(_)
MoreSegments(p) ==
  IF Faulty(p) \/ ~Sees(p, "dot") THEN p
  ELSE MoreSegments(Inner(p, <<Mark("dot"), AnyName>>))

AbsoluteStatePath(p) ==
  LET q == MoreSegments(TakeToken(Fresh(p), AnyName))
  IN [q EXCEPT !.got = Append(p.got, q.got)]

-----------------------------------------------------------------------------
(* Expressions.  Comparison binds loosest and does not chain; minus binds  *)
(* tightest.                                                               *)

OperatorOf == [plus |-> "add", minus |-> "sub", star |-> "mul", slash |-> "div"]
ComparisonOf == [equals_equals |-> "==", bang_equals |-> "!=", less |-> "<",
                 less_equal |-> "<=", greater |-> ">", greater_equal |-> ">="]

\* Mutant: the operators of a level group from the right.
RECURSIVE ChainedFromTheRight(_, _, _)
ChainedFromTheRight(p, marks, operand) ==
  IF Faulty(p) \/ Current(p).kind \notin marks THEN p
  ELSE LET mark == Current(p).kind
           right == ChainedFromTheRight(Parse(operand, [Skip(p) EXCEPT !.got = <<>>]), marks, operand)
       IN IF Faulty(right) THEN right
          ELSE [right EXCEPT !.got = Append(Front(p.got), Op(OperatorOf[mark], Last(p.got), right.got[1]))]

\* Operators of one level group from the left.
RECURSIVE Chained(_, _, _)
Chained(p, marks, operand) ==
  IF Faulty(p) \/ Current(p).kind \notin marks THEN p
  ELSE LET mark == Current(p).kind
           right == Parse(operand, [Skip(p) EXCEPT !.got = <<>>])
       IN IF Faulty(right) THEN right
          ELSE Chained([right EXCEPT !.got = Append(Front(p.got), Op(OperatorOf[mark], Last(p.got), right.got[1]))],
                       marks, operand)

AdditiveExpression(p) == Chained(Parse("multiplicative", p), {"plus", "minus"}, "multiplicative")
MultiplicativeExpression(p) == Chained(Parse("unary", p), {"star", "slash"}, "unary")

ComparisonExpression(p) ==
  LET left == AdditiveExpression(p)
      mark == Current(left).kind
      right == AdditiveExpression([Skip(left) EXCEPT !.got = <<>>])
  IN CASE Faulty(left) \/ mark \notin DOMAIN ComparisonOf -> left
       [] Faulty(right) -> right
       [] OTHER -> [right EXCEPT !.got = Append(Front(left.got),
                       Compare(Last(left.got), ComparisonOf[mark], right.got[1]))]

UnaryExpression(p) ==
  IF Sees(p, "minus")
  THEN LET q == Rule(p, <<Mark("minus"), Part("unary")>>) IN Build(p, q, Minus(q.got[1]))
  ELSE Parse("primary", p)

NumberExpression(p) ==
  IF p.tokens[p.at + 1].kind = "percent_sign"
  THEN LET q == Rule(p, <<Part("percent")>>) IN Build(p, q, Percent(q.got[1]))
  ELSE LET q == Rule(p, <<AnyNumber>>) IN Build(p, q, Number(q.got[1]))

PercentLiteral(p) == Inner(p, <<AnyNumber, Mark("percent_sign")>>)

\* A name, or the elapsed time of a state: the path ends at the first
\* segment of that name, and a dotted path that has none is no expression.
RECURSIVE UpToElapsed(_)
UpToElapsed(p) ==
  LET q == Inner(p, <<Mark("dot"), AnyName>>)
  IN IF Faulty(q) \/ Last(q.got) = "elapsed" THEN q ELSE UpToElapsed(q)

NameOrElapsed(p) ==
  LET first == TakeToken(Fresh(p), AnyName)
      path == UpToElapsed(first)
  IN CASE Faulty(first) -> first
       [] ~Faulty(first) /\ ~Sees(first, "dot") -> [first EXCEPT !.got = Append(p.got, Name(first.got[1]))]
       [] ~Faulty(first) /\ Sees(first, "dot") /\ Faulty(path) -> path
       [] OTHER -> [path EXCEPT !.got = Append(p.got, Elapsed(Front(path.got)))]

\* A target may not begin with the word dt, which ends the expression there.
StepExpression(p) ==
  LET with == Rule(p, <<Word("step"), AnyName, Word("with")>>)
  IN IF Faulty(with) THEN with
     ELSE IF SeesWord(with, {"dt"})
     THEN [Skip(with) EXCEPT !.got = Append(p.got, Step(with.got[1], <<>>))]
     ELSE LET q == Rule(p, <<Word("step"), AnyName, Word("with"), Part("expression"), Word("dt")>>)
          IN Build(p, q, Step(q.got[1], <<q.got[2]>>))

DeviceNamed(p) ==
  LET q == Rule(p, <<AnyName, Mark("hash"), AnyNumber>>)
  IN Build(p, q, DeviceAt(q.got[1], q.got[2]))

ReadExpression(p) ==
  LET q == Rule(p, <<Word("read"), Part("device")>>)
      device == Build(p, q, Read(q.got[1], ""))
  IN IF Faulty(device) \/ ~Sees(device, "dot") THEN device
     ELSE LET named == Rule(p, <<Word("read"), Part("device"), Mark("dot"), AnyName>>)
          IN Build(p, named, Read(named.got[1], named.got[2]))

-----------------------------------------------------------------------------
(* Match expressions.  A comma after an arm may be left out.               *)

OptionalComma(p) == IF ~Faulty(p) /\ Sees(p, "comma") THEN Skip(p) ELSE p

\* What an arm compares with, and how: a value, or a range open at an end.
MatchNumericPattern(p) ==
  LET from == Parse("additive", Fresh(p))
      dots == Skip(from)
      to == Parse("additive", [dots EXCEPT !.got = <<>>])
      below == Rule(p, <<Mark("dot_dot"), Part("additive")>>)
  IN CASE Sees(p, "dot_dot") -> Build(p, below, <<"below", below.got>>)
       [] ~Sees(p, "dot_dot") /\ Faulty(from) -> from
       [] ~Sees(p, "dot_dot") /\ ~Faulty(from) ->
            IF ~Sees(from, "dot_dot") THEN [from EXCEPT !.got = Append(p.got, <<"equal", from.got>>)]
            ELSE IF Sees(dots, "fat_arrow") THEN [dots EXCEPT !.got = Append(p.got, <<"from", from.got>>)]
            ELSE IF Faulty(to) THEN to
            ELSE [to EXCEPT !.got = Append(p.got, <<"between", from.got \o to.got>>)]

ElseArm(p) ==
  LET q == Rule(p, <<Word("else"), Mark("fat_arrow"), Part("expression")>>)
  IN Build(p, q, Arm("otherwise", <<>>, q.got[1]))

PatternArm(p) ==
  LET q == Rule(p, <<Part("pattern"), Mark("fat_arrow"), Part("expression")>>)
  IN Build(p, q, Arm(q.got[1][1], q.got[1][2], q.got[2]))

\* Mutant: arms may follow the else arm, which is tried last all the same.
RECURSIVE MatchArmsPastElse(_)
MatchArmsPastElse(p) ==
  LET else == OptionalComma(ElseArm(p))
      rest == MatchArmsPastElse([else EXCEPT !.got = Front(@)])
  IN IF Faulty(p) \/ Sees(p, "right_brace") \/ AtEnd(p) THEN p
     ELSE IF SeesWord(p, {"else"})
     THEN IF Faulty(else) THEN else ELSE [rest EXCEPT !.got = Append(@, Last(else.got))]
     ELSE MatchArmsPastElse(OptionalComma(PatternArm(p)))

\* Arms up to the closing brace; nothing follows the else arm.
RECURSIVE MatchArms(_)
MatchArms(p) ==
  IF Faulty(p) \/ Sees(p, "right_brace") \/ AtEnd(p) THEN p
  ELSE IF SeesWord(p, {"else"})
  THEN OptionalComma(ElseArm(p))
  ELSE MatchArms(OptionalComma(PatternArm(p)))

ArmList(p) == LET q == MatchArms(Fresh(p)) IN [q EXCEPT !.got = Append(p.got, q.got)]

MatchExpression(p) ==
  LET q == Rule(p, <<Word("match"), Part("expression")>> \o Braced("arms"))
  IN Build(p, q, Match(q.got[1], q.got[2]))

PrimaryExpression(p) ==
  CASE Sees(p, "left_paren") ->
         Inner(p, <<Mark("left_paren"), Part("expression"), Mark("right_paren")>>)
    [] Sees(p, "number_literal") -> NumberExpression(p)
    [] Sees(p, "string_literal") -> LET q == Rule(p, <<AnyString>>) IN Build(p, q, Str(q.got[1]))
    [] SeesWord(p, {"read"}) -> ReadExpression(p)
    [] SeesWord(p, {"match"}) -> MatchExpression(p)
    [] SeesWord(p, {"step"}) -> StepExpression(p)
    [] SeesWord(p, {"dt"}) -> Collect(Skip(p), Dt)
    [] OTHER -> NameOrElapsed(p)

-----------------------------------------------------------------------------
(* Statements.                                                             *)

CallReceiver(p) ==
  IF Sees(p, "identifier") /\ p.tokens[p.at + 1].kind = "hash"
  THEN LET q == Rule(p, <<Part("device")>>) IN Build(p, q, [kind |-> "device", device |-> q.got[1]])
  ELSE LET q == Rule(p, <<AnyName>>) IN Build(p, q, Through(q.got[1]))

\* Arguments with a comma between two, up to the closing parenthesis.
RECURSIVE MoreArguments(_)
MoreArguments(p) ==
  IF Faulty(p) \/ Sees(p, "right_paren") THEN p
  ELSE MoreArguments(Inner(p, <<Mark("comma"), Part("expression")>>))

CallArguments(p) ==
  LET q == IF Sees(p, "right_paren") THEN Fresh(p)
           ELSE MoreArguments(Parse("expression", Fresh(p)))
  IN [q EXCEPT !.got = Append(p.got, q.got)]

DoStatement(p) ==
  LET q == Rule(p, <<Word("do"), Part("receiver"), Mark("dot"), AnyName, Mark("left_paren"),
                    Part("arguments"), Mark("right_paren")>>)
  IN Build(p, q, Do(q.got[1], q.got[2], q.got[3]))

Assignment(p, word) ==
  LET q == Rule(p, <<Word(word), AnyName, Mark("equals"), Part("expression")>>)
      Holder == [set |-> Set(q.got[1], q.got[2]), temp |-> Temp(q.got[1], q.got[2]),
                 var |-> Var(q.got[1], q.got[2]), const |-> Const(q.got[1], q.got[2])]
  IN Build(p, q, Holder[word])

WaitStatement(p) ==
  LET q == Rule(p, <<Word("wait"), Part("expression"), Mark("ms_keyword")>>)
  IN Build(p, q, Wait(q.got[1]))

IfStatement(p) ==
  LET q == Rule(p, <<Word("if"), Part("expression"), Body>>)
      then == Build(p, q, If(q.got[1], q.got[2], <<>>))
  IN IF Faulty(then) \/ ~SeesWord(then, {"else"}) THEN then
     ELSE LET both == Rule(p, <<Word("if"), Part("expression"), Body, Word("else"), Body>>)
          IN Build(p, both, If(both.got[1], both.got[2], both.got[3]))

\* Cases for strings up to the else case, which must be there.
RECURSIVE StringCases(_)
StringCases(p) ==
  LET q == Rule(p, <<AnyString, Mark("fat_arrow"), Body>>)
  IN IF Faulty(p) \/ SeesWord(p, {"else"}) THEN p ELSE StringCases(Build(p, q, q.got))

CaseList(p) == LET q == StringCases(Fresh(p)) IN [q EXCEPT !.got = Append(p.got, q.got)]

MatchStatementRule(p) ==
  LET q == Rule(p, <<Word("match"), Part("expression"), Mark("left_brace"), Part("cases"),
                    Word("else"), Mark("fat_arrow"), Body, Mark("right_brace")>>)
      cases == q.got[2]
  IN Build(p, q, MatchStatement(q.got[1], [i \in DOMAIN cases |-> cases[i][1]],
                                Append([i \in DOMAIN cases |-> cases[i][2]], q.got[3])))

Statement(p) ==
  CASE SeesWord(p, {"do"}) -> DoStatement(p)
    [] SeesWord(p, {"set"}) -> Assignment(p, "set")
    [] SeesWord(p, {"wait"}) -> WaitStatement(p)
    [] SeesWord(p, {"match"}) -> MatchStatementRule(p)
    [] SeesWord(p, {"temp"}) -> Assignment(p, "temp")
    [] SeesWord(p, {"if"}) -> IfStatement(p)
    [] OTHER -> Reject(p, UnsupportedSyntax)

-----------------------------------------------------------------------------
(* Declarations.                                                           *)

RefDeclaration(p) ==
  LET q == Rule(p, <<Word("ref"), AnyName, Mark("equals"), Part("device")>>)
  IN Build(p, q, RefTo(q.got[1], q.got[2]))

AnimatorDeclaration(p) ==
  LET start == <<Word("animator"), AnyName, Mark("equals"), Word("ramp")>>
      end == <<Word("over"), AnyNumber, Part("unit"), Word("ease"), AnyName>>
      ramp == Rule(p, start)
  IN IF Faulty(ramp) \/ ~SeesWord(ramp, {"from"})
     THEN LET q == Rule(p, start \o end)
          IN Build(p, q, Ramp(q.got[1], "over", 0, 0, q.got[2], q.got[3], q.got[4]))
     ELSE LET q == Rule(p, start \o <<Word("from"), Part("percent"), Word("to"), Part("percent")>> \o end)
          IN Build(p, q, Ramp(q.got[1], "from_to", q.got[2], q.got[3], q.got[4], q.got[5], q.got[6]))

Transition(p) ==
  LET q == Rule(p, <<Word("on"), Part("expression"), Mark("thin_arrow"), Part("path")>>)
  IN Build(p, q, On(q.got[1], q.got[2]))

OptionalPath(p, word) ==
  LET q == Rule(p, <<Word(word), Part("path")>>)
  IN IF SeesWord(p, {word}) THEN Build(p, q, q.got) ELSE Collect(p, <<>>)

StateBlock(p) ==
  LET q == Rule(p, <<AnyName, Part("initial")>> \o Braced("items"))
  IN Build(p, q, State(q.got[1], q.got[2], q.got[3]))

\* In a machine and in a state: a transition, or a state.
StateItem(p) == IF SeesWord(p, {"on"}) THEN Transition(p) ELSE StateBlock(p)

\* The former spelling of a variable is refused by name.
StateDeclaration(p) ==
  LET named == Rule(p, <<Word("state"), AnyName>>)
  IN IF ~Faulty(named) /\ Sees(named, "equals") THEN Reject(named, UnsupportedSyntax)
     ELSE LET q == Rule(p, <<Word("state"), AnyName, Word("every"), AnyNumber, Part("unit"),
                            Word("initial"), Part("path")>> \o Braced("items"))
          IN Build(p, q, MachineEvery(q.got[2], q.got[3], q.got[1], q.got[4], q.got[5]))

\* What follows the name of a task and the state it lives in.
Schedule(p) ==
  LET on == Skip(p)
      every == Rule(p, <<Word("every"), AnyNumber, Part("unit")>>)
      hook == Rule(p, <<Word("on"), AnyName>>)
      event == Rule(p, <<Word("on"), Part("receiver"), Mark("dot"), AnyName>>)
  IN CASE SeesWord(p, {"every"}) -> Build(p, every, <<"every", every.got[1], every.got[2], NoTarget, "">>)
       [] SeesWord(p, {"loop"}) -> Collect(Skip(p), <<"loop", 0, "ms", NoTarget, "">>)
       [] SeesWord(p, {"on"}) /\ SeesWord(on, {"enter", "exit"}) ->
            Build(p, hook, <<hook.got[1], 0, "ms", NoTarget, "">>)
       [] SeesWord(p, {"on"}) /\ ~SeesWord(on, {"enter", "exit"}) ->
            Build(p, event, <<"device_event", 0, "ms", event.got[1], event.got[2]>>)
       [] OTHER -> Reject(p, UnexpectedToken)

TaskDeclaration(p) ==
  LET q == Rule(p, <<Word("task"), AnyName, Part("in"), Part("schedule"), Body>>)
      schedule == q.got[3]
  IN Build(p, q, TaskOf(q.got[1], schedule[1], schedule[2], schedule[3], q.got[2], schedule[4],
                        schedule[5], q.got[4]))

Declaration(p) ==
  CASE SeesWord(p, {"ref"}) -> RefDeclaration(p)
    [] SeesWord(p, {"const"}) -> Assignment(p, "const")
    [] SeesWord(p, {"var"}) -> Assignment(p, "var")
    [] SeesWord(p, {"state"}) -> StateDeclaration(p)
    [] SeesWord(p, {"task"}) -> TaskDeclaration(p)
    [] SeesWord(p, {"animator"}) -> AnimatorDeclaration(p)
    [] OTHER -> Reject(p, IF Sees(p, "identifier") THEN UnsupportedSyntax ELSE UnexpectedToken)

RECURSIVE ProgramItems(_)
ProgramItems(p) == IF Faulty(p) \/ AtEnd(p) THEN p ELSE ProgramItems(Declaration(p))

\* The terminal takes one `do` statement and nothing after it.
DoLine(p) ==
  CASE Faulty(p) -> p
    [] ~Faulty(p) /\ p.got[1].kind # "do" -> Reject(p, UnsupportedSyntax)
    [] ~Faulty(p) /\ p.got[1].kind = "do" /\ ~AtEnd(p) -> Reject(p, UnexpectedToken)
    [] OTHER -> p

Parse(rule, p) ==
  CASE rule = "program" -> ProgramItems(p)
    [] rule = "do_line" -> DoLine(Statement(p))
    [] rule = "expression" -> ComparisonExpression(p)
    [] rule = "additive" -> AdditiveExpression(p)
    [] rule = "multiplicative" -> MultiplicativeExpression(p)
    [] rule = "unary" -> UnaryExpression(p)
    [] rule = "primary" -> PrimaryExpression(p)
    [] rule = "pattern" -> MatchNumericPattern(p)
    [] rule = "arms" -> ArmList(p)
    [] rule = "percent" -> PercentLiteral(p)
    [] rule = "unit" -> TimeUnit(p)
    [] rule = "path" -> AbsoluteStatePath(p)
    [] rule = "device" -> DeviceNamed(p)
    [] rule = "receiver" -> CallReceiver(p)
    [] rule = "arguments" -> CallArguments(p)
    [] rule = "statement" -> Statement(p)
    [] rule = "statements" -> Listed(p, "statement")
    [] rule = "body" -> Statements(p)
    [] rule = "cases" -> CaseList(p)
    [] rule = "item" -> StateItem(p)
    [] rule = "items" -> Listed(p, "item")
    [] rule = "initial" -> OptionalPath(p, "initial")
    [] rule = "in" -> OptionalPath(p, "in")
    [] rule = "schedule" -> Schedule(p)

\* What the parser makes of a text: its declarations, or the kind of the
\* first fault; and how far it looked.
Outcome(p) == [fault |-> p.fault, seen |-> p.at, tree |-> IF Faulty(p) THEN <<>> ELSE p.got]

ParseProgram(tokens) == Outcome(Parse("program", CursorOf(tokens)))
ParseDoStatementLine(tokens) == Outcome(Parse("do_line", CursorOf(tokens)))
=============================================================================
