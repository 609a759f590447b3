--------------------------- MODULE ScriptSpelling ---------------------------
(***************************************************************************)
(* The texts a syntax tree stands for, as tokens: the reference the parser *)
(* is checked against.  Parentheses are written where the levels of two    *)
(* operators need them and nowhere else.  Where an arm of a match ends the *)
(* draft of a text has a mark, in place of which an author writes a comma  *)
(* or nothing but a line break.                                            *)
(***************************************************************************)
EXTENDS ScriptParser

Ident(name) == <<Tok("identifier", name)>>
Num(n) == <<Tok("number_literal", n)>>
Text(s) == <<Tok("string_literal", s)>>
Sign(kind) == <<Tok(kind, "")>>
ArmEnd == Sign("arm_end")

In(opening, text, closing) == Sign(opening) \o text \o Sign(closing)
InBraces(text) == In("left_brace", text, "right_brace")

\* Pieces with a separator between two of them.
Separated(pieces, separator) ==
  FlattenSeq([i \in DOMAIN pieces |-> IF i = 1 THEN pieces[i] ELSE separator \o pieces[i]])

Level(e) ==
  CASE e.kind = "comparison" -> 0
    [] e.kind \in {"add", "sub"} -> 1
    [] e.kind \in {"mul", "div"} -> 2
    [] e.kind = "minus" -> 3
    [] OTHER -> 4

SignOf == [add |-> "plus", sub |-> "minus", mul |-> "star", div |-> "slash",
           minus |-> "minus"]
ComparisonSign(operator) == CHOOSE mark \in DOMAIN ComparisonOf : ComparisonOf[mark] = operator

PathText(path) == Separated([i \in DOMAIN path |-> Ident(path[i])], Sign("dot"))
DeviceText(device) == Ident(device.kind) \o Sign("hash") \o Num(device.id)

\* An expression where one of at least the given level is wanted.
RECURSIVE Spell(_, _)
ArmText(arm) ==
  LET bound(i) == Spell(arm.args[i], 1)
  IN (CASE arm.form = "otherwise" -> Ident("else")
        [] arm.form = "equal" -> bound(1)
        [] arm.form = "from" -> bound(1) \o Sign("dot_dot")
        [] arm.form = "below" -> Sign("dot_dot") \o bound(1)
        [] arm.form = "between" -> bound(1) \o Sign("dot_dot") \o bound(2))
     \o Sign("fat_arrow") \o Spell(Last(arm.args), 0)

\* The word dt right after `with` would end the step expression.
TargetText(target) ==
  LET text == Spell(target, 0)
  IN IF Head(text) = Ident("dt")[1] THEN In("left_paren", text, "right_paren") ELSE text

Bare(e) ==
  CASE e.kind = "int" -> Num(e.value)
    [] e.kind = "percent" -> Num(e.value) \o Sign("percent_sign")
    [] e.kind = "string" -> Text(e.value)
    [] e.kind = "name" -> Ident(e.name)
    [] e.kind = "dt" -> Ident("dt")
    [] e.kind = "elapsed" -> PathText(Append(e.path, "elapsed"))
    [] e.kind = "read" -> Ident("read") \o DeviceText(e.device)
                          \o IF e.property = "" THEN <<>> ELSE Sign("dot") \o Ident(e.property)
    [] e.kind = "step" -> Ident("step") \o Ident(e.name) \o Ident("with")
                          \o (IF e.args = <<>> THEN <<>> ELSE TargetText(e.args[1])) \o Ident("dt")
    [] e.kind \in Arithmetic -> Spell(e.args[1], Level(e)) \o Sign(SignOf[e.kind])
                                \o Spell(e.args[2], Level(e) + 1)
    [] e.kind = "minus" -> Sign("minus") \o Spell(e.args[1], 3)
    [] e.kind = "comparison" -> Spell(e.args[1], 1) \o Sign(ComparisonSign(e.operator))
                                \o Spell(e.args[2], 1)
    [] e.kind = "match" -> Ident("match") \o Spell(e.args[1], 0)
                           \o InBraces(FlattenSeq([i \in 1..(Len(e.args) - 1) |->
                                                    ArmText(e.args[i + 1]) \o ArmEnd]))

Spell(e, level) ==
  IF Level(e) < level THEN In("left_paren", Bare(e), "right_paren") ELSE Bare(e)

ReceiverText(receiver) ==
  IF receiver.kind = "ref" THEN Ident(receiver.name) ELSE DeviceText(receiver.device)

RECURSIVE BodyText(_)
StatementText(s) ==
  LET operand(i) == Spell(s.args[i], 0)
      branch(i) == BodyText(s.branches[i])
      case(i) == Text(s.patterns[i]) \o Sign("fat_arrow") \o branch(i)
  IN CASE s.kind = "do" -> Ident("do") \o ReceiverText(s.receiver) \o Sign("dot") \o Ident(s.method)
                           \o In("left_paren", Separated([i \in DOMAIN s.args |-> operand(i)], Sign("comma")),
                                 "right_paren")
       [] s.kind \in {"set", "temp"} -> Ident(s.kind) \o Ident(s.name) \o Sign("equals") \o operand(1)
       [] s.kind = "wait" -> Ident("wait") \o operand(1) \o Sign("ms_keyword")
       [] s.kind = "if" -> Ident("if") \o operand(1) \o branch(1)
                           \o IF s.branches[2] = <<>> THEN <<>> ELSE Ident("else") \o branch(2)
       [] s.kind = "match" ->
            Ident("match") \o operand(1)
            \o InBraces(FlattenSeq([i \in DOMAIN s.patterns |-> case(i)])
                        \o Ident("else") \o Sign("fat_arrow") \o branch(Len(s.branches)))

BodyText(body) == InBraces(FlattenSeq([i \in DOMAIN body |-> StatementText(body[i])]))

RECURSIVE ItemsText(_)
ItemText(item) ==
  IF item.kind = "transition"
  THEN Ident("on") \o Spell(item.condition, 0) \o Sign("thin_arrow") \o PathText(item.target)
  ELSE Ident(item.name)
       \o (IF item.initial = <<>> THEN <<>> ELSE Ident("initial") \o PathText(item.initial[1]))
       \o ItemsText(item.items)

ItemsText(items) == InBraces(FlattenSeq([i \in DOMAIN items |-> ItemText(items[i])]))

UnitText(unit) == Sign(IF unit = "ms" THEN "ms_keyword" ELSE "deg_keyword")

ScheduleText(task) ==
  CASE task.schedule = "every" -> Ident("every") \o Num(task.interval) \o UnitText(task.unit)
    [] task.schedule = "loop" -> Ident("loop")
    [] task.schedule \in {"enter", "exit"} -> Ident("on") \o Ident(task.schedule)
    [] task.schedule = "device_event" ->
         Ident("on") \o ReceiverText(task.target) \o Sign("dot") \o Ident(task.event)

DeclarationText(d) ==
  CASE d.kind = "ref" -> Ident("ref") \o Ident(d.name) \o Sign("equals") \o DeviceText(d.device)
    [] d.kind \in {"var", "const"} -> Ident(d.kind) \o Ident(d.name) \o Sign("equals") \o Spell(d.initial, 0)
    [] d.kind = "animator" ->
         Ident("animator") \o Ident(d.name) \o Sign("equals") \o Ident("ramp")
         \o (IF d.ramp = "over" THEN <<>>
             ELSE Ident("from") \o Num(d.from) \o Sign("percent_sign")
                  \o Ident("to") \o Num(d.to) \o Sign("percent_sign"))
         \o Ident("over") \o Num(d.duration) \o UnitText(d.unit) \o Ident("ease") \o Ident(d.ease)
    [] d.kind = "machine" ->
         Ident("state") \o Ident(d.name) \o Ident("every") \o Num(d.interval) \o UnitText(d.unit)
         \o Ident("initial") \o PathText(d.initial) \o ItemsText(d.items)
    [] d.kind = "task" ->
         Ident("task") \o Ident(d.name)
         \o (IF d.membership = <<>> THEN <<>> ELSE Ident("in") \o PathText(d.membership[1]))
         \o ScheduleText(d) \o BodyText(d.body)

ScriptText(program) == FlattenSeq([i \in DOMAIN program |-> DeclarationText(program[i])])

-----------------------------------------------------------------------------
(* From the draft to what is written.                                      *)

EndsAnArm(text, i) == text[i] = ArmEnd[1]
EndsTheLastArm(text, i) == EndsAnArm(text, i) /\ text[i + 1].kind = "right_brace"

\* The draft with a comma where Comma(i) says so, and no other mark.
WrittenWith(text, Comma(_)) ==
  SelectSeq([i \in DOMAIN text |-> IF EndsAnArm(text, i) /\ Comma(i) THEN Sign("comma")[1] ELSE text[i]],
            LAMBDA t : t # ArmEnd[1])

CommaAfterEachArm(text) == WrittenWith(text, LAMBDA i : TRUE)
CommaBetweenArms(text) == WrittenWith(text, LAMBDA i : ~EndsTheLastArm(text, i))
ArmsOnLines(text) == WrittenWith(text, LAMBDA i : FALSE)

\* An arm after another one begins with a minus sign.
MinusBeginsAnArm(text) == \E i \in DOMAIN text : EndsAnArm(text, i) /\ text[i + 1].kind = "minus"
=============================================================================
