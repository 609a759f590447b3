------------------------------ MODULE Evaluation ------------------------------
(***************************************************************************)
(* The value of an expression of a compiled program, outside any task (the *)
(* initializers of variables and constants, the conditions of              *)
(* transitions): src/src/core/evaluate-executable-expression.ts.  A value  *)
(* is an integer or a string with its tag; an undefined one is the empty   *)
(* sequence.  The environment holds the values of variables and constants, *)
(* the time since each state was entered, and what the devices read.       *)
(***************************************************************************)
EXTENDS ScriptTree

Undefined == <<>>
IntegerValue(n) == <<[tag |-> "integer", value |-> n]>>
StringValue(text) == <<[tag |-> "string", value |-> text]>>

IsInteger(v) == v # Undefined /\ v[1].tag = "integer"
IsString(v) == v # Undefined /\ v[1].tag = "string"
Stored(values, name) == IF name \in DOMAIN values THEN <<values[name]>> ELSE Undefined
Truth(test) == IntegerValue(IF test THEN 1 ELSE 0)

Absolute(n) == IF n < 0 THEN -n ELSE n
\* Division truncates towards zero and has no result for a zero divisor.
Truncated(a, b) ==
  LET size == Absolute(a) \div Absolute(b) IN IF (a < 0) = (b < 0) THEN size ELSE -size

Combine(operator, a, b) ==
  CASE operator = "add" -> IntegerValue(a + b)
    [] operator = "sub" -> IntegerValue(a - b)
    [] operator = "mul" -> IntegerValue(a * b)
    [] operator = "div" -> IF b = 0 THEN Undefined ELSE IntegerValue(Truncated(a, b))

CompareIntegers(a, b, operator) ==
  CASE operator = "==" -> a = b [] operator = "!=" -> a # b
    [] operator = "<" -> a < b [] operator = "<=" -> a <= b
    [] operator = ">" -> a > b [] operator = ">=" -> a >= b

\* Strings are equal or not; they have no order.
CompareStrings(a, b, operator) ==
  CASE operator = "==" -> a = b [] operator = "!=" -> a # b [] OTHER -> FALSE

Comparison(v, w, operator) ==
  CASE IsInteger(v) /\ IsInteger(w) -> Truth(CompareIntegers(v[1].value, w[1].value, operator))
    [] IsString(v) /\ IsString(w) -> Truth(CompareStrings(v[1].value, w[1].value, operator))
    [] OTHER -> Undefined

\* Does an arm with these bounds take the scrutinee?  A bound without an
\* integer value, or a range against a string, takes nothing.
Takes(form, bounds, v) ==
  CASE form = "otherwise" -> TRUE
    [] form = "equal" -> /\ bounds[1] # Undefined
                         /\ bounds[1][1].tag = v[1].tag
                         /\ bounds[1][1].value = v[1].value
    [] OTHER -> /\ IsInteger(v)
                /\ \A i \in DOMAIN bounds : IsInteger(bounds[i])
                /\ form \in {"from", "between"} => v[1].value >= bounds[1][1].value
                /\ form \in {"below", "between"} => v[1].value < Last(bounds)[1].value

RECURSIVE Evaluate(_, _)
\* The arms are tried in order; the first that takes the value gives the result.
MatchResult(e, v, env) ==
  LET bounds(arm) == [i \in 1..(Len(arm.args) - 1) |-> Evaluate(arm.args[i], env)]
      taking == {i \in 2..Len(e.args) : Takes(e.args[i].form, bounds(e.args[i]), v)}
  IN IF v = Undefined \/ taking = {} THEN Undefined
     ELSE LET first == CHOOSE i \in taking : \A k \in taking : i <= k
          IN Evaluate(Last(e.args[first].args), env)

Evaluate(e, env) ==
  CASE e.kind = "int" -> IntegerValue(e.value)
    [] e.kind = "string" -> StringValue(e.value)
    [] e.kind = "var" -> Stored(env.vars, e.name)
    [] e.kind = "const" -> Stored(env.consts, e.name)
    [] e.kind = "elapsed"
         -> IntegerValue(IF e.path \in DOMAIN env.elapsed THEN env.elapsed[e.path] ELSE 0)
    [] e.kind \in Arithmetic
         -> LET v == Evaluate(e.args[1], env)
                w == Evaluate(e.args[2], env)
            IN IF IsInteger(v) /\ IsInteger(w) THEN Combine(e.kind, v[1].value, w[1].value)
               ELSE Undefined
    [] e.kind = "minus"
         -> LET v == Evaluate(e.args[1], env)
            IN IF IsInteger(v) THEN IntegerValue(-v[1].value) ELSE Undefined
    [] e.kind = "comparison" -> Comparison(Evaluate(e.args[1], env), Evaluate(e.args[2], env), e.operator)
    [] e.kind = "match" -> MatchResult(e, Evaluate(e.args[1], env), env)
    [] e.kind = "read" -> Stored(env.readings, <<e.device, e.property>>)
    \* Temporaries, dt and step have a value inside tasks only.
    [] OTHER -> Undefined

-----------------------------------------------------------------------------
(* Initial values of a program (simulation-runtime.ts).                    *)

\* Each initializer sees the values set before it; an undefined one sets
\* nothing, and a name that has a value keeps it.
Initialise(world, initializers, kind) ==
  FoldLeft(LAMBDA held, row :
             LET v == Evaluate(row.initial, held)
             IN IF row.name \in DOMAIN held[kind] \/ v = Undefined THEN held
                ELSE [held EXCEPT ![kind] = @ @@ (row.name :> v[1])],
           world, initializers)

\* All variables come before all constants, whatever the source's order.
InitialValues(program, world) ==
  LET held == Initialise(Initialise(world, program.varInitializers, "vars"),
                         program.constInitializers, "consts")
  IN [vars |-> held.vars, consts |-> held.consts]
=============================================================================
