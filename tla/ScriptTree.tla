------------------------------ MODULE ScriptTree ------------------------------
(***************************************************************************)
(* The syntax trees the compiler works on.  An expression is a record with *)
(* a kind and its operands, in evaluation order, in args: an arm of a      *)
(* match expression holds its pattern bounds and then its result, so that  *)
(* a walk over the operands visits what the walks of the source visit.  A  *)
(* statement holds its own expressions in args and the bodies below it in  *)
(* branches.  What a piece of the source may lack is a sequence of length  *)
(* zero or one.                                                            *)
(***************************************************************************)
EXTENDS Integers, SequencesExt

Arithmetic == {"add", "sub", "mul", "div"}

\* An expression and all its subexpressions, parents first.
RECURSIVE Subexpressions(_)
Subexpressions(e) ==
  <<e>> \o FlattenSeq([i \in DOMAIN e.args |-> Subexpressions(e.args[i])])

\* The statements of a body and of the bodies below it, in source order.
RECURSIVE AllStatements(_)
AllStatements(body) ==
  FlattenSeq([i \in DOMAIN body |->
    <<body[i]>> \o FlattenSeq([b \in DOMAIN body[i].branches |->
                                 AllStatements(body[i].branches[b])])])

\* Every expression a body mentions, subexpressions included.
ExpressionsIn(body) ==
  LET statements == AllStatements(body)
  IN FlattenSeq([i \in DOMAIN statements |->
       FlattenSeq([k \in DOMAIN statements[i].args |->
                     Subexpressions(statements[i].args[k])])])

\* The expressions a body mentions, outermost ones only.
TopExpressions(body) ==
  LET statements == AllStatements(body)
  IN FlattenSeq([i \in DOMAIN statements |-> statements[i].args])

\* The variables a body assigns.
Assigned(body) == {s.name : s \in {t \in ToSet(AllStatements(body)) : t.kind = "set"}}

\* The first entry of a list of faults, for a pass that stops at the first.
FirstOf(faults) == IF faults = <<>> THEN <<>> ELSE <<Head(faults)>>

Named(sequence, name) == \E i \in DOMAIN sequence : sequence[i].name = name
=============================================================================
