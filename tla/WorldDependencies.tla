-------------------------- MODULE WorldDependencies --------------------------
(***************************************************************************)
(* What the statements of a registered task refer to:                      *)
(* src/src/core/runtime-world-dependencies.ts.  Its walks visit every      *)
(* statement and, match patterns included, every subexpression.            *)
(***************************************************************************)
EXTENDS ScriptTree

Mentioned(body, kind) == {e \in ToSet(ExpressionsIn(body)) : e.kind = kind}

DevicesOf(body) ==
  {s.device : s \in {t \in ToSet(AllStatements(body)) : t.kind = "do"}}
  \cup {e.device : e \in Mentioned(body, "read")}

VariablesOf(body) == Assigned(body) \cup {e.name : e \in Mentioned(body, "var")}

PathsOf(body) == {e.path : e \in Mentioned(body, "elapsed")}
=============================================================================
