----------------------------- MODULE ScriptNodes -----------------------------
(***************************************************************************)
(* The nodes of a syntax tree (src/src/ast/script-ast.ts), one operator    *)
(* for each form the parser builds.                                        *)
(***************************************************************************)
EXTENDS ScriptTree

Number(n) == [kind |-> "int", value |-> n, args |-> <<>>]
Str(text) == [kind |-> "string", value |-> text, args |-> <<>>]
Percent(n) == [kind |-> "percent", value |-> n, args |-> <<>>]
Name(name) == [kind |-> "name", name |-> name, args |-> <<>>]
Dt == [kind |-> "dt", args |-> <<>>]
Step(animator, target) == [kind |-> "step", name |-> animator, args |-> target]
Elapsed(path) == [kind |-> "elapsed", path |-> path, args |-> <<>>]
Read(device, property) == [kind |-> "read", device |-> device, property |-> property, args |-> <<>>]
Op(kind, left, right) == [kind |-> kind, args |-> <<left, right>>]
Minus(e) == [kind |-> "minus", args |-> <<e>>]
Compare(left, operator, right) == [kind |-> "comparison", operator |-> operator, args |-> <<left, right>>]
Arm(form, bounds, result) == [kind |-> "arm", form |-> form, args |-> Append(bounds, result)]
Match(scrutinee, arms) == [kind |-> "match", args |-> <<scrutinee>> \o arms]

Do(receiver, method, args) ==
  [kind |-> "do", receiver |-> receiver, method |-> method, args |-> args, branches |-> <<>>]
Set(name, e) == [kind |-> "set", name |-> name, args |-> <<e>>, branches |-> <<>>]
Wait(e) == [kind |-> "wait", args |-> <<e>>, branches |-> <<>>]
Temp(name, e) == [kind |-> "temp", name |-> name, args |-> <<e>>, branches |-> <<>>]
If(condition, then, else) == [kind |-> "if", args |-> <<condition>>, branches |-> <<then, else>>]
MatchStatement(e, patterns, cases) ==
  [kind |-> "match", args |-> <<e>>, patterns |-> patterns, branches |-> cases]

DeviceAt(kind, id) == [kind |-> kind, id |-> id]
Device(kind) == DeviceAt(kind, 0)
Through(ref) == [kind |-> "ref", name |-> ref]
Directly(kind) == [kind |-> "device", device |-> Device(kind)]

RefTo(name, device) == [kind |-> "ref", name |-> name, device |-> device]
Ref(name, kind) == RefTo(name, Device(kind))
Var(name, e) == [kind |-> "var", name |-> name, initial |-> e]
Const(name, e) == [kind |-> "const", name |-> name, initial |-> e]
Ramp(name, ramp, from, to, duration, unit, ease) ==
  [kind |-> "animator", name |-> name, ramp |-> ramp, from |-> from, to |-> to,
   duration |-> duration, unit |-> unit, ease |-> ease]
Animator(name, ramp, to, unit, ease) == Ramp(name, ramp, 0, to, 100, unit, ease)
On(condition, target) == [kind |-> "transition", condition |-> condition, target |-> target]
State(name, initial, items) == [kind |-> "state", name |-> name, initial |-> initial, items |-> items]
MachineEvery(interval, unit, name, initial, items) ==
  [kind |-> "machine", name |-> name, interval |-> interval, unit |-> unit, initial |-> initial,
   items |-> items]
Machine(name, initial, items) == MachineEvery(100, "ms", name, initial, items)
NoTarget == [kind |-> "device", device |-> Device("led")]
TaskOf(name, schedule, interval, unit, membership, target, event, body) ==
  [kind |-> "task", name |-> name, schedule |-> schedule, interval |-> interval, unit |-> unit,
   membership |-> membership, target |-> target, event |-> event, body |-> body]
Every(name, interval, unit, membership, body) ==
  TaskOf(name, "every", interval, unit, membership, NoTarget, "", body)
Loop(name, membership, body) == TaskOf(name, "loop", 0, "ms", membership, NoTarget, "", body)
Hook(name, lifecycle, membership, body) ==
  TaskOf(name, lifecycle, 0, "ms", membership, NoTarget, "", body)
OnEvent(name, target, body) == TaskOf(name, "device_event", 0, "ms", <<>>, target, "pressed", body)
=============================================================================
