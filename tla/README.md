# A TLA+ model of kibo-script

kibo-script is a small language for robots: tasks, waits, state machines and
device effects. A browser simulator executes it; a Raspberry Pi Pico executes
the same program, translated to JSON, on a C++ runtime. This directory holds
TLA+ modules of the parts of the program whose correctness depends on the order
of events, the TLC configurations that check them on small programs, and proofs
of their main properties for every program.

## 1. The system

| Part | Source | State it keeps | Operations | Hard because |
| --- | --- | --- | --- | --- |
| Scheduler and state machines | `src/core/simulation-runtime.ts`, `task-registry.ts` | simulated time; per task: running, accumulated time, program counter, wake-up time; variables; queued effects; per machine: active leaf, accumulated time; entry time of each state | `tick`, `dispatchScriptEvent`, `startTask`, `stopTask`, `replaceCompiledProgram` | bodies are suspended at `wait` while time, events and state changes go on; a transition runs other tasks in its middle; accumulators are caught up in loops |
| Registration at run time | same file, `runtime-world-dependencies.ts` | refs, variables and their single writer, machines, tasks | add a program, drop a ref, variable, state machine or task | what is dropped may still be referred to; several tables must agree |
| Evaluation | `evaluate-executable-expression.ts`, `executable-statement-to-device-effects.ts` | none | evaluate, map a `do` to effects | undefined results |
| Animators | `animator-ramp.ts`, `animator-runtime-state.ts` | ramp progress | step | arithmetic at the ends of a ramp |
| Devices | `device-bus.ts`, `src/devices` | device properties | apply an effect, read | order of effects |
| Compiler | `src/compiler` | none | text to `CompiledProgram` | static rules the runtime relies on (one writer per variable, a `wait` in every loop, resolved initial states) |
| Terminal | `src/interactive` | session text | `do`, `read`, `task`, `drop` lines | calls the runtime between frames |
| Simulator page and embedding | `src/ui`, `src/embed` | time of the last frame | animation frame, embed messages, button, Web Serial upload | an upload awaits while the page goes on |
| Physics | `src/physics` | rigid bodies | step, asynchronous switch of the world | numerical |
| Runtime IR contract | `src/runtime-conformance` | none | build a package, preflight, replay | size limits |
| Device protocol | `device-protocol/kibo-device-protocol-v1.ts`, `kibo_device_protocol_v1.hpp` | none | encode, decode a frame | lengths, checksums |
| C++ runtime | `runtime/cpp/src/kibo_host_runtime.cpp` | as the scheduler | as the scheduler | must agree with the scheduler |
| Firmware | `runtime/pico/vertical_slice/src` | receive session, staged package, active package, timers | serial frames, live tick, button, replay | failures in mid-upload, unsigned clocks, two framings in one stream |
| Upload tools | `scripts/pico/runtime_vertical_slice/tools` | none | upload, probe, doctor | frames are sent without reading replies |

The simulator calls the runtime from one thread: `runSimulationFrame` calls
`tick` for every animation frame, a button click calls `dispatchScriptEvent`,
a terminal line queues an effect and calls `tick(0)` or starts and stops a task,
an embed message calls `tick`. Nothing happens inside a call except what the
call itself does, but between two calls any other call may come.

## 2. Modules

| Module | What it is |
| --- | --- |
| `StatePaths` | path arithmetic: common ancestors, states left and entered by a transition |
| `SimulationRuntime` | the scheduler, its state machines and the calls from outside |
| `CooperativeTasks` | the promise to a task body: one body at a time, waits are kept |
| `LifecycleHistory` | `SimulationRuntime` with a history variable that records enter and exit hooks |
| `ScriptTree`, `ScriptNodes` | trees of a script, walks over them, and a constructor for each kind of node |
| `ScriptParser` | the recursive descent parser, from tokens to the tree or the first fault |
| `ScriptSpelling` | how a tree is written, with the three ways to end the arms of a match: the reference the parser is compared with (no code) |
| `WrittenScript` | a text that is written out or typed token by token, and what the parser makes of it |
| `Binder`, `TypeChecker`, `SemanticChecker`, `Lowering` | the passes of the compiler |
| `Compiler` | the passes as one function: a script, a script against a runtime, a terminal line |
| `Evaluation` | expressions outside tasks, initial values of variables and constants |
| `CompileScript` | text, parser, passes and first evaluation, one action each |
| `WorldDependencies` | the walks that find what a body mentions |
| `RuntimeWorld` | the registries of the running simulator: additions, loads, typed tasks, drops |
| `HostRuntime` | the C++ interpreter |
| `RuntimePackage` | what the package builder accepts and infers |
| `Conformance` | simulator and C++ interpreter replaying the same steps |
| `DeviceFileTransfer` | the upload of a package: uploader, lossy line, firmware handlers |
| `PackageStore` | the promise of the loader: whole, validated packages |
| `SerialIngress` | lines and frames in one stream of bytes |
| `PicoFirmwareLoop` | the firmware's `loop()`: clock, serial poll, button, live tick |
| `MC...` | small instances for TLC |
| `SimulationRuntimeProofs` | proofs: paths; waits, bodies, accumulated time, transitions and clocks of the scheduler |
| `LifecycleHistoryProofs` | proofs: what scripts see through their hooks |
| `RuntimeWorldProofs`, `DeviceFileTransferProofs`, `PicoFirmwareLoopProofs` | proofs: registries, upload, firmware loop |
| `ForEachProofs` | rules for the loops of the C++ code, for any loop body |
| `ConformanceProofs` | proofs: the C++ interpreter beside the simulator |
| `MirrorProofs` | proofs: both show the same traces |

How they are composed:

    text    WrittenScript - ScriptParser - CompileScript
                                           |  Binder, TypeChecker, SemanticChecker, Lowering, Evaluation
    world   MCRuntimeWorld = RuntimeWorld with Compiler, Evaluation, WorldDependencies
    run     LifecycleHistory - SimulationRuntime - refines CooperativeTasks
    replay  Conformance = SimulationRuntime, HostRuntime, RuntimePackage
    board   PicoFirmwareLoop - SerialIngress;  DeviceFileTransfer - refines PackageStore
    proofs  SimulationRuntimeProofs <- LifecycleHistoryProofs
            SimulationRuntimeProofs, ForEachProofs (one instance per loop body)
              <- ConformanceProofs <- MirrorProofs
            RuntimeWorldProofs;  DeviceFileTransferProofs;  PicoFirmwareLoopProofs

### SimulationRuntime

The program is a constant: tasks with run mode, interval, membership, trigger
and body; machines with tick interval, initial leaf and transitions. A path is
the sequence of its segments, so `startsWith(membership + ".")` is the prefix
relation.

Each method of the class is a loop over tasks or machines, in whose middle
other tasks run. The model keeps the position: `phase` names the loop
(`resume` = `resumeWaitingTasks`, `machines` = `advanceStateMachines`, `every` =
`advanceEveryTasks`, `loops` = `startRunnableLoopTasks`, `event` =
`dispatchScriptEvent`, `boot` = the initial enter tasks, `flush` =
`flushPendingEffects`), `cursor` the element under consideration, `charged`
whether the elapsed time was already added for it, `plan` what is left of a
transition (`applyStateMachineLeafTransition`), `hookTasks` which lifecycle
tasks of one state are still to be run, `draining` whose body is being executed
(`drainTaskExecution`). One action is one pass of a loop or one statement of a
body; the calls from outside (`External`) are enabled in phase `idle` only,
which is what a single thread means. A program counter counts from 1; 0
(`NoProgress`) is `executionProgress === undefined`. A wake-up time of 0
(`NotWaiting`) is `undefined`: a real one is positive because waits are.

Abstracted: values are integers; an expression is a literal, a variable, a
device read, an elapsed attribute or a quotient (division by zero is the
undefined value of the evaluator). `if` and `match` choose between two simple
statements (the language forbids `wait` in a branch). `temp`, `const`, strings,
`dt` and animators do not influence scheduling. A device is a set of integer
properties. `tick` is called with whole, non-negative milliseconds; the real
frame delta may be fractional.

### The compiler

`ScriptParser` is the parser function by function. Its input is a sequence of
tokens, each a kind and a lexeme (a name, a number, a text: members of small
sets, never characters). A rule takes a cursor `p` and gives a cursor that is
further along, or one with a fault; `Follow` is what nearly every parse function
is, a list of tokens and rules one after the other; the code writes each of
these lists out, so `Follow`, `Rule`, `Build` and the like have no lines of their
own in it. `Outcome` has the tree or the fault's diagnostic id, and how far the
parser looked. Where a fault is reported is left out (the code points at the
first token of a dotted path that is no elapsed time, for instance).

The unit of every interval is part of the tree. That of a machine gets as far
as the bound program; `LowerMachine` takes a number of degrees for milliseconds,
as the code does.

The passes are functions on trees. `Bind` keeps the stages of `bindProgram`
and what each does on a fault: go on and collect, or give up the stage.
`TypeCheck` infers kinds in the order of the code (the first arm decides unless
another disagrees), with the environment that grows through a body.
`SemanticCheck` has the rules on tasks, membership, elapsed paths, lifecycle
tasks and writers. `Lower` builds the tables the runtime takes. A diagnostic is
its id; text, ranges and hints are left out. An exception of the code (a circle
of `initial`s) is a report of its own, `StackOverflow`.

`CompileScript` runs this as a pipeline, each pass an action, up to the values
the runtime gives variables and constants when it loads the program
(`Evaluation`). An undefined value is the empty sequence.

### RuntimeWorld

The registries of `SimulationRuntime` as a user changes them: aliases, names
with a value, the writer of each variable, tasks, machines with their active
leaf and entry times, animators. A script is compiled against what the runtime
holds and added, or compiled alone and loaded in place of everything; the
terminal puts a task over another, or drops an entry, after the dependency walk
of the code. Running is reduced to what it does to the registries: a task may
give a value to the variables it assigns, a machine moves to another leaf.

The compiler and the walks are constant operators of the module.
`MCRuntimeWorld` supplies them from `Compiler`, `Evaluation` and
`WorldDependencies`; they are recursive, and theorems about the registries must
not reach a recursive operator. What the registries need of the compiler is
written down as `CompilerAssumption`: whatever the runtime holds, an accepted
script has well-formed machines with distinct names (`MachinesAreBound`, the binder), tasks
whose paths are those of the script or the runtime and whose assignments are
noted in the writer table (`TasksAreChecked`, the semantic checker and lowering),
and initializers that take no value away (`ValuesAreKept`); a line typed at the
terminal assigns nothing and reads no elapsed time. TLC evaluates it with the
real passes, for every script of the instance against every world its names
allow, reachable or not.

### HostRuntime, RuntimePackage, Conformance

A call of the C++ interpreter is one atomic step, so `HostRuntime` writes it as a
function of the whole state, in the order of the code: `Advance` is
`tick_milliseconds`, `FireEvery` the inner loop of `advance_every_tasks`, `Drain`
a task body, `ApplyLeafTransition` a transition with its hooks. `outcome` records
the two ways a call may not return: an exception, and the loop of
`start_runnable_loop_tasks`, which has no statement budget.

`RuntimePackage` has the builder's decisions: which programs it accepts
(`Accepted`, an assumption that TLC evaluates for the programs of
`MCConformance`), the replay it infers or cannot infer (`InferenceThrows`), the
interval of the live tick.

`Conformance` puts one program into both runtimes and gives both the same steps:
those of a written replay, those inferred, the live tick. The simulator works a
step off by its internal actions; when it is idle the two are compared.

Abstracted: an effect on a device sets one number, whatever the method does to
pixels; strings, temporaries and `dt` are left out as in `SimulationRuntime`.

### DeviceFileTransfer

`host` is one uploader at a time (the port is exclusive): the package, its chunk
size and how far it is. Both kinds are modelled, the frames of device protocol v1
(`upload_pico_runtime_package_via_device_protocol_v1.py` and the Web Serial
button write the same ones) and the older `KIBO_PKG` line. An uploader reads
nothing until its last frame is out, then looks for `kibo_pkg_ack status=ok`
(`ReportOk`); everything else that ends it, from a failed write or a killed
process to a deadline, is `GiveUp`. `line` holds the frames written and not yet
handled; `LoseFrame` drops one. A frame whose bytes are damaged fails its CRC and
is dropped too, and USB neither duplicates nor reorders, so loss is all there
is.

The firmware has one action per message kind (`HandleFileBegin`, ...). Its state
is the receive session, the staged bytes, the active package, the package the
live runtime was built from, and `up`, which an exception that escapes `loop()`
makes false. A package is a sequence of bytes; what the loader makes of it is its
`Verdict`: it runs, it is rejected, or one of the two reads of an integer outside
a `try` throws, before (`raises`) or after (`raisesLate`) the active package is
replaced. `Restart` is a power cycle: everything is in RAM.

`PackageStore` sees of this a staged package or none, and the active one. The
refinement mapping forgets sessions, the line and the uploader.

Not modelled: replies that no uploader reads (ERROR, LOG, PONG, CAPABILITIES
frames), payloads that are not JSON, the bytes of a frame, and the comparison of
traces with which the browser follows an upload.

### SerialIngress, PicoFirmwareLoop

`SerialIngress` is the class of the same purpose as a function from its state and
a byte to its next state and what it hands on. Prefix, lengths and limits are
constants. Lines end with a newline; frames by the length in their header.

`PicoFirmwareLoop` has one action per part of `loop()`: `ReadClock`, one byte of
the serial poll (`ReceiveByte`) and its end, the button, the live tick. Between
any two of them time passes, the button bounces, a tool writes or a byte is
lost. Times are kept as true times; the code has them modulo 2^32 and compares
unsigned differences, which `Since` computes modulo `ClockSize`. What a frame
means is left to `DeviceFileTransfer`: here an item commits a package or does
not. A commit restarts the live runtime with a fresh reading of the clock, while
the button and the tick that follow use the one from the top of the pass.

## 3. Runs

| Run | Checks | Shows |
| --- | --- | --- |
| `rover` | `TypeOK`, `BodiesRunInTheirState`, `LifecycleTasksFindTheirState`, `EnterTasksReadZeroElapsed`, `SchedulesDoNotDrift`, `EnclosingStatesAreOlder`, `SharedStatesKeepTheirClock`, `HooksMatchActiveStates`, `EnteredStatesAreNested`, `HooksAlternate` | membership, clocks and accumulators stay consistent; what scripts learn from their hooks is what the runtime believes |
| `beacon` | `ParkedTasksHaveAWakeUp`, `WaitsAreHonoured`, `BodiesRunToTheirEnd`, `RefinesCooperativeTasks`, `CallsReturn`, `WaitingTasksResume` | no body is stranded, cut short or overtaken; calls return, waiting every and loop tasks go on |
| `compiler` | `ReadsAsMeant`, `NothingIsLost`, `LoopsAlwaysWait`, `OneWriterPerVariable`, `TemporariesAreAssigned`, `StatesResolve`, `ValuesHaveTheirKinds` | scripts read as the trees they were written from, exactly unless an arm without a comma before it begins with a minus sign; the parser keeps all that an accepted text says; what the runtime relies on holds of every accepted script |
| `world` | `SingleWriter`, `TasksFindTheirStates`, `MachineTablesAgree`, `AdditionsOverwriteNothing` | the registries agree with each other after any sequence of additions, loads, typed tasks and drops |
| `conformance` | `TracesAgree`, `SchedulesAgree`, `HostKeepsRunning` | the two runtimes show the same traces and agree on what happens next; the C++ one neither throws nor hangs |
| `transfer` | `TypeOK`, `SessionFits`, `OnlyWholePackages`, `PassedDryRun`, `CleanUploadLands`, `IntactOkIsTrue`, `ImplementsPackageStore` | loss, uploads cut short and restarts never mix packages; an upload that loses nothing lands, whatever earlier ones left behind |
| `firmware` | `WholeItemsArrive`, `NeverAheadOfTime` | lines and frames come out whole; ticks and presses never run ahead of the time that has passed |
| `stopped` | `StoppedTasksDoNotRun` is violated | finding 1 |
| `event_wait` | `WaitingEventTasksResume` is violated | finding 2 |
| `transfer_ok` | `OkIsTrue` is violated | finding 3 |
| `add_const` | `FreshScriptsAreAccepted` is violated | finding 4 |
| `host_enter` | `TracesAgree` is violated | finding 5 |

Each property of a passing run is violated when one definition of the model is
replaced by a plausible mistake; `PROJECT.json` lists these mutants, and they
stand in the modules before the definition they replace.

### Programs and bounds

**Scheduler.** `MCRover` programs a composite state (`Manual` with `Stop` and
`Forward`, and `Idle` beside it) with lifecycle tasks on both levels, an every
task that waits longer than its interval, a loop bound to the composite,
transitions on the machine, a leaf and the enclosing state, one of them to the
active leaf itself. `MCBeacon` has waits and a division that depend on a variable
which an event sets to 0, a loop whose last statement exceeds the budget, an
event task that waits, a machine with tick interval 0 and one that ticks twice in
one call. `MaxTime` (8 ms for Rover, 4 for Beacon) bounds the simulated time and
with it the number of ticks; intervals, waits and thresholds are 1 to 5 ms, so
that each fits several times, not always evenly, into a run. `Elapses` has a tick
of 0 (every `do` line is one), one shorter than and one longer than the
intervals. `StatementBudget` (50000 in the code) is 5, or 2 where it is to be
exceeded. Between ticks any number of events, `do` lines, sensor changes, starts
and stops may come.

**Compiler.** Some 15000 scripts are written out and compiled: every sequence of
up to two declarations from a pool of 52, alone, after a base that declares a
value of each sort, a ref and an animator, and after the same with a machine; up
to three values that depend on each other; every expression of two levels of
operators; a match with every form and every pair of arms; one script with every
form of declaration. A script is written with a comma after every arm of a match,
between two arms only, and with line breaks only, which are no tokens. The pool
has what is right and what each rule is about:
waits in branches, leaking temporaries, circles of `initial`s, targets outside
the machine, kinds that clash, a second writer. The other texts are typed: from
eleven openings, one in each part of the grammar, with the tokens that can matter
there, 5 to 11 of them. Typing stops when the parser has rejected a token of the
text: it looks at nothing behind it.

**World.** Seven scripts that need, contest or repeat each other's names, two
typed task names with three bodies. There is no bound: the reachable registries
are finite.

**Conformance.** The program `Lamp` has every and loop tasks bound to states on
two levels, waits, exit tasks, an event task, two machines of different
intervals, and a tick that is longer than all of them. It keeps to what both runtimes do
alike, and each thing it avoids is a difference: no enter tasks (finding 5); no
wait that is not positive (the simulator stops the task, the C++ interpreter only
ends the run of its body); no division by zero (undefined there, an exception
here); the elapsed attribute only of an initial state that is left once (C++ sets no entry
time later); no tick of 0 (`tick_milliseconds` ignores it); a sensor that keeps
its default (the C++ interpreter reads 512 always); no body that needs the
statement budget (only the simulator has one). `MaxTime` is 12.

**Transfer.** No bound on uploads, losses or restarts: the states are finite.
Packages have 2 to 4 bytes and chunks 1 or 2, so that a session can be continued
by an upload with other chunks, by one of another length, and by one that agrees
on the first chunk; `DeviceLimit` is 3, and one package has 4 bytes (the limit is
a build macro, an uploader may believe in another one). Two packages of the same
length differ in a way that makes their mixture a third sequence. Two frames may
be in flight (one in the run that is to fail); more change nothing, because no
uploader waits for an answer in between.

**Firmware.** The prefix has two bytes, a header three, a checksum one. Frames
have an empty body (and a checksum that is a newline), one with a newline in it,
and one that begins like a frame;
lines are a ping, one that begins like a frame, an empty one. `MaxFrame` is the
longest frame's length and `MaxLine` the longest line's, so that after a loss both
limits are met. `Budgets` says what may happen in one behaviour, each alternative
a question: four items at one instant (framing), one item within 10 ms (timers
across a commit), five bounces in 9 ms (debouncing), a little of each. The clock
counts to 8 and wraps.

Deadlock is checked everywhere but in `compiler`, whose behaviours end when a
script is compiled or rejected.

Fairness (`FairSpec`, in `beacon`). `WF(Internal)`: a call that was begun goes on,
being one thread's synchronous code. `SF` of a tick with positive elapsed time:
`requestAnimationFrame` keeps calling, but other calls may come between two
frames, so the tick is enabled again and again and not continuously.

## 4. Findings

1. An every task that stops itself in a tick in which more than one interval
   has accumulated (a frame may carry 100 ms) runs again at once:
   `advanceEveryTasks` reads `running` before its inner loop only. STATUS.md says
   an invalid `wait`, or an exceeded statement budget, stops the task.
2. A `task .. on ..` that waits never continues and never reacts to its event
   again: `resumeWaitingTasks` considers every and loop tasks only, and
   `dispatchScriptEvent` skips a task in progress. draft.md 7.3 calls such a task
   equivalent to a loop.
3. A lost FILE_BEGIN can make the board run another package than the one it was
   sent, and the Python tool report success. In the run an upload is given up after
   its first chunk and leaves its session open. The next upload loses FILE_BEGIN;
   the open session refuses its first chunk (which is lost too in the run) and takes
   its last, whose index, length and checksum are what the session waits for.
   FILE_COMMIT then stages the first package, RUN_PACKAGE runs it, and the firmware
   acknowledges. The same end is reached without an open session, from a package
   that an earlier upload left staged: only FILE_BEGIN clears it (`main.cpp:552-556`),
   and a FILE_COMMIT without a session changes nothing (`main.cpp:690-698`). (The
   browser compares traces afterwards and notices if they differ.) `IntactOkIsTrue`
   and `CleanUploadLands` say what does hold.
4. Once a script with a constant is loaded, no script can be added. In add mode
   the binder makes the runtime's constants visible by putting them into the list
   of constants the script declares; lowering initialises them again, and
   registration refuses the duplicate. draft.md:190 says later tasks may refer to
   registered constants.
5. In the C++ interpreter no enter task runs after a transition and no entry time
   is set: the old leaf is passed as a reference to the member that is overwritten
   before the enter sequence is computed (`kibo_host_runtime.cpp:433`, `:460`). The
   golden trace `semantics-state-enter-lifecycle` expects otherwise; the test that
   compares the C++ trace with it is skipped where no binary was built.

### Divergences seen, without a run

Modelled as the code has them where a module covers the place.

Runtime and terminal

- `simulation-runtime.ts:489-521`: variables are initialised before constants, so
  `const k = 1` followed by `var x = k` leaves `x` undefined, though the binder
  takes the order of the source (`bound-program.ts:15`).
- `simulation-runtime.ts:301`: `drop var` looks into tasks only; a transition
  condition that reads the variable is false from then on (draft.md:540 asks for a
  refusal on account of tasks and machines).
- `evaluate-interactive-command.ts:429`: `task <name> every` over a task leaves the
  writer rows of the old one, which block later additions.
- A name may become a variable and a constant through two additions, variables
  the runtime holds have no kind for an added script, and the runtime's animators
  are unknown to it. An added script that declares a registered ref again is refused
  although the address is the same (`simulation-runtime.ts:1219`; draft.md:454 has
  that change nothing). A typed `do` line sees no registered ref (`DoLineScript`).

Compiler

- `parser.ts:2597`, `:3061`: the arms of a match may stand on lines of their own
  without commas (CHEATSHEET.md:128, 134-138), but a result followed by an arm that
  begins with a minus is read as one subtraction. `ReadsAsMeant` says that such a
  script is never read as it was meant, and that this is the only exception.
- `parser.ts:1893`: `match.missing_else_branch` cannot be reported.
- A step target that begins with `dt` needs parentheses; `dt`, `read`, `match`,
  `step`, `ms`, `deg` as names, and a state named `on`, are declared but unusable.
- `lower-to-ir.ts:232-240`: the tick interval of a machine given in `deg` is taken
  for milliseconds (`NothingIsLost` is about the parser, which keeps the unit).
- `type-checker.ts`: `dt` and `step` pass in arguments of `println` and `display`
  and in match expressions of tasks that have none (STATUS.md:315); arms of
  different kinds are not reported when inference gives up.
- Circular `initial`s end the compiler with a RangeError (draft.md:360).

Package, C++ runtime, firmware

- The package builder accepts programs the C++ interpreter throws on: `wait` in
  bodies of event tasks or in branches, divisions that may be by zero. An exception
  of the live tick or of a button event is caught nowhere in `loop()`.
- `main.cpp:470`: the active package is replaced before its
  `live.tickIntervalMilliseconds` is read; if that is not an integer, the rest of
  the commit and the acknowledgement are skipped (kibo-device-protocol-roadmap.md:144).
- `main.cpp:432`, `:853`: a `packageSchemaVersion` that is not a number throws; on the
  `KIBO_PKG` path nothing catches it (pico-loader-protocol-gates.md:43).
- `main.cpp:240`: a package loaded during the serial poll is restarted with a later
  time than the clock reading the tick uses; the unsigned difference is huge and
  the new package ticks at once, and again before its interval has passed.
  `NeverAheadOfTime` states the exact bound, two intervals, which is reached.
- A byte lost from a frame makes the ingress count the following bytes into it;
  what follows is misread until a line is read as a line (`WholeItemsArrive`).

## 5. Proofs

TLAPS checks the theorems below for every value of the constants that satisfies
the named assumptions. The assumptions say what other parts of the program
establish, and TLC evaluates each of them on the instances it checks. Every theorem of
the form `Spec => []P` states a property that a run checks under the same name.

### The scheduler

For every program, every set of elapsed times, every statement budget and every
time bound. Assumed: task and machine tables are well typed and have one entry per name
(`TasksAssumption`, `MachinesAssumption`: they are maps of the code); following
`initial` from a state ends in a leaf of the same machine and transitions stay in
their machine (`ResolutionAssumption`: the binder looks both up among the states of
the machine and rejects the script otherwise); inputs are integers
(`EnvironmentAssumption`).

| Theorem | States |
| --- | --- |
| `TypeCorrectness` | `TypeOK` |
| `NoTaskIsStranded` | `ParkedTasksHaveAWakeUp` |
| `WaitsAreNeverCutShort` | `WaitsAreHonoured` |
| `BodiesRunOnlyInTheirState` | `BodiesRunInTheirState` |
| `BodiesAreExecutedInOrder` | `BodiesRunToTheirEnd` |
| `Refinement` | the scheduler implements `CooperativeTasks` |
| `TicksStayOnTheirMultiples` | `SchedulesDoNotDrift` |
| `LifecycleTasksRun` | `LifecycleTasksFindTheirState` |
| `EnteredStatesStartAtZero` | `EnterTasksReadZeroElapsed` |
| `OuterStatesAreEnteredFirst` | `EnclosingStatesAreOlder` |
| `ClocksOfSharedStatesRunOn` | `SharedStatesKeepTheirClock` |
| `ScriptsSeeTheActiveStates` | `HooksMatchActiveStates` |
| `HooksRespectNesting` | `EnteredStatesAreNested` |
| `EnterAndExitAlternate` | `HooksAlternate` |

*Bodies and waits* (`SimulationRuntimeProofs`). One inductive invariant, `IndInv`.
`ParkedTasksHaveAWakeUp` speaks of the tasks that are not being drained, so it
says nothing of the state a body is in just before it is parked;
`DrainedTaskMoves` adds it (a drained task has progress and does not wait). A step
that starts a lifecycle task resets a wait, which is harmless only because such a
task is a lifecycle task: `HooksStartLifecycleTasks` says so of everything still
planned. Type correctness needs that the paths of a plan are states, which the
lemmas about paths give: `CommonLengthIsGreatest` (a maximum exists, by
well-founded induction on a bounded set of numbers) and the types of exit and
enter sequences.

*Clocks.* `SchedulesDoNotDrift` speaks of the time between
two calls; inside a tick the machines and tasks before the cursor have been given
the elapsed time and the others have not. `Counted` is the time a position has been
given, and `ClockInvariant` says that what its accumulator lacks of that is a
multiple of the interval, and less than one interval is left except at the
position that is catching up. A wait or a skipped run leaves the accumulator
alone, and a start or stop resets it, which is why tasks that are commanded are
excepted. At the end of the tick `Counted` is the simulated time.

*Transitions.* The properties need to know what is
left of a transition at any step of it. `PlanInvariant` says it: nothing; or enter
tasks of the innermost states of the machine's leaf, whose clocks have just been set
(`Enters`); or exits of the old leaf from the inside out down to the common
ancestor, the switch, and enters of the new leaf from the outside in (`Switches`).
From it, what `hookTasks` holds are tasks of active states (exits run before the
switch, enters after), and the states entered have clocks that read 0 and are no
older than those that enclose them. That a transition never touches the clock of
a shared state follows for the one step that sets clocks, `SwitchLeaf`.

*Hooks* (`LifecycleHistoryProofs`). `Depth` is how deep a machine is entered: not at
all until its boot task had its turn; the length of its leaf when no plan concerns
it; otherwise what the next step of the plan says. `HistoryInvariant` says that the
states entered so far are, for each machine, the first `Depth` of its active leaf,
with the entry times the runtime has. The three theorems are read off from it.

### The registries

`RuntimeWorldProofs`, for any scripts, any typed names and bodies, and any compiler
and dependency walks that keep `CompilerAssumption` (section 2) and
`PathsAssumption` (a path is a non-empty sequence of names).

| Theorem | States |
| --- | --- |
| `OneWriterForEver` | `SingleWriter` |
| `StatesOutliveTheirTasks` | `TasksFindTheirStates` |
| `MachinesComeAndGoWhole` | `MachineTablesAgree` |
| `AdditionsAreSafe` | `AdditionsOverwriteNothing` |

`WorldInvariant` adds `RegistriesAreSound` to the properties: aliases, values and
paths are such that what the runtime holds is a world of the compiler's
assumption, and every task is sound for the machines registered (its membership
and elapsed paths are known, its assignments mention the variable). The last
is what the drops need: `DropMachine` refuses while a task mentions a state below
the machine, and `DropVar` while a task mentions the variable, so a drop takes
nothing away that a remaining task relies on.

### The upload

`DeviceFileTransferProofs`, for any packages, chunk sizes and limit, any number of
frames in flight, uploads, losses and restarts.

| Theorem | States |
| --- | --- |
| `TransferTypes` | `TypeOK` |
| `TransferFits` | `SessionFits` |
| `TransferIsWhole` | `OnlyWholePackages` |
| `TransferIsValidated` | `PassedDryRun` |
| `TransferImplementsStore` | the loader implements `PackageStore` |
| `CleanUploadsLand` | `CleanUploadLands` |
| `OkOfAnIntactUpload` | `IntactOkIsTrue` |

Wholeness is not inductive: what a session holds may be chunks of several
uploads. The invariant adds `SessionOfOneFile`, that an open session was announced
for one package (`TypeOK` has it that a FILE_BEGIN in flight announces one), and
the final checks of FILE_COMMIT do the rest, given `CrcAssumption`: bytes of a
package's length and checksum are that package. No CRC guarantees this; it is the
idealisation the protocol makes, stated as an assumption that TLC evaluates for
its small packages.

The last two speak of an upload that lost nothing, and need to know what the frames
in flight are. `IntactInv` says that there is a walk of the uploader through its
package (`Wrote`: each state is the one before it after one frame) which begins
where the device is and ends where the uploader is, and that the device has done
the work of all frames before it (`Handled`: the session holds exactly the
beginning of this package, or none is open if the package is too long; then the
package is staged; then it is answered for). Sending makes the walk longer at its
end, a handler shorter at its beginning; `ExpectedChunk` is the heart of it, that
the next chunk is the one the session accepts. Losses, a restart and giving up end
the claim.

### The firmware's loop

`PicoFirmwareLoopProofs`, for any budgets, any intervals shorter than the wrap of the
clock (`LoopAssumption`; the code's are seconds at most, its clock wraps after 49
days), any prefix and lengths (`FrameAssumption`: the prefix has no newline and ends
before the length field), and any items that the tools can write
(`ItemAssumption`: a frame is as long as its header says, a line has one newline,
its last byte, and both fit the firmware's buffers).

| Theorem | States |
| --- | --- |
| `TimersNeverAhead` | `NeverAheadOfTime` |
| `ItemsArriveWhole` | `WholeItemsArrive` |

`ClockInvariant` relates the last tick to the clock reading of the pass. For a
package that was loaded in the middle of a pass its last tick may be later than
that reading; the unsigned difference is then whatever it is, and the invariant
says that this happens once (`LoadedTimers`) and costs no more than two intervals. The
unsigned difference is never more than the true one where the order is right
(`SinceIsBounded`), and a wrap can only make a tick late. `ButtonInvariant` counts the
changes of the confirmed level against the polls they took.

`FramingInvariant` says that unless something was lost, the ingress holds the first
bytes of one item and the wire the rest; one lemma per way a byte can be read then
shows that no byte before the last completes a frame or a line, be it a newline in
a frame's body or its checksum, and the last does.

### The C++ interpreter

`ConformanceProofs` and `MirrorProofs`, for every program the package builder accepts
and every replay.
Assumed besides the scheduler's assumptions: `PackageAssumption` (the builder's
checks) and `ReplayAssumption` (the simulator's bus has an LED and a display, a task
listens to an event that can be dispatched, and nobody starts or stops a task by
hand during a replay).

| Theorem | States |
| --- | --- |
| `AcceptedPackagesKeepRunning` | `HostKeepsRunning`, if `LoopsWait`, `EventTasksNeverWait` and `DivisorsAreNotZero` |
| `HostNeverHangs` | no loop is begun over and over without a wait, if `LoopsWait` |
| `BothKeepTheSameTime` | both runtimes agree on the time and on what has passed of every interval |
| `BothShowTheSame` | `TracesAgree`, if `RunsAlike` |
| `BothGoOnAlike` | `SchedulesAgree`, if `RunsAlike` |
| `BothStayAlike` | `MirrorInvariant`, the inductive invariant of the two |

The three hypotheses say what the package builder does not check. `LoopsWait` is what
the compiler guarantees of its programs (run `compiler`, `LoopsAlwaysWait`); a
task that waits in the body of an event, and a division by zero, do throw in the
interpreter (section 4), so no theorem without them is true. `HostNeverHangs`
needs the first only, though a wait of the package may be computed and turn out
not to be positive: such a wait ends the body instead.

The interpreter is written with folds, one for each loop of the C++ code.
`ForEachProofs` states once, for an arbitrary loop body `Op`, what a proof about a loop
needs: `LoopEndsInItsLastStage` (if the body leads from the k-th of some sets of states
into the next one, or leaves with an exception into the last, the loop ends in the
last), `LoopStaysIn` (the special case of an invariant), `LoopBegins` and `LoopSkips`
(the first pass, and passes that do nothing). The theorems cannot take `Op` as a
parameter, so the module declares it as a constant operator and is instantiated
for each loop body of `HostRuntime`.

`HostOK` is the invariant of the interpreter: the types; a task that waits
remembers where; no divisor is zero. One lemma per function (`PerformKeeps`,
`DrainKeeps`, `ApplyLeafTransitionKeeps`, ...) says that it is kept and that the function
spends no time. `DrainKeeps` follows a body with its statements as stages, and knows
that a body that is followed to its end has met a wait: that is why
`start_runnable_loop_tasks` comes to its end. The clocks are the stages of
`advance_every_tasks` and `advance_state_machines` (`TaskClocksUpTo`,
`MachineClocksUpTo`): the rounds of a while loop are as many as the quotient,
so what is left is the remainder, and remainders add up (`RemaindersAddUp`) to
that of the simulated time. With `SchedulesDoNotDrift` of the simulator this is
`BothKeepTheSameTime`.

*The same traces* (`MirrorProofs`). `RunsAlike` (module `Conformance`) adds to the three
hypotheses those under which the two runtimes are meant to agree; each names a place
where the code of one differs from the other:

| Hypothesis | Where they differ |
| --- | --- |
| `TasksAreGrouped` | the simulator resumes waiting tasks in the order of registration, the interpreter first every tasks, then loops; `CompiledProgram` lists the every tasks before the loops |
| `NoEnterTasks` | the interpreter enters no state after a transition (finding 5) |
| `TimedStatesAreInitial` | nor does it set its entry time: clocks that are read belong to states of the start that no transition enters again |
| `WaitsAreWritten` | at a wait that is not positive the simulator stops the task, the interpreter ends the body; what is computed may be one |
| `BodiesAreShort` | the statement budget is the simulator's alone |
| `SensorsAreAtDefault` | the interpreter reads 512 from its one sensor |
| `TicksTakeTime` | a tick of no length resumes tasks and starts loops in the simulator, the interpreter returns at once |

`Lamp` satisfies all of them, which TLC evaluates.

The interpreter carries out a whole call before the simulator takes its first inner
step, so nothing relates the two states directly until the simulator is idle again.
The invariant runs the interpreter from where the simulator is: `Alike(m)` says that `m` is a
state of the interpreter as far as the simulator has come (queued effects count as shown,
since the interpreter shows them at once), and `LeadsTo(m, host)` that finishing from `m` the
body in progress (`AfterBody`), the exit tasks that are due (`InHooks`), the planned
transition (`InPlan`), the loop of the phase (`AfterLoop`) and the call (`AfterCall`) yields the
state the interpreter has. Each internal action of the simulator takes one piece off
the front of that rest: a statement from the body, an element from a loop
(`LoopGoesOn`, `LoopPassesOver`), a round from a while loop (`OneTick`), a function from the
call (`NextPhaseStep`). There is one lemma per action, named after it (`BodyStep`,
`TickMachineStep`, `SwitchLeafStep`, ...). When the call is over nothing is left of the rest, and
`Alike(host)` is the conclusion.

Two actions are not one piece. The simulator resumes every tasks and loops in one
pass, the interpreter in two; while every tasks come first, the second pass finds what
the first would have found (`ResumeWaitingTaskMirrors`). And the simulator plans a
transition as a sequence of hooks, where the interpreter's function computes its paths from
a leaf it has overwritten, so that what it enters is nothing (`NothingIsEntered`).

That a statement does the same in both needs `Undisturbed`, an invariant of the
simulator in such a replay: no task is stopped, the budget suffices for what is left
of the body, a started loop has a wait ahead, event tasks do not wait, nobody writes the
sensor, and no clock that is read is set again.

### Only model-checked

- The liveness properties `CallsReturn` and `WaitingTasksResume`: the prover has no
  fairness.
- The properties of the compiler (run `compiler`): parser, passes and evaluation are
  recursive operators on trees, which the provers cannot unfold. For the same
  reason `CompilerAssumption` is an assumption of the registries and not a theorem.
- The properties that are violated (section 4).

## 6. Not modelled

- Animators: ramps are arithmetic on fractions, and the model has integers. They
  are declared, checked and referred to in the compiler's modules.
- The lexer and the wording, ranges and layout of diagnostics: text processing
  without state. A fault is its diagnostic id.
- Physics: numerical, in an external engine.
- The page itself: views, rendering, documentation links; the browser's comparison
  of traces after an upload and its timeout. What the page calls is modelled where
  the calls arrive.
- Serialisation to JSON, frame fingerprints, CRC and Base64 bytes, and the size
  limits of the package preflight.
- Pixels and texts of displays, and the firmware's outputs and logs.
- The bytecode spike and the C++17 probe, which nothing else uses.

## 7. Plan

Done: the scheduler, the upload, the registries and the firmware's loop with proofs of
every safety property their runs check; the C++ interpreter against the simulator with
proofs that it keeps running and that both show the same traces; the compiler,
model-checked. Next:

1. `StatePaths` as the compiler's walks use it: that the binder's tables satisfy
   `ResolutionAssumption`, for machines of bounded depth;
2. the browser's upload with its pending comparison of traces, as another client of
   `DeviceFileTransfer`.
