---------------------------- MODULE PackageStore ----------------------------
(***************************************************************************)
(* What the Pico's package loader promises, whatever the serial line does  *)
(* to the frames of an upload: the staging area holds nothing or one whole *)
(* package, and the program the board runs is the one it booted with or a  *)
(* whole package that passed its dry run.                                  *)
(***************************************************************************)
CONSTANTS Files,     \* the packages the uploaders may send
          Boot,      \* the package embedded in the firmware
          Sound      \* the packages the dry run accepts

VARIABLES staged,    \* {} or the one package that RUN_PACKAGE would run
          active     \* the package the board runs

vars == <<staged, active>>

Init == staged = {} /\ active = Boot

Stage(f) == staged' = {f} /\ UNCHANGED active

Discard == staged' = {} /\ UNCHANGED active

RunStaged(f) == f \in staged \cap Sound /\ active' = f /\ UNCHANGED staged

RunLine(f) == f \in Sound /\ active' = f /\ UNCHANGED staged

Restart == staged' = {} /\ active' = Boot

Next == \/ Discard
        \/ Restart
        \/ \E f \in Files : Stage(f) \/ RunStaged(f) \/ RunLine(f)

Spec == Init /\ [][Next]_vars
=============================================================================
