---------------------------- MODULE WrittenScript ----------------------------
(***************************************************************************)
(* A script while it is written in the editor, and what the parser makes   *)
(* of the text after every token.  A text is written out for a tree the    *)
(* author has in mind, in one of the ways there are to end the arms of a   *)
(* match, or typed on from an opening with the tokens that can matter      *)
(* there, as long as what follows can make a difference.  A line of the    *)
(* terminal is written the same way.                                       *)
(***************************************************************************)
EXTENDS ScriptSpelling

CONSTANTS Meant,     \* the scripts in the authors' minds
          Openings   \* entry: script or line, given: a beginning,
                     \* tokens: what is typed on it, room: how much

VARIABLES written, entry, tokens, room, meant, outcome

writing == <<written, entry, tokens, room, meant, outcome>>

Parsed(place, text) == IF place = "line" THEN ParseDoStatementLine(text) ELSE ParseProgram(text)

Begin ==
  \/ /\ meant \in {<<program>> : program \in Meant}
     /\ \E draft \in {ScriptText(meant[1])} :
          written \in {CommaAfterEachArm(draft), CommaBetweenArms(draft), ArmsOnLines(draft)}
     /\ entry = "script" /\ tokens = {} /\ room = 0
     /\ outcome = Parsed(entry, written)
  \/ \E opening \in Openings :
       /\ meant = <<>>
       /\ written = opening.given /\ entry = opening.entry
       /\ tokens = opening.tokens /\ room = opening.room
       /\ outcome = Parsed(entry, written)

\* The parser rejects a token of the text, whatever comes after it.
Settled == outcome.fault # "" /\ outcome.seen <= Len(written)

Type ==
  /\ room > 0 /\ ~Settled
  /\ \E token \in tokens : written' = Append(written, token)
  /\ room' = room - 1
  /\ outcome' = Parsed(entry, written')
  /\ UNCHANGED <<entry, tokens, meant>>

-----------------------------------------------------------------------------
(* Properties.                                                             *)

\* The author ends arms with a line break only, and a later arm begins with
\* a minus sign.
MinusContinuesAResult ==
  \E draft \in {ScriptText(meant[1])} : MinusBeginsAnArm(draft) /\ written = ArmsOnLines(draft)

\* A script reads as the tree its author had in mind, however its arms are
\* ended: operators group as their levels say, and each declaration,
\* statement and arm ends where the next begins though nothing but the next
\* token tells.  The one exception is that of the code (parser.ts:2597): on
\* lines of their own, without commas (CHEATSHEET.md:128-138), an arm that
\* begins with a minus sign is subtracted from the result before it, and
\* the script is never the one that was meant.
ReadsAsMeant ==
  meant # <<>> =>
    (outcome.fault = "" /\ outcome.tree = meant[1] <=> ~MinusContinuesAResult)

\* A text without the tokens that only group, and without empty else bodies.
RECURSIVE WithoutEmptyElse(_)
WithoutEmptyElse(text) ==
  IF Len(text) < 3 THEN text
  ELSE IF SubSeq(text, 1, 3) = Ident("else") \o InBraces(<<>>) THEN WithoutEmptyElse(SubSeq(text, 4, Len(text)))
  ELSE <<Head(text)>> \o WithoutEmptyElse(Tail(text))
Ungrouped(text) ==
  SelectSeq(WithoutEmptyElse(text),
            LAMBDA t : t.kind \notin {"left_paren", "right_paren", "comma", "arm_end"})

\* The parser keeps all that an accepted text says and puts nothing
\* elsewhere: the tree, written out again, has the very tokens of the text
\* but for grouping, the unit of every interval included (parser.ts:490; what
\* the later passes make of a unit is not said here).
NothingIsLost ==
  outcome.fault = "" =>
    Ungrouped(written) =
      Ungrouped(IF entry = "line" THEN StatementText(outcome.tree[1])
                ELSE ScriptText(outcome.tree))
=============================================================================
