------------------------------ MODULE Preproc ------------------------------
(***************************************************************************)
(* The conditional and include machinery of the assembler's preprocessor:  *)
(* parse_file and include_file of preproc.c, one action per kind of line.  *)
(* Three counters stand for the nesting of #if groups: how many are open,  *)
(* how many of them, from the outermost, are in a compiled branch, and the *)
(* level up to which a branch was compiled.  An #include runs parse_file   *)
(* again with fresh counters; macros are shared between the files.         *)
(***************************************************************************)
EXTENDS Integers, Sequences

CONSTANTS
  Names,       \* the macro names the text uses
  CondValues,  \* the values evaluate_condition delivers
  Balanced,    \* TRUE: #elif, #else and #endif only stand in an open group
  MaxLines,    \* bound: lines read
  MaxLevel,    \* bound: open groups in one file
  MaxIncludes  \* bound: files suspended by #include

ASSUME ConstantsAssumption ==
  /\ CondValues \subseteq Int
  /\ Balanced \in BOOLEAN
  /\ MaxLines \in Nat /\ MaxLevel \in Nat /\ MaxIncludes \in Nat

VARIABLES
  if_level, if_level_active, if_level_satisfied, \* of the current parse_file
  files,   \* the counters of the parse_file calls suspended in include_file
  macros,  \* the keys of cpp->macros
  line,    \* the last line read
  effect,  \* what it did
  result,  \* "parse" while reading, then the outcome of cpp_run
  open,    \* the number of groups open by the rules of C, in the current file
  lines    \* lines read so far

counters == <<if_level, if_level_active, if_level_satisfied>>
vars == <<counters, files, macros, line, effect, result, open, lines>>

Levels == -(MaxLevel + 1)..MaxLevel
Saved == [level : Levels, active : Levels, satisfied : Levels, open : Nat]

\* The counters stay in the range the groups of one file span, and the rest
\* holds values of its kind.
TypeOK ==
  /\ if_level \in Levels
  /\ if_level_active \in Levels
  /\ if_level_satisfied \in Levels
  /\ files \in Seq(Saved)
  /\ macros \in SUBSET Names
  /\ effect \in {"none", "grouped", "skipped", "expanded", "emitted", "defined",
                 "undefined", "included", "failed"}
  /\ result \in {"parse", "ok", "error", "hang"}
  /\ open \in Nat
  /\ lines \in Nat

Init ==
  /\ if_level = 0 /\ if_level_active = 0 /\ if_level_satisfied = 0
  /\ files = <<>>
  /\ macros \in SUBSET Names
  /\ line = <<"start", 0>>
  /\ effect = "none"
  /\ result = "parse"
  /\ open = 0
  /\ lines = 0

-----------------------------------------------------------------------------
(* The macros of parse_file                                                *)

all_levels_active == if_level_active = if_level
prev_level_active == if_level_active = if_level - 1
skip_conditional_block == if_level > if_level_active

AtMost(a, x) == IF a > x THEN x ELSE a

\* A set_level that forgets to lower if_level_satisfied with the level.
set_level_keeps_satisfied(X, V) ==
  LET active == AtMost(if_level_active, X)
  IN /\ if_level' = X
     /\ if_level_active' =
          IF V = -1 THEN active
          ELSE IF V # 0 THEN X
          ELSE IF active = X THEN X - 1 ELSE active
     /\ if_level_satisfied' = IF V \notin {0, -1} THEN X ELSE if_level_satisfied

\* set_level(X, V): the counters never exceed the new level; V = -1 leaves it
\* at that, a true V takes the branch, a false one does not.
set_level(X, V) ==
  LET active == AtMost(if_level_active, X)
      satisfied == AtMost(if_level_satisfied, X)
  IN /\ if_level' = X
     /\ if_level_active' =
          IF V = -1 THEN active
          ELSE IF V # 0 THEN X
          ELSE IF active = X THEN X - 1 ELSE active
     /\ if_level_satisfied' = IF V \notin {0, -1} THEN X ELSE satisfied

-----------------------------------------------------------------------------
(* The lines of a file                                                     *)

Read(l) == line' = l

Grouping(l) ==
  /\ Read(l)
  /\ effect' = "grouped"
  /\ UNCHANGED <<files, macros, result>>

\* #if, #ifdef, #ifndef: the condition is only evaluated where its value counts.
OpenGroup(v) ==
  /\ if_level < MaxLevel
  /\ open' = open + 1
  /\ set_level(if_level + 1, IF all_levels_active THEN v ELSE 0)

AsInt(b) == IF b THEN 1 ELSE 0

If(v) == Grouping(<<"if", v>>) /\ OpenGroup(v)
Ifdef(n) == Grouping(<<"ifdef", n>>) /\ OpenGroup(AsInt(n \in macros))
Ifndef(n) == Grouping(<<"ifndef", n>>) /\ OpenGroup(AsInt(n \notin macros))

\* What makes #elif evaluate its condition.
branch_wanted == prev_level_active /\ if_level_satisfied < if_level

\* One that starts a branch though an earlier one was compiled.
SwitchForgetsSatisfied(v) ==
  /\ Balanced => open > 0
  /\ IF prev_level_active
       THEN IF v # 0
              THEN /\ if_level_active' = if_level
                   /\ if_level_satisfied' = if_level
              ELSE UNCHANGED <<if_level_active, if_level_satisfied>>
       ELSE /\ if_level_active' =
                 IF all_levels_active THEN if_level_active - 1 ELSE if_level_active
            /\ UNCHANGED if_level_satisfied
  /\ UNCHANGED <<if_level, open>>

\* #elif and #else: the branch that was compiled ends; one that may still be
\* compiled starts if nothing of the group was.
SwitchBranch(v) ==
  /\ Balanced => open > 0
  /\ IF branch_wanted
       THEN IF v # 0
              THEN /\ if_level_active' = if_level
                   /\ if_level_satisfied' = if_level
              ELSE UNCHANGED <<if_level_active, if_level_satisfied>>
       ELSE /\ if_level_active' =
                 IF all_levels_active THEN if_level_active - 1 ELSE if_level_active
            /\ UNCHANGED if_level_satisfied
  /\ UNCHANGED <<if_level, open>>

Elif(v) == Grouping(<<"elif", v>>) /\ SwitchBranch(v)
Else == Grouping(<<"else", 0>>) /\ SwitchBranch(1)

Endif ==
  /\ Balanced => open > 0
  /\ if_level > -MaxLevel
  /\ Grouping(<<"endif", 0>>)
  /\ set_level(if_level - 1, -1)
  /\ open' = IF open > 0 THEN open - 1 ELSE 0

\* A line of text holding the name n: expand_macro copies a name that is no
\* macro. In a skipped branch the tokens are dropped.
Text(n) ==
  /\ Read(<<"text", n>>)
  /\ effect' = IF skip_conditional_block THEN "skipped"
               ELSE IF n \in macros THEN "expanded" ELSE "emitted"
  /\ UNCHANGED <<counters, files, macros, result, open>>

\* #pragma is not among the directives the skipping branch leaves out.
Pragma ==
  /\ Read(<<"pragma", 0>>)
  /\ effect' = "emitted"
  /\ UNCHANGED <<counters, files, macros, result, open>>

\* parse_macro replaces what the name meant before.
Define(n) ==
  /\ Read(<<"define", n>>)
  /\ IF skip_conditional_block
       THEN effect' = "skipped" /\ UNCHANGED macros
       ELSE effect' = "defined" /\ macros' = macros \cup {n}
  /\ UNCHANGED <<counters, files, result, open>>

Undef(n) ==
  /\ Read(<<"undef", n>>)
  /\ IF skip_conditional_block
       THEN effect' = "skipped" /\ UNCHANGED macros
       ELSE effect' = "undefined" /\ macros' = macros \ {n}
  /\ UNCHANGED <<counters, files, result, open>>

\* include_file: the file is found and parse_file runs on it.
Include ==
  /\ Read(<<"include", 0>>)
  /\ IF skip_conditional_block
       THEN /\ effect' = "skipped"
            /\ UNCHANGED <<counters, files, open>>
       ELSE /\ Len(files) < MaxIncludes
            /\ effect' = "included"
            /\ files' = Append(files, [level |-> if_level, active |-> if_level_active,
                                       satisfied |-> if_level_satisfied, open |-> open])
            /\ if_level' = 0 /\ if_level_active' = 0 /\ if_level_satisfied' = 0
            /\ open' = 0
  /\ UNCHANGED <<macros, result>>

\* #error, an include file that is not found, an unknown directive, a '#' that
\* does not start its line, a #define or #undef without a name: parse_file and
\* every parse_file above it return 0.
Fail ==
  /\ Read(<<"bad", 0>>)
  /\ IF skip_conditional_block
       THEN effect' = "skipped" /\ UNCHANGED result
       ELSE effect' = "failed" /\ result' = "error"
  /\ UNCHANGED <<counters, files, macros, open>>

\* An #elif whose condition is malformed fails where it is evaluated, which is
\* in a skipped branch.
BadElif ==
  /\ branch_wanted
  /\ Balanced => open > 0
  /\ Read(<<"bad elif", 0>>)
  /\ effect' = "failed"
  /\ result' = "error"
  /\ UNCHANGED <<counters, files, macros, open>>

\* The last line has no newline: an #if or #elif that is evaluated reads
\* end-of-file tokens for ever, an #ifdef or #line fails, skipped or not.
CutOff ==
  /\ Read(<<"cut", 0>>)
  /\ effect' = "failed"
  /\ \/ result' = "error"
     \/ all_levels_active /\ result' = "hang"
     \/ branch_wanted /\ (Balanced => open > 0) /\ result' = "hang"
  /\ UNCHANGED <<counters, files, macros, open>>

\* An end of file that asks for compiled levels instead of open ones.
EndOfFileTestsActive ==
  /\ Read(<<"eof", 0>>)
  /\ effect' = "none"
  /\ result' = IF if_level_active # 0 THEN "error" ELSE IF files = <<>> THEN "ok" ELSE "parse"
  /\ UNCHANGED <<counters, files, open, macros>>

\* The file ends: with an #if level left parse_file fails, else it returns to
\* the parse_file whose include_file called it.
EndOfFile ==
  /\ Read(<<"eof", 0>>)
  /\ effect' = "none"
  /\ IF if_level # 0
       THEN result' = "error" /\ UNCHANGED <<counters, files, open>>
       ELSE IF files = <<>>
       THEN result' = "ok" /\ UNCHANGED <<counters, files, open>>
       ELSE LET f == files[Len(files)]
            IN /\ if_level' = f.level
               /\ if_level_active' = f.active
               /\ if_level_satisfied' = f.satisfied
               /\ open' = f.open
               /\ files' = [k \in 1..Len(files)-1 |-> files[k]]
               /\ UNCHANGED result
  /\ UNCHANGED macros

Next ==
  /\ result = "parse"
  /\ lines < MaxLines
  /\ lines' = lines + 1
  /\ \/ \E v \in CondValues : If(v) \/ Elif(v)
     \/ \E n \in Names : Ifdef(n) \/ Ifndef(n) \/ Text(n) \/ Define(n) \/ Undef(n)
     \/ Else \/ Endif \/ Pragma \/ Include \/ Fail \/ BadElif \/ CutOff \/ EndOfFile

Spec == Init /\ [][Next]_vars

-----------------------------------------------------------------------------
(* Properties                                                              *)

\* The shape the counters of a balanced file keep: the compiled levels are the
\* outer ones, and at most the level after them had a branch compiled.
Shape(level, active, satisfied) ==
  /\ 0 <= active /\ active <= level
  /\ active <= satisfied /\ satisfied <= active + 1 /\ satisfied <= level

CountersShape ==
  /\ Shape(if_level, if_level_active, if_level_satisfied)
  /\ if_level = open
  /\ \A k \in 1..Len(files) :
       /\ Shape(files[k].level, files[k].active, files[k].satisfied)
       /\ files[k].level = files[k].open

\* The groups three counters stand for.
GroupAt(k, active, satisfied) ==
  IF k <= active THEN "taken"
  ELSE IF k > active + 1 THEN "dead"
  ELSE IF k <= satisfied THEN "done" ELSE "seeking"

GroupsOf(level, active, satisfied) == [k \in 1..level |-> GroupAt(k, active, satisfied)]

StackOf == GroupsOf(if_level, if_level_active, if_level_satisfied)
OuterOf ==
  [k \in 1..Len(files) |->
     GroupsOf(files[k].level, files[k].active, files[k].satisfied)]

\* The three counters of parse_file do what a stack of groups does: every line
\* of every nesting of conditionals and includes has the effect the groups
\* around it give it.
CS == INSTANCE CondStack WITH stack <- StackOf, outer <- OuterOf
ImplementsCondStack == CS!Spec

\* parse_file ends with error("unterminated #if") when a group is still open:
\* a file that is accepted has closed every group it opened.
UnterminatedIsReported == result = "ok" => open = 0
=============================================================================
