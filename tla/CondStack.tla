----------------------------- MODULE CondStack -----------------------------
(***************************************************************************)
(* Conditional compilation as the nesting of groups it is: a stack of the  *)
(* open #if groups of the file being read, below it the suspended stacks   *)
(* of the files that included it.  A group is                              *)
(*   "taken"    its current branch is compiled,                            *)
(*   "seeking"  no branch was compiled so far,                             *)
(*   "done"     a branch was compiled, the current one is not,             *)
(*   "dead"     it stands inside a branch that is not compiled.            *)
(***************************************************************************)
EXTENDS Integers, Sequences

CONSTANTS Names,       \* the macro names the text uses
          CondValues   \* the values of #if and #elif conditions

Groups == {"taken", "seeking", "done", "dead"}

VARIABLES stack,   \* the open groups of the current file, innermost last
          outer,   \* the stacks of the files that are including it
          macros,  \* the names that are defined
          line,    \* the last line read, a directive and its operand
          effect,  \* what that line did
          result   \* "parse", and at the end "ok", "error" or "hang"

vars == <<stack, outer, macros, line, effect, result>>

Compiling == \A k \in 1..Len(stack) : stack[k] = "taken"

Init ==
  /\ stack = <<>>
  /\ outer = <<>>
  /\ macros \in SUBSET Names
  /\ line = <<"start", 0>>
  /\ effect = "none"
  /\ result = "parse"

Open(taken) ==
  stack' = Append(stack, IF ~Compiling THEN "dead"
                         ELSE IF taken THEN "taken" ELSE "seeking")

Switch(taken) ==
  LET top == stack[Len(stack)]
  IN stack' = [stack EXCEPT ![Len(stack)] =
                 IF top = "taken" THEN "done"
                 ELSE IF top = "seeking" /\ taken THEN "taken" ELSE top]

\* A line that only touches the groups.
Grouping(l) ==
  /\ line' = l
  /\ effect' = "grouped"
  /\ UNCHANGED <<outer, macros, result>>

\* An #if whose condition has the value -1 opens a group that is not taken.
If(v) == Grouping(<<"if", v>>) /\ Open(v \notin {0, -1})
Ifdef(n) == Grouping(<<"ifdef", n>>) /\ Open(n \in macros)
Ifndef(n) == Grouping(<<"ifndef", n>>) /\ Open(n \notin macros)
Elif(v) == stack # <<>> /\ Grouping(<<"elif", v>>) /\ Switch(v # 0)
Else == stack # <<>> /\ Grouping(<<"else", 0>>) /\ Switch(TRUE)
Endif ==
  /\ stack # <<>>
  /\ Grouping(<<"endif", 0>>)
  /\ stack' = [k \in 1..Len(stack)-1 |-> stack[k]]

\* Lines with an effect of their own have it exactly when they are compiled;
\* a #pragma is copied to the output even in a branch that is not.
Text(n) ==
  /\ line' = <<"text", n>>
  /\ effect' = IF ~Compiling THEN "skipped"
               ELSE IF n \in macros THEN "expanded" ELSE "emitted"
  /\ UNCHANGED <<stack, outer, macros, result>>

Pragma ==
  /\ line' = <<"pragma", 0>>
  /\ effect' = "emitted"
  /\ UNCHANGED <<stack, outer, macros, result>>

Define(n) ==
  /\ line' = <<"define", n>>
  /\ effect' = IF Compiling THEN "defined" ELSE "skipped"
  /\ macros' = IF Compiling THEN macros \cup {n} ELSE macros
  /\ UNCHANGED <<stack, outer, result>>

Undef(n) ==
  /\ line' = <<"undef", n>>
  /\ effect' = IF Compiling THEN "undefined" ELSE "skipped"
  /\ macros' = IF Compiling THEN macros \ {n} ELSE macros
  /\ UNCHANGED <<stack, outer, result>>

Include ==
  /\ line' = <<"include", 0>>
  /\ effect' = IF Compiling THEN "included" ELSE "skipped"
  /\ outer' = IF Compiling THEN Append(outer, stack) ELSE outer
  /\ stack' = IF Compiling THEN <<>> ELSE stack
  /\ UNCHANGED <<macros, result>>

\* #error, a missing include file, a malformed line.
Fail ==
  /\ line' = <<"bad", 0>>
  /\ effect' = IF Compiling THEN "failed" ELSE "skipped"
  /\ result' = IF Compiling THEN "error" ELSE "parse"
  /\ UNCHANGED <<stack, outer, macros>>

\* The innermost group waits for an #elif whose condition holds.
Seeking == stack # <<>> /\ stack[Len(stack)] = "seeking"

\* A malformed #elif condition is only noticed where its value matters.
BadElif ==
  /\ Seeking
  /\ line' = <<"bad elif", 0>>
  /\ effect' = "failed"
  /\ result' = "error"
  /\ UNCHANGED <<stack, outer, macros>>

\* The file ends within a directive: an #if or #elif never comes back from
\* evaluating its condition, an #ifdef fails.
CutOff ==
  /\ line' = <<"cut", 0>>
  /\ effect' = "failed"
  /\ \/ result' = "error"
     \/ (Compiling \/ Seeking) /\ result' = "hang"
  /\ UNCHANGED <<stack, outer, macros>>

\* A file may only end with all its groups closed.
EndOfFile ==
  /\ line' = <<"eof", 0>>
  /\ effect' = "none"
  /\ IF stack # <<>>
       THEN result' = "error" /\ UNCHANGED <<stack, outer>>
       ELSE IF outer = <<>>
       THEN result' = "ok" /\ UNCHANGED <<stack, outer>>
       ELSE /\ stack' = outer[Len(outer)]
            /\ outer' = [k \in 1..Len(outer)-1 |-> outer[k]]
            /\ UNCHANGED result
  /\ UNCHANGED macros

Next ==
  /\ result = "parse"
  /\ \/ \E v \in CondValues : If(v) \/ Elif(v)
     \/ \E n \in Names : Ifdef(n) \/ Ifndef(n) \/ Text(n) \/ Define(n) \/ Undef(n)
     \/ Else \/ Endif \/ Pragma \/ Include \/ Fail \/ BadElif \/ CutOff \/ EndOfFile

Spec == Init /\ [][Next]_vars
=============================================================================
