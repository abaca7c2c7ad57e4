------------------------------- MODULE Macros -------------------------------
(***************************************************************************)
(* Macro expansion in preproc.c: parse_macro reads the #define lines of a  *)
(* file, expand_macro replaces the macros of its other lines, and the      *)
(* condition of an #if is expanded the same way and then evaluated.        *)
(*                                                                         *)
(* expand_macro calls itself for the macros in a replacement.  A frame of  *)
(* "frames" is one running call: it holds the replacement with the         *)
(* arguments inserted (cwae), the position up to which it has been read,   *)
(* and the macro calls found in it that are still to be expanded, each     *)
(* with the token positions at which get_macro_info saw it.  Joining the   *)
(* result of one call into cwae moves all the others.                      *)
(***************************************************************************)
EXTENDS CondExpr

CONSTANTS
  Programs,     \* the files: records, see Properties
  MAX_RECURSION \* bound: nested calls of expand_macro (32 in the code)

ASSUME ProgramsAssumption ==
  \A p \in Programs : p.lines # <<>> /\ Last(p.lines) = "\n"

VARIABLES
  program, \* the file being processed, as it was
  file,    \* the tokens of the file that are not read yet
  macros,  \* cpp->macros
  frames,  \* the running calls of expand_macro, the outermost first
  mode,    \* "file" in parse_file, "if" in evaluate_condition
  out,     \* the tokens written by the one or the other
  value,   \* the result of evaluate_condition
  status   \* "running", then how the program ended

vars == <<program, file, macros, frames, mode, out, value, status>>

NoContents == <<"no contents">>

\* cpp_new; "defined" is function-like and names no parameter.
Builtin(count) == [object |-> count = 0, variadic |-> FALSE, count |-> count,
                   params |-> <<>>, contents |-> NoContents]
cpp_new == ("defined" :> Builtin(1)) @@ ("__LINE__" :> Builtin(0))

Init ==
  /\ program \in Programs
  /\ file = program.lines
  /\ macros = cpp_new
  /\ frames = <<>>
  /\ mode = "file"
  /\ out = <<>>
  /\ value = 0
  /\ status = "running"

-----------------------------------------------------------------------------
(* parse_macro                                                             *)

From(s, n) == SubSeq(s, n, Len(s))
IndexOf(s, t) == SelectInSeq(s, LAMBDA x : x = t)
Line(tokens) == SubSeq(tokens, 1, IndexOf(tokens, "\n") - 1)
AfterLine(tokens) == From(tokens, IndexOf(tokens, "\n") + 1)

\* The parameter list that opens s; commas and blanks are passed over alike.
ParamTokens(s) == WithoutBlanks(SubSeq(s, 2, IndexOf(s, ")") - 1))
ParamsOf(s) == SelectSeq(ParamTokens(s), LAMBDA t : t # ",")
ParamsRead(s) ==
  /\ IndexOf(s, ")") # 0
  /\ \A i \in DOMAIN ParamsOf(s) : IsIdentifier(ParamsOf(s)[i]) \/ ParamsOf(s)[i] = "..."
  /\ Cardinality({i \in DOMAIN ParamsOf(s) : ParamsOf(s)[i] = "..."}) <= 1

\* The macro whose definition goes on with s after its name.
MacroOf(s) ==
  LET plain(contents) == [object |-> TRUE, variadic |-> FALSE, count |-> 0,
                          params |-> <<>>, contents |-> contents]
  IN IF s = <<>> THEN plain(NoContents)
     ELSE IF Head(s) = "("
     THEN [object |-> FALSE, variadic |-> Contains(ParamsOf(s), "..."),
           count |-> Len(ParamsOf(s)), params |-> ParamsOf(s),
           contents |-> SkipBlanks(From(s, IndexOf(s, ")") + 1))]
     ELSE plain(SkipBlanks(Tail(s)))

Directive(name) ==
  /\ status = "running" /\ mode = "file" /\ frames = <<>>
  /\ Len(file) > 1 /\ file[1] = "#" /\ file[2] = name

Definition == SkipBlanks(From(Line(file), 3))
DefinitionRead ==
  /\ Definition # <<>>
  /\ IsIdentifier(Head(Definition)) /\ Head(Definition) # "defined"
  /\ Len(Definition) > 1 /\ Definition[2] = "(" => ParamsRead(Tail(Definition))

\* A second definition replaces the first.
parse_macro ==
  /\ Directive("define")
  /\ DefinitionRead
  /\ macros' = (Head(Definition) :> MacroOf(Tail(Definition))) @@ macros
  /\ file' = AfterLine(file)
  /\ UNCHANGED <<program, frames, mode, out, value, status>>

Ends(how) ==
  /\ status' = how
  /\ UNCHANGED <<program, file, macros, frames, mode, out, value>>

MacroRefused == Directive("define") /\ ~DefinitionRead /\ Ends("error")

-----------------------------------------------------------------------------
(* The tokenizers expand_macro can read from: tchain[r] reads the file for *)
(* r = 0 and the replacement of the r-th call otherwise.                   *)

Unread(r) == IF r = 0 THEN file ELSE From(frames[r].cwae, frames[r].pos + 1)
Opens(s) == s # <<>> /\ Head(s) = "("

Frame(name) == [name |-> name, phase |-> "call", cwae |-> <<>>, pos |-> 0,
                todo |-> <<>>, res |-> <<>>]

top == Len(frames)
Running(phase) == status = "running" /\ top > 0 /\ frames[top].phase = phase

\* The tokenizer nearest to r that is not at its end, if it is at "(".
tchain_parens_follows(r) ==
  LET more == {i \in 0..r : Unread(i) # <<>>}
      nearest == CHOOSE i \in more : \A j \in more : j <= i
  IN IF more # {} /\ Opens(Unread(nearest)) THEN nearest ELSE -1

\* Where the arguments of the running call stand: -1 when it has none.
ArgumentsAt ==
  IF Opens(Unread(top - 1)) THEN top - 1
  ELSE IF Unread(top - 1) = <<>> /\ top > 1 THEN tchain_parens_follows(top - 2)
  ELSE -1

\* The arguments of a call of m that opens s: "end" tells how the list ended,
\* n how many tokens it took.  Blanks after "(" and "," are skipped.
CallOf(m, s) ==
  LET next(st) == [st EXCEPT !.args = Append(@, st.cur), !.cur = <<>>, !.skip = TRUE,
                     !.varargs = m.variadic /\ Len(st.args) + 2 = m.count]
      step(st0, t) ==
        LET st == [st0 EXCEPT !.n = @ + 1] IN
        IF st0.end # "open" THEN st0
        ELSE IF t = " " /\ st.skip THEN st
        ELSE IF t = "," /\ st.parens = 0 /\ ~st.varargs
        THEN IF Len(st.args) + 1 >= m.count THEN [st EXCEPT !.end = "error"] ELSE next(st)
        ELSE IF t = ")" /\ st.parens = 0
        THEN [st EXCEPT !.end = IF Len(st.args) + 1 < m.count THEN "error" ELSE "closed",
                        !.args = Append(@, st.cur)]
        ELSE IF m.count = 0 THEN [st EXCEPT !.end = "abort"]
        ELSE [st EXCEPT !.cur = Append(@, t), !.skip = FALSE,
                        !.parens = @ + (IF t = "(" THEN 1 ELSE IF t = ")" THEN -1 ELSE 0)]
      read == FoldLeft(step, [args |-> <<>>, cur |-> <<>>, parens |-> 0, n |-> 1, skip |-> TRUE,
                              varargs |-> m.variadic /\ m.count = 1, end |-> "open"], Tail(s))
  IN IF read.end # "open" THEN read
     ELSE [read EXCEPT !.args = Append(@, read.cur),
                       !.end = IF read.skip THEN "error" ELSE "closed"]

-----------------------------------------------------------------------------
(* The replacement with the arguments inserted                             *)

\* macro_arglist_pos: the argument of a parameter, or no argument.
ArgumentNo(m, t) ==
  IndexOf(m.params, IF m.variadic /\ t = "__VA_ARGS__" THEN "..." ELSE t)
Argument(args, i) == IF i <= Len(args) THEN args[i] ELSE <<>>

\* A string literal in the argument keeps its quotes and backslashes; an end of a
\* line leaves nothing.
Escaped(t) == IF FirstChar(t) # "\"" THEN t
              ELSE Concat([i \in 1..Len(t) |-> IF Chars(t)[i] \in {"\"", "\\"}
                                               THEN "\\" \o Chars(t)[i] ELSE Chars(t)[i]])
stringify(tokens) ==
  LET shown == SelectSeq(tokens, LAMBDA t : t # "\n")
  IN  <<"\"" \o Concat([i \in DOMAIN shown |-> Escaped(shown[i])]) \o "\"">>

\* The blanks before a token are written when it is, those around ## never;
\* "hash" counts the # seen since the last parameter.
Replacement(m, args) ==
  LET flushed(st) == [st EXCEPT !.text = @ \o [i \in 1..st.blanks |-> " "], !.blanks = 0]
      emit(st, tokens) == [flushed(st) EXCEPT !.text = @ \o tokens, !.skip = FALSE]
      step(st, t) ==
        IF ~st.ok THEN st
        ELSE IF t = " " THEN IF st.skip THEN st ELSE [st EXCEPT !.blanks = @ + 1]
        ELSE IF t \in {"#", "##"}
        THEN IF st.hash # 0 THEN [st EXCEPT !.ok = FALSE]
             ELSE IF t = "#" THEN [flushed(st) EXCEPT !.hash = 1, !.skip = TRUE]
             ELSE [st EXCEPT !.hash = 2, !.blanks = 0, !.skip = TRUE]
        ELSE IF IsIdentifier(t) /\ ArgumentNo(m, t) # 0
        THEN LET arg == Argument(args, ArgumentNo(m, t))
             IN [emit(st, IF st.hash = 1 THEN stringify(arg) ELSE arg) EXCEPT !.hash = 0]
        ELSE [emit(st, <<t>>) EXCEPT !.ok = st.hash # 1]
      read == FoldLeft(step, [text |-> <<>>, blanks |-> 0, hash |-> 0, skip |-> FALSE,
                              ok |-> TRUE], m.contents)
  IN [flushed(read) EXCEPT !.ok = read.ok /\ ~read.skip]

-----------------------------------------------------------------------------
(* get_macro_info                                                          *)

\* The calls in "text", the deepest first: a call ends at the parenthesis that
\* closes it, or, when there is none, one token further out for each level.
\* A call of a macro that is being expanded is not one.
get_macro_info(text, visited) ==
  LET call(name, nest, first, last) ==
        [name |-> name, nest |-> nest, first |-> first, last |-> last]
      close(st, last) ==
        LET open == Last(st.open)
        IN [open |-> Front(st.open),
            found |-> Append(st.found, call(open.name, Len(st.open), open.first, last))]
      parenthesis(st, by) ==
        IF st.open = <<>> THEN st ELSE [st EXCEPT !.open[Len(st.open)].parens = @ + by]
      step(st, i) ==
        LET t == text[i] IN
        IF IsIdentifier(t) /\ t \in DOMAIN macros \ visited
        THEN IF macros[t].object
             THEN [st EXCEPT !.found = Append(@, call(t, Len(st.open) + 1, i - 1, i))]
             ELSE IF Opens(From(text, i + 1))
             THEN [st EXCEPT !.open = Append(@, [name |-> t, first |-> i - 1, parens |-> 0])]
             ELSE st
        ELSE IF t = "(" THEN parenthesis(st, 1)
        ELSE IF t = ")" /\ st.open # <<>> /\ Last(st.open).parens = 1 THEN close(st, i)
        ELSE IF t = ")" THEN parenthesis(st, -1)
        ELSE st
      read == FoldLeft(step, [open |-> <<>>, found |-> <<>>], [i \in DOMAIN text |-> i])
      all == FoldLeft(LAMBDA st, i : close(st, Len(text) + i), read,
                      [i \in DOMAIN read.open |-> i]).found
      nests == {all[i].nest : i \in DOMAIN all}
  IN FlattenSeq([d \in 1..(IF nests = {} THEN 0 ELSE Max(nests)) |->
       SelectSeq(all, LAMBDA c : c.nest = Max(nests) + 1 - d)])

-----------------------------------------------------------------------------
(* expand_macro                                                            *)

\* "defined" only is a macro where the text of a condition calls it.
Known == /\ frames[top].name \in DOMAIN macros
         /\ frames[top].name = "defined" => mode = "if" /\ top = 1

Answer(fs, tokens) == frames' = [fs EXCEPT ![top].phase = "return", ![top].res = tokens]
Expanding == UNCHANGED <<program, macros, mode, out, value, status>>

NotAMacro ==
  /\ Running("call")
  /\ ~Known
  /\ Answer(frames, <<frames[top].name>>)
  /\ Expanding /\ UNCHANGED file

TooDeep ==
  /\ Running("call")
  /\ Known
  /\ top > MAX_RECURSION
  /\ Ends("error")

\* A macro that is expanded: its definition.
Called == macros[frames[top].name]
MayExpand == Running("call") /\ Known /\ top <= MAX_RECURSION

\* __LINE__ is replaced by the number of the line; 1 stands for it.
LineNumber ==
  /\ MayExpand
  /\ frames[top].name = "__LINE__"
  /\ Answer(frames, <<"1">>)
  /\ Expanding /\ UNCHANGED file

NoArguments ==
  /\ MayExpand
  /\ ~Called.object
  /\ ArgumentsAt = -1
  /\ Answer(frames, <<frames[top].name>>)
  /\ Expanding /\ UNCHANGED file

\* The call of a function-like macro takes the tokens of its arguments from
\* the tokenizer they stand in.
Call == IF Called.object THEN [end |-> "closed", args |-> <<>>, n |-> 0]
        ELSE CallOf(Called, Unread(ArgumentsAt))
Expands == MayExpand /\ frames[top].name # "__LINE__" /\ (Called.object \/ ArgumentsAt # -1)
Taken == IF Called.object \/ ArgumentsAt = 0 THEN frames
         ELSE [frames EXCEPT ![ArgumentsAt].pos = @ + Call.n]
TakeArguments == file' = IF ~Called.object /\ ArgumentsAt = 0 THEN From(file, Call.n + 1) ELSE file

\* An argument list that does not fit; writing an argument of a macro without
\* parameters leaves the array of arguments.
BadArguments == Expands /\ Call.end # "closed" /\ Ends(Call.end)

IsDefined == Truth(Argument(Call.args, 1) \in {<<name>> : name \in DOMAIN macros})

\* "defined", and a macro without contents.
ExpandsToNothing ==
  /\ Expands
  /\ Call.end = "closed"
  /\ Called.contents = NoContents
  /\ Answer(Taken, IF frames[top].name # "defined" THEN <<>>
                   ELSE IF IsDefined = 1 THEN <<"1">> ELSE <<"0">>)
  /\ TakeArguments
  /\ Expanding

HasContents == Expands /\ Call.end = "closed" /\ Called.contents # NoContents

BadContents == HasContents /\ ~Replacement(Called, Call.args).ok /\ Ends("error")

Visited == {frames[i].name : i \in 1..top}

\* The arguments are inserted and the calls in the result are listed.
Replace ==
  /\ HasContents
  /\ LET read == Replacement(Called, Call.args)
         cwae == Lex(read.text)
     IN /\ read.ok
        /\ frames' = [Taken EXCEPT ![top].phase = "expand", ![top].cwae = cwae,
                        ![top].todo = get_macro_info(cwae, Visited)]
  /\ TakeArguments
  /\ Expanding

\* The next call, deepest first: cwae is read up to the token after its name.
ExpandNext ==
  /\ Running("expand")
  /\ LET f == frames[top]
     IN /\ f.todo # <<>>
        /\ frames' = Append([frames EXCEPT ![top].pos =
                        IF Head(f.todo).first \in -1..Len(f.cwae) - 1
                        THEN Head(f.todo).first + 1 ELSE Len(f.cwae)],
                      Frame(Head(f.todo).name))
  /\ Expanding /\ UNCHANGED file

\* The calls are expanded.  A function-like name at the very end is called
\* with the arguments that follow the call it came from.
Rescan ==
  /\ Running("expand")
  /\ LET f == frames[top]
         calls == /\ f.cwae # <<>>
                  /\ Last(f.cwae) \in DOMAIN macros
                  /\ ~macros[Last(f.cwae)].object
                  /\ tchain_parens_follows(top - 1) # -1
     IN /\ f.todo = <<>>
        /\ IF calls
           THEN frames' = Append([frames EXCEPT ![top].phase = "tail", ![top].res = Front(f.cwae),
                                    ![top].pos = Len(f.cwae)], Frame(Last(f.cwae)))
           ELSE Answer(frames, f.cwae)
  /\ Expanding /\ UNCHANGED file

\* Token positions are unsigned.
Unsigned(n) == n % 2^30

\* A join that only adjusts the calls around the one it replaces.
Moved_around(c, by, diff) ==
  IF Unsigned(by.first) >= Unsigned(c.first) /\ Unsigned(by.last) <= Unsigned(c.last)
  THEN [c EXCEPT !.last = @ + diff]
  ELSE c

\* Where the call c is when the one at "by" has grown by diff.
Moved(c, by, diff) ==
  IF Unsigned(by.first) >= Unsigned(c.first) /\ Unsigned(by.last) <= Unsigned(c.last)
  THEN [c EXCEPT !.last = @ + diff]
  ELSE IF Unsigned(by.first) < Unsigned(c.first)
  THEN [c EXCEPT !.first = @ + diff, !.last = @ + diff]
  ELSE c

JoinBreaks(f) == Head(f.todo).first \notin 0..Len(f.cwae)

\* mem_tokenizers_join: the result replaces the tokens from "first" to where
\* cwae has been read.  It asserts that "first" is a place in cwae.
Joined(f, res) ==
  LET call == Head(f.todo)
      until == IF f.pos > call.first THEN f.pos ELSE call.first
      diff == Len(Lex(res)) - (until - call.first)
  IN [f EXCEPT !.cwae = Lex(SubSeq(@, 1, call.first) \o res \o From(@, until + 1)),
               !.pos = 0,
               !.todo = [i \in 1..Len(@) - 1 |-> Moved(@[i + 1], call, diff)]]

caller == Front(frames)

JoinResult ==
  /\ Running("return") /\ top > 1
  /\ Last(caller).phase = "expand"
  /\ ~JoinBreaks(Last(caller))
  /\ frames' = [caller EXCEPT ![top - 1] = Joined(@, frames[top].res)]
  /\ Expanding /\ UNCHANGED file

JoinAsserts ==
  /\ Running("return") /\ top > 1
  /\ Last(caller).phase = "expand"
  /\ JoinBreaks(Last(caller))
  /\ Ends("abort")

TailResult ==
  /\ Running("return") /\ top > 1
  /\ Last(caller).phase = "tail"
  /\ frames' = [caller EXCEPT ![top - 1].phase = "return",
                              ![top - 1].res = @ \o frames[top].res]
  /\ Expanding /\ UNCHANGED file

WriteResult ==
  /\ Running("return") /\ top = 1
  /\ frames' = <<>>
  /\ out' = out \o frames[1].res
  /\ UNCHANGED <<program, file, macros, mode, value, status>>

-----------------------------------------------------------------------------
(* parse_file and evaluate_condition                                       *)

Reads(m) == status = "running" /\ mode = m /\ frames = <<>>

ReadToken(t) ==
  /\ IF IsIdentifier(t) THEN frames' = <<Frame(t)>> /\ UNCHANGED out
                        ELSE out' = Append(out, t) /\ UNCHANGED frames
  /\ file' = Tail(file)
  /\ UNCHANGED <<program, macros, mode, value, status>>

ReadText == Reads("file") /\ file # <<>> /\ Head(file) # "#" /\ ReadToken(Head(file))
EndOfFile == Reads("file") /\ file = <<>> /\ Ends("ok")

StartCondition ==
  /\ Directive("if")
  /\ file[3] = " "
  /\ mode' = "if"
  /\ file' = From(file, 4)
  /\ UNCHANGED <<program, macros, frames, out, value, status>>

BlankMissing == Directive("if") /\ file[3] # " " /\ Ends("error")

\* A loop that takes the end of the line for a part of the condition.
ReadCondition_past_line == Reads("if") /\ file # <<>> /\ ReadToken(Head(file))

ReadCondition == Reads("if") /\ file # <<>> /\ Head(file) # "\n" /\ ReadToken(Head(file))

\* The loop that reads a condition ends at the end of its line only.
ReadPastEnd == Reads("if") /\ file = <<>> /\ UNCHANGED vars

Evaluate ==
  /\ Reads("if") /\ file # <<>> /\ Head(file) = "\n"
  /\ LET result == do_eval(Lex(out))
     IN IF out = <<>> \/ result.err
        THEN status' = "error" /\ UNCHANGED value
        ELSE status' = "ok" /\ value' = result.v
  /\ file' = Tail(file)
  /\ UNCHANGED <<program, macros, frames, mode, out>>

Terminated == status # "running" /\ UNCHANGED vars

expand_macro ==
  \/ NotAMacro \/ TooDeep \/ LineNumber \/ NoArguments \/ BadArguments
  \/ ExpandsToNothing \/ BadContents \/ Replace \/ ExpandNext \/ Rescan
  \/ JoinResult \/ JoinAsserts \/ TailResult \/ WriteResult

Next ==
  \/ parse_macro \/ MacroRefused \/ ReadText \/ EndOfFile
  \/ StartCondition \/ BlankMissing \/ ReadCondition \/ ReadPastEnd \/ Evaluate
  \/ expand_macro \/ Terminated

\* One process runs until there is nothing left for it to do: WF_vars(Next),
\* where Busy stands for ENABLED <<Next>>_vars (no busy state is a deadlock).
Busy == status = "running" /\ ~(Reads("if") /\ file = <<>>)
Fairness == []<>~Busy \/ []<><<TRUE>>_vars

Spec == Init /\ [][Next]_vars /\ Fairness

-----------------------------------------------------------------------------
(* Properties.  A program has its lines; "means" and "wanted" say what its *)
(* last line, or its condition, is by the rules of C; "plain" tells that   *)
(* preproc.c is expected to agree, "closed" that it has no condition with  *)
(* an open parenthesis.                                                    *)

\* A plain text expands to what it means in C and a plain condition has the
\* value it has in C: the order of expansion, the joins and the precedence
\* climber lose, repeat and misplace nothing.
AgreesWithC ==
  program.plain /\ status # "running" =>
    /\ status = "ok"
    /\ IF mode = "if" THEN value = program.wanted
       ELSE WithoutBlanks(Lex(out)) = program.means

\* While the calls in a replacement are expanded one by one, those that are
\* left are found where the list says, however the text before and inside
\* them has grown or shrunk.
PendingInPlace ==
  program.plain =>
    \A k \in 1..top : \A i \in DOMAIN frames[k].todo :
      LET c == frames[k].todo[i]
      IN /\ c.first \in 0..Len(frames[k].cwae) - 1
         /\ frames[k].cwae[c.first + 1] = c.name
         /\ ~macros[c.name].object => Opens(From(frames[k].cwae, c.first + 2))
         /\ ~macros[c.name].object => frames[k].cwae[c.last] = ")"

\* Every text ends, macros that name themselves included, and so does every
\* condition whose parentheses are closed.  An open call takes the end of the
\* line for an argument and the loop that waits for it never ends.
Terminates == program.closed ~> (status # "running")
=============================================================================
