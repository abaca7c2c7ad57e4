---------------------------- MODULE StringEscape ----------------------------
(***************************************************************************)
(* StringEscape.c: the strings of a script, as they stand between the      *)
(* quotes of a listing.  A string is a sequence of characters; those that  *)
(* have no glyph go by their names.                                        *)
(***************************************************************************)
EXTENDS Integers, Sequences, SequencesExt

Letter ==
  [BEL |-> "a", BS |-> "b", TAB |-> "t", LF |-> "n", VT |-> "v", FF |-> "f", CR |-> "r"]
  @@ ("\"" :> "\"") @@ ("'" :> "'") @@ ("?" :> "?") @@ ("\\" :> "\\")

\* The text is cut when the buffer may not take another escape and its end.
escape(in, outsize) ==
  LET written(c) == IF c \in DOMAIN Letter THEN <<"\\", Letter[c]>> ELSE <<c>>
  IN FoldLeft(LAMBDA out, c : IF Len(out) + 3 < outsize THEN out \o written(c) ELSE out,
              <<>>, in)

\* A backslash at the end fails an assertion, one before any other character
\* that is not the letter of an escape aborts: ok = FALSE.
unescape(in) ==
  LET step(st, c) ==
        CASE st.escaped -> [escaped |-> FALSE, ok |-> st.ok /\ c \in Range(Letter),
                            out |-> IF c \in Range(Letter)
                                    THEN Append(st.out, AntiFunction(Letter)[c]) ELSE st.out]
          [] ~st.escaped /\ c = "\\" -> [st EXCEPT !.escaped = TRUE]
          [] OTHER -> [st EXCEPT !.out = Append(@, c)]
      read == FoldLeft(step, [escaped |-> FALSE, ok |-> TRUE, out |-> <<>>], in)
  IN [text |-> read.out, ok |-> read.ok /\ ~read.escaped]
=============================================================================
