------------------------------ MODULE CMacros ------------------------------
(***************************************************************************)
(* What a line means by the rules of C, for comparison with Macros: the    *)
(* arguments are expanded before they are inserted, a macro is hidden from *)
(* the tokens that come from its own expansion, and two tokens stay two    *)
(* tokens unless ## joins them.  Text here is free of blanks and of #.     *)
(***************************************************************************)
EXTENDS MacroText

Fresh(tokens) == [i \in DOMAIN tokens |-> [t |-> tokens[i], hide |-> {}]]
Invalid == [t |-> "#error", hide |-> {}]
Spelling(toks) == [i \in DOMAIN toks |-> toks[i].t]

\* The arguments of a call whose "(" is the first token, and what follows.
CArguments(toks) ==
  LET step(st, x) ==
        IF st.closed THEN [st EXCEPT !.rest = Append(@, x)]
        ELSE IF st.depth = 1 /\ x.t = ")" THEN [st EXCEPT !.closed = TRUE, !.hide = x.hide]
        ELSE IF st.depth = 1 /\ x.t = "," THEN [st EXCEPT !.args = Append(@, <<>>)]
        ELSE IF st.depth = 0 THEN [st EXCEPT !.depth = 1]
        ELSE [st EXCEPT !.args[Len(st.args)] = Append(@, x),
                        !.depth = @ + (IF x.t = "(" THEN 1 ELSE IF x.t = ")" THEN -1 ELSE 0)]
  IN FoldLeft(step, [closed |-> FALSE, depth |-> 0, args |-> <<<<>>>>, rest |-> <<>>,
                     hide |-> {}], toks)

RECURSIVE CExpand(_, _)

\* The contents of a macro with the arguments in place.
CInserted(defs, m, args) ==
  LET param(t) == SelectInSeq(m.params, LAMBDA p : p = t)
      body == WithoutBlanks(m.contents)
      glued(i) == \/ i > 1 /\ body[i - 1] = "##"
                  \/ i < Len(body) /\ body[i + 1] = "##"
      piece(i) == IF param(body[i]) = 0 THEN Fresh(<<body[i]>>)
                  ELSE IF glued(i) THEN args[param(body[i])]
                  ELSE CExpand(defs, args[param(body[i])])
      paste(l, r) == Front(l) \o <<[t |-> Last(l).t \o Head(r).t,
                                    hide |-> Last(l).hide \cap Head(r).hide]>> \o Tail(r)
      step(done, i) == IF body[i] = "##" THEN done
                       ELSE IF i > 1 /\ body[i - 1] = "##" /\ done # <<>> /\ piece(i) # <<>>
                       THEN paste(done, piece(i))
                       ELSE done \o piece(i)
  IN FoldLeft(step, <<>>, [i \in DOMAIN body |-> i])

CExpand(defs, toks) ==
  IF toks = <<>> THEN <<>>
  ELSE LET x == Head(toks)
           call == CArguments(Tail(toks))
           hidden(new, hide) == [i \in DOMAIN new |-> [new[i] EXCEPT !.hide = @ \cup hide]]
       IN IF x.t \notin DOMAIN defs \/ x.t \in x.hide
          THEN <<x>> \o CExpand(defs, Tail(toks))
          ELSE IF defs[x.t].object
          THEN CExpand(defs, hidden(CInserted(defs, defs[x.t], <<>>), x.hide \cup {x.t})
                             \o Tail(toks))
          ELSE IF Len(toks) > 1 /\ toks[2].t = "(" /\ call.closed
          THEN IF Len(call.args) # Len(defs[x.t].params) THEN <<Invalid>> ELSE CExpand(defs, hidden(CInserted(defs, defs[x.t], call.args),
                                    (x.hide \cap call.hide) \cup {x.t}) \o call.rest)
          ELSE <<x>> \o CExpand(defs, Tail(toks))

\* The tokens a line becomes.
CMeaning(defs, line) == Spelling(CExpand(defs, Fresh(WithoutBlanks(line))))

-----------------------------------------------------------------------------
(* The lines on which preproc.c is expected to agree.                      *)

Names(defs, tokens) == {tokens[i] : i \in DOMAIN tokens} \cap DOMAIN defs

\* The macros that can come up when "names" are expanded, these included.
RECURSIVE Reach(_, _)
Reach(defs, names) ==
  LET more == names \cup UNION {Names(defs, defs[n].contents) : n \in names}
  IN IF more = names THEN names ELSE Reach(defs, more)

\* No macro comes up in its own expansion or in its own arguments, a
\* function-like one is always called where it is named, words stay apart.
PlainText(defs, text) ==
  /\ \A i \in DOMAIN text :
       /\ text[i] \notin {"#", "##"}
       /\ i < Len(text) /\ text[i] = ")" => ~IsWord(text[i + 1])
       /\ text[i] \in DOMAIN defs /\ ~defs[text[i]].object =>
            LET after == SubSeq(text, i + 1, Len(text))
                call == CArguments(Fresh(after))
                inside == SubSeq(after, 1, Len(after) - Len(call.rest))
            IN /\ after # <<>> /\ Head(after) = "("
               /\ call.closed /\ Len(call.args) = Len(defs[text[i]].params)
               /\ text[i] \notin Reach(defs, Names(defs, inside))

PlainLine(defs, line) ==
  LET live == Reach(defs, Names(defs, line))
  IN /\ PlainText(defs, line)
     /\ \A n \in live : /\ PlainText(defs, defs[n].contents)
                        /\ n \notin Reach(defs, Names(defs, defs[n].contents))
=============================================================================
