--------------------------- MODULE MC_Reassembly ---------------------------
(* Strings, lines and sizes for TLC.                                       *)
EXTENDS Reassembly

\* The texts of strings: plain, with escapes, with quotes that get one, with an
\* escape that is not known; LineRoom is 4 and EscapeSize 8.
MCTexts == {<<"b", "c">>, <<"\\", "n", "\\", "\\">>, <<"'", "?", "a">>, <<"?", "?", "?", "?">>,
            <<"\\", "x">>}

f == <<"f", 0>>
g == <<"g", 0>>
v == <<"v", 0>>
label == <<"label", 0>>
ax == <<"reg", "", 3>>
mar == <<"reg", "", 2>>
Sym(name) == <<"sym">> \o name
li(operand) == A!Line(A!LITTOREG, <<mar, operand>>)

MCDataLines ==
  {A!Variable(FALSE, 4, v, FALSE, 1), A!Variable(TRUE, 1, v, FALSE, 0),
   A!Variable(FALSE, 1, <<"w", 0>>, FALSE, 0), A!Variable(TRUE, 1, f, FALSE, 2),
   A!Variable(FALSE, StringSize, <<"s", 0>>, FALSE, 0),
   A!Variable(FALSE, 4, <<"p", 0>>, TRUE, 0), A!Variable(FALSE, 4, <<"p", 0>>, TRUE, 1)}

MCTextLines ==
  {A!Line(A!DEFINITION, <<Sym(n)>>) : n \in {f, g, label}}
  \cup {A!Line(A!JMP, <<Sym(label)>>), A!Line(A!RET, <<>>), A!Line(A!REGTOREG, <<ax, mar>>)}
  \cup {A!Line(op, <<ax>>) : op \in {A!MEMREAD, A!MEMREADB}}
  \cup {li(Sym(n)) : n \in {f, g}}
  \cup {li(<<"str", s, 0>>) : s \in MCTexts}
  \cup {li(<<"var", n, 0>>) : n \in {"v", "w"}}
  \cup {li(<<"num", "", 5>>), li(<<"stack", "", 1>>)}
=============================================================================
