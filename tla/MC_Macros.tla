----------------------------- MODULE MC_Macros -----------------------------
(***************************************************************************)
(* The programs for Macros: four macros, each with a handful of contents,  *)
(* before a line of text; and conditions of two operators or one.          *)
(***************************************************************************)
EXTENDS Macros, CMacros, TLC

Object(contents) == [object |-> TRUE, params |-> <<>>, contents |-> contents]
Function(params, contents) ==
  [object |-> FALSE, params |-> params, contents |-> contents]

Commas(s) == IF s = <<>> THEN <<>>
             ELSE FoldLeft(LAMBDA l, t : l \o <<",", t>>, <<Head(s)>>, Tail(s))
Define(name, m) ==
  <<"#", "define", " ", name>>
  \o (IF m.object THEN <<" ">> ELSE <<"(">> \o Commas(m.params) \o <<")", " ">>)
  \o m.contents \o <<"\n">>
DefineAll(defs) ==
  Define("k", defs.k) \o Define("m", defs.m) \o Define("f", defs.f) \o Define("g", defs.g)

Closed(line) ==
  FoldLeft(LAMBDA n, t : n + (IF t = "(" THEN 1 ELSE IF t = ")" THEN -1 ELSE 0), 0, line) = 0

-----------------------------------------------------------------------------
(* Text                                                                    *)

KMacros == {Object(c) : c \in {<<"5">>, <<"m">>, <<"a", "+", "b">>, <<>>}}
MMacros == {Object(c) : c \in {
  <<"k", "+", "k">>, <<"(", "m", ")">>, <<"f">>,
  <<"f", "(", "g", "(", "1", ",", "k", ")", ")", "+", "k">>,
  <<"f", "(", "1", ")", "+", "g", "(", "k", ",", "k", ")", "+", "k">>}}
FMacros == {Function(<<"x">>, c) : c \in {
  <<"x", "+", "x">>, <<"g", "(", "x", ",", "k", ")">>, <<"k", " ", "(", "x", ")">>,
  <<"g">>, <<"#", "x">>}} \cup {Function(<<>>, <<"f", "(", ")">>)}
GMacros == {Function(<<"x", "y">>, c) : c \in {
  <<"y", " ", "##", "x">>, <<"f", "(", "x", ")", "+", "y">>, <<"y">>,
  <<"f", "(", "f", "(", "x", ")", ")">>}}
  \cup {Function(<<"x", "...">>, <<"x", "+", "(", "__VA_ARGS__", ")">>)}

Lines == {
  <<"m">>, <<"f", "(", "1", ")">>, <<"f", "(", "k", ")", "+", "m">>,
  <<"g", "(", "f", "(", "1", ")", ",", " ", "m", ")">>,
  <<"g", "(", "(", "1", ",", "2", ")", ",", "k", ")", "b">>,
  <<"f", "(", "2", ")", "(", "3", ",", "k", ")">>,
  <<"f", "(", "f", "(", "1", ")", ")">>, <<"m", "(", "k", ")">>,
  <<"f", "(", "g", ")", "(", "1", ",", "2", ")">>,
  <<"g", "(", "1", ")", "+", "__LINE__">>, <<"g", "(", "1", ",", "f">>,
  <<"f", "(", ")">>, <<"a", "+", "m", " ", "f", " ", "k">>}

Text(defs, line) ==
  [lines |-> DefineAll(defs) \o line \o <<"\n">>, closed |-> TRUE, wanted |-> 0,
   plain |-> /\ \A n \in DOMAIN defs : "..." \notin {defs[n].params[i] : i \in DOMAIN defs[n].params}
             /\ PlainLine(defs, line) /\ "__LINE__" \notin {line[i] : i \in DOMAIN line},
   means |-> IF Closed(line) THEN CMeaning(defs, line) ELSE <<>>]

Texts == {Text(defs, line) : line \in Lines,
            defs \in [k : KMacros, m : MMacros, f : FMacros, g : GMacros]}

-----------------------------------------------------------------------------
(* Conditions                                                              *)

CLevels == << {"||"}, {"&&"}, {"|"}, {"^"}, {"&"}, {"==", "!="}, {"<", ">", "<=", ">="},
              {"<<", ">>"}, {"+", "-"}, {"*", "/", "%"} >>
CLevel(op) == CHOOSE l \in 1..10 : op \in CLevels[l]
COperators == UNION {CLevels[l] : l \in 1..10}

BitsOf(n) == {b \in 0..5 : (n \div 2^b) % 2 = 1}
FromBits(S) == FoldSet(LAMBDA b, n : n + 2^b, 0, S)
C(b) == IF b THEN 1 ELSE 0
\* The values here are not negative where C leaves the result open.
CApply(op, a, b) ==
  CASE op = "||" -> C({a, b} # {0})           [] op = "&&" -> C(0 \notin {a, b})
    [] op = "|" -> FromBits(BitsOf(a) \cup BitsOf(b))
    [] op = "&" -> FromBits(BitsOf(a) \cap BitsOf(b))
    [] op = "^" -> FromBits((BitsOf(a) \cup BitsOf(b)) \ (BitsOf(a) \cap BitsOf(b)))
    [] op = "==" -> C(a = b)  [] op = "!=" -> C(~(a = b))  [] op = "<" -> C(b > a)
    [] op = ">" -> C(b < a)   [] op = "<=" -> C(~(b < a))  [] op = ">=" -> C(~(b > a))
    [] op = "<<" -> a * 2^b   [] op = ">>" -> a \div 2^b
    [] op = "+" -> b + a      [] op = "-" -> -(b - a)      [] op = "*" -> b * a
    [] op = "/" -> a \div b   [] OTHER -> a % b
CDefined(op, a, b) ==
  /\ op \in {"/", "%"} => b > 0 /\ a >= 0
  /\ op \in {"<<", ">>", "|", "&", "^"} => a >= 0 /\ b >= 0

\* Operands: how they are written, their value, how tightly they hang together.
Operand(text, v) == [text |-> text, v |-> v, level |-> 11, ok |-> TRUE]
Leaves == <<Operand(<<"3">>, 3), Operand(<<"k">>, 2), Operand(<<"U">>, 0),
            Operand(<<"g", "(", "0", ")">>, 1), Operand(<<"defined", "(", "k", ")">>, 1),
            Operand(<<"defined", "(", "U", ")">>, 0)>>
Guarded(e, level) ==
  IF e.level >= level THEN e.text ELSE <<"(">> \o e.text \o <<")">>
Binary(op, l, r) ==
  [text |-> Guarded(l, CLevel(op)) \o <<" ", op, " ">> \o Guarded(r, CLevel(op) + 1),
   v |-> IF l.ok /\ r.ok /\ CDefined(op, l.v, r.v) THEN CApply(op, l.v, r.v) ELSE 0,
   level |-> CLevel(op), ok |-> l.ok /\ r.ok /\ CDefined(op, l.v, r.v)]
Unary(op, e) ==
  [e EXCEPT !.text = <<op>> \o Guarded(e, 11), !.level = 11,
            !.v = CASE op = "!" -> C(e.v = 0) [] op = "~" -> -1 - e.v
                    [] op = "-" -> -e.v [] OTHER -> e.v]

Triples == {<<1, 2, 4>>, <<3, 1, 2>>, <<4, 6, 1>>}
Expressions ==
  UNION {{Binary(q, Binary(p, Leaves[s[1]], Leaves[s[2]]), Leaves[s[3]]),
          Binary(p, Leaves[s[1]], Binary(q, Leaves[s[2]], Leaves[s[3]]))} :
            p \in COperators, q \in COperators, s \in Triples}
  \cup UNION {{Binary(p, Unary(u, Leaves[s[1]]), Leaves[s[2]]),
               Binary(p, Leaves[s[1]], Unary(u, Leaves[s[2]])),
               Unary(u, Binary(p, Leaves[s[1]], Leaves[s[2]]))} :
                 u \in {"!", "~", "-", "+"}, p \in COperators, s \in Triples}

ConditionMacros ==
  [k |-> Object(<<"2">>), m |-> Object(<<"k">>), f |-> Function(<<"x">>, <<"m">>),
   g |-> Function(<<"x">>, <<"(", "x", "+", "1", ")">>)]
Condition(text, wanted, plain) ==
  [lines |-> DefineAll(ConditionMacros) \o <<"#", "if">> \o text \o <<"\n">>,
   closed |-> Closed(text), plain |-> plain, means |-> <<>>, wanted |-> wanted]
Conditions ==
  {Condition(<<" ">> \o e.text, e.v, e.ok) : e \in Expressions}
  \cup {Condition(text, 0, FALSE) : text \in {
     <<" ">>, <<"(", "1", ")">>, <<" ", "g", "(", "1">>, <<" ", "(", "1">>, <<" ", "1", "+">>,
     <<" ", "1", "!">>, <<" ", ")">>, <<" ", "defined", " ", "k">>, <<" ", "defined", "(", "k">>}}

BadDefinitions ==
  {[lines |-> <<"#", "define", " ">> \o s \o <<"\n">>, closed |-> TRUE, plain |-> FALSE,
    means |-> <<>>, wanted |-> 0] :
      s \in {<<>>, <<"1">>, <<"defined">>, <<"f", "(", "x">>, <<"f", "(", "1", ")">>, <<"k">>}}

\* Expansions that end badly: a name that is always called with what follows,
\* a # without a parameter, results that grow into the words beside them, an
\* alias that is called.
OddMacros ==
  [k |-> Object(<<"g">>), m |-> Object(<<"g", "(", "5", ")", "b", "+", "g", "(", "5", ")", "b", "+", "k">>),
   f |-> Function(<<"x">>, <<"f">>), g |-> Function(<<"x">>, <<"x">>)]
OddTexts ==
  {Text(OddMacros, line) : line \in {
     <<"f", "(", "1", ")", "(", "2", ")", "(", "3", ")", "(", "4", ")", "(", "5", ")", "(", "6", ")">>,
     <<"m">>, <<"k", "(", "1", ")">>, <<"__LINE__">>}}
  \cup {Text([OddMacros EXCEPT !.g.contents = c], <<"g", "(", "1", ")">>) : c \in {
     <<"#", "y">>, <<"x", "##", "y", "+", "#", "x">>, <<"x", "#">>, <<"#", "+">>}}
  \cup {Text([OddMacros EXCEPT !.m.contents = <<"k", "(", "1", ")", "+", "1">>], <<"m">>)}

MCPrograms == Texts \cup OddTexts \cup Conditions \cup BadDefinitions
=============================================================================
