------------------------------ MODULE CondExpr ------------------------------
(***************************************************************************)
(* The evaluation of an #if condition in preproc.c: a precedence climber   *)
(* over the tokens of the expanded condition.  Integers are unbounded      *)
(* here; the bitwise operators work on WordSize.                           *)
(***************************************************************************)
EXTENDS MacroText, Bitwise

WordSize == 2^16

BindingGroups ==
  << {"||"}, {"&&"}, {"|"}, {"^"}, {"&"}, {"==", "!="}, {"<=", ">=", "<", ">"},
     {"<<", ">>"}, {"+", "-"}, {"*", "/", "%"}, {"~", "!"}, {"("} >>

\* A table that gives + and - the level of * and /.
bp_flat(t) ==
  LET level == {g \in 1..Len(BindingGroups) : t \in BindingGroups[g]}
  IN IF level = {} THEN 0
     ELSE LET g == CHOOSE g \in level : TRUE IN IF g = 10 THEN 9 ELSE g

\* How tightly a token binds: 0 for what cannot continue an expression.
bp(t) ==
  LET level == {g \in 1..Len(BindingGroups) : t \in BindingGroups[g]}
  IN IF level = {} THEN 0 ELSE CHOOSE g \in level : TRUE

Digits == "0" :> 0 @@ "1" :> 1 @@ "2" :> 2 @@ "3" :> 3 @@ "4" :> 4 @@
          "5" :> 5 @@ "6" :> 6 @@ "7" :> 7 @@ "8" :> 8 @@ "9" :> 9
IsNumber(t) == \A i \in 1..Len(t) : Chars(t)[i] \in DOMAIN Digits
NumberOf(t) == FoldLeft(LAMBDA n, c : 10 * n + Digits[c], 0, Chars(t))

Truth(b) == IF b THEN 1 ELSE 0
Signed(n) == IF n >= WordSize \div 2 THEN n - WordSize ELSE n
Word(v) == v % WordSize

\* Division of C rounds towards zero.
Quotient(a, b) ==
  LET magnitude(v) == IF v < 0 THEN -v ELSE v
      q == magnitude(a) \div magnitude(b)
  IN IF (a < 0) = (b < 0) THEN q ELSE -q
Shift(a, n) == IF n \in 0..15 THEN a * 2^n ELSE 0
ShiftRight(a, n) == IF n \in 0..15 THEN a \div 2^n ELSE 0

\* led: the value of "left op right"; the flag tells whether it is an error.
led(op, l, r) ==
  CASE op = "||" -> Truth(l # 0 \/ r # 0)
    [] op = "&&" -> Truth(l # 0 /\ r # 0)
    [] op = "|"  -> Signed(Word(l) | Word(r))
    [] op = "^"  -> Signed(Word(l) ^^ Word(r))
    [] op = "&"  -> Signed(Word(l) & Word(r))
    [] op = "==" -> Truth(l = r)
    [] op = "!=" -> Truth(l # r)
    [] op = "<=" -> Truth(l <= r)
    [] op = ">=" -> Truth(l >= r)
    [] op = "<"  -> Truth(l < r)
    [] op = ">"  -> Truth(l > r)
    [] op = "<<" -> Shift(l, r)
    [] op = ">>" -> ShiftRight(l, r)
    [] op = "+"  -> l + r
    [] op = "-"  -> l - r
    [] op = "*"  -> l * r
    [] op = "/" /\ r # 0 -> Quotient(l, r)
    [] op = "%" /\ r # 0 -> l - r * Quotient(l, r)
    [] OTHER     -> 0

led_fails(op, r) == op \in {"~", "!", "("} \/ (op \in {"/", "%"} /\ r = 0)

\* What the functions deliver: the value, how many tokens are read, and err.
Result(v, read, err) == [v |-> v, read |-> read, err |-> err]

RECURSIVE expr(_, _, _), Continue(_, _, _)

\* nud: the operand that starts with the token after the first n.
nud(s, n) ==
  LET t == s[n + 1]
      operand == expr(s, n + 1, bp(t))
      inner == expr(s, n + 1, 0)
  IN CASE t = "~" -> Result(-operand.v - 1, operand.read, operand.err)
       [] t = "+" -> operand
       [] t = "-" -> Result(-operand.v, operand.read, operand.err)
       [] t = "!" -> Result(Truth(operand.v = 0), operand.read, operand.err)
       [] t = "(" ->
            IF inner.read < Len(s) /\ s[inner.read + 1] = ")"
            THEN Result(inner.v, inner.read + 1, inner.err)
            ELSE Result(0, IF inner.read < Len(s) THEN inner.read + 1
                           ELSE inner.read, inner.err)
       [] IsIdentifier(t) -> Result(0, n + 1, FALSE)
       [] IsNumber(t) -> Result(NumberOf(t), n + 1, FALSE)
       [] OTHER -> Result(0, n + 1, TRUE)

expr(s, n, rbp) ==
  IF n = Len(s) THEN Result(0, n, FALSE) ELSE Continue(s, rbp, nud(s, n))

\* The loop of expr: operators that bind tighter than rbp take what is read.
Continue(s, rbp, left) ==
  IF left.read = Len(s) \/ bp(s[left.read + 1]) <= rbp THEN left
  ELSE LET op == s[left.read + 1]
           right == IF op \in {"~", "!", "("} THEN Result(0, left.read + 1, FALSE)
                    ELSE expr(s, left.read + 1, bp(op))
       IN Continue(s, rbp, Result(led(op, left.v, right.v), right.read,
                     left.err \/ right.err \/ led_fails(op, right.v)))

\* The operators are recognised wherever they stand, blanks are passed over.
do_eval(tokens) == expr(WithoutBlanks(tokens), 0, 0)
=============================================================================
