----------------------------- MODULE MacroText -----------------------------
(***************************************************************************)
(* The text the macro code of preproc.c reads and writes: a sequence of    *)
(* tokens, each the string tokenizer_next leaves in its buffer.  Between   *)
(* two steps the text is a stream of characters, so two words that come to *)
(* stand side by side are one word when they are read again.               *)
(***************************************************************************)
EXTENDS Integers, Sequences, FiniteSets, SequencesExt

\* What tokenizer_next returns as a TT_SEP, the operators do_eval adds, "...".
Separators == {"...", " ", "\n", "#", "##", "(", ")", ",", "+", "-", "*", "/", "%",
               "!", "~", "&", "|", "^", "<", ">", "<=", ">=", "==", "!=",
               "&&", "||", "<<", ">>"}

Letters == {"a", "b", "c", "d", "e", "f", "g", "h", "k", "m", "n", "p", "q",
            "v", "x", "y", "z", "U", "_"}

Chars(t) == [i \in 1..Len(t) |-> SubSeq(t, i, i)]
FirstChar(t) == SubSeq(t, 1, 1)

\* A token made of the characters up to the next separator; get_string ends a
\* string literal at its quote.
IsWord(t) == t \notin Separators /\ FirstChar(t) # "\""
IsIdentifier(t) == t \notin Separators /\ FirstChar(t) \in Letters

\* The tokens of the characters of a sequence of tokens.
Lex(tokens) ==
  LET add(read, t) ==
        IF read # <<>> /\ IsWord(Last(read)) /\ IsWord(t)
        THEN Append(Front(read), Last(read) \o t)
        ELSE Append(read, t)
  IN FoldLeft(add, <<>>, tokens)

Concat(tokens) == FoldLeft(LAMBDA text, t : text \o t, "", tokens)

\* tokenizer_skip_chars(t, " \t", &count).
SkipBlanks(tokens) ==
  LET black == {i \in 1..Len(tokens) : tokens[i] # " "}
  IN IF black = {} THEN <<>>
     ELSE SubSeq(tokens, CHOOSE i \in black : \A j \in black : i <= j, Len(tokens))

WithoutBlanks(tokens) == SelectSeq(tokens, LAMBDA t : t \notin {" ", "\n"})
=============================================================================
