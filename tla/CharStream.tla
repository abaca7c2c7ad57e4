----------------------------- MODULE CharStream -----------------------------
(***************************************************************************)
(* What the character layer of the tokenizer promises its scanner: a       *)
(* cursor over the characters of a file, one character delivered per read, *)
(* and as many steps back as the scanner takes.  Past the end every read   *)
(* delivers EOF and still moves the cursor, as the scanner may push EOF    *)
(* back like any other character.                                          *)
(***************************************************************************)
EXTENDS Naturals, Sequences

CONSTANTS Streams, \* the files that may be opened: a set of sequences
          EOF      \* what a read past the end delivers

VARIABLES stream,  \* the file being read, fixed for the whole behaviour
          pos,     \* the cursor: the number of characters before it
          out      \* the last character a read delivered

vars == <<stream, pos, out>>

\* The character at cursor position p.
At(p) == IF p < Len(stream) THEN stream[p + 1] ELSE EOF

Init == /\ stream \in Streams
        /\ pos = 0
        /\ out = EOF

Read == /\ out' = At(pos)
        /\ pos' = pos + 1
        /\ UNCHANGED stream

Unread == /\ pos > 0
          /\ pos' = pos - 1
          /\ UNCHANGED <<stream, out>>

Rewind == /\ pos' = 0
          /\ out' = EOF
          /\ UNCHANGED stream

Next == Read \/ Unread \/ Rewind

Spec == Init /\ [][Next]_vars
=============================================================================
