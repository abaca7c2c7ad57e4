------------------------------ MODULE GetcBuf ------------------------------
(***************************************************************************)
(* The pushback buffer under the tokenizer (tokenizer.c): a ring of the    *)
(* last Size characters read from the file, from which tokenizer_getc      *)
(* serves the characters that tokenizer_ungetc took back.  The client is   *)
(* the scanner, reduced to the patterns in which it looks ahead and steps  *)
(* back; which pattern comes next is left open, so that what holds here    *)
(* holds for every text and every order of calls.                          *)
(***************************************************************************)
EXTENDS Integers, Sequences

CONSTANTS
  Size,     \* MAX_UNGETC: the number of slots of the ring
  Streams,  \* the files that may be read, sequences over Char
  Char,     \* the characters
  EOF,      \* what getc() returns at the end of the file
  Zero,     \* the content of a slot nothing was written to
  Markers,  \* the texts sequence_follows is asked for: comment markers,
            \* custom tokens, "...", and the marker of read_until
  PastEnd   \* bound: how far past the end the scanner goes on reading

ASSUME SizeAssumption == Size \in Nat /\ Size > 2
ASSUME CharAssumption == EOF \notin Char /\ PastEnd \in Nat
ASSUME StreamsAssumption == Streams \subseteq Seq(Char)
\* Every marker fits in the ring with one slot to spare: tokenizer_ungetc
\* asserts buffered < ARRAY_SIZE(buf) after counting the character.
ASSUME MarkersAssumption ==
  Markers \subseteq { m \in Seq(Char) : Len(m) > 0 /\ Len(m) < Size }

VARIABLES
  stream,   \* the file
  fpos,     \* how many times getc() was called on it
  buf,      \* t->getc_buf.buf
  cnt,      \* t->getc_buf.cnt
  buffered, \* t->getc_buf.buffered
  out,      \* the character the last tokenizer_getc returned
  pc,       \* where the scanner is
  which,    \* the marker it compares with
  i,        \* the index of that comparison
  cur       \* the scanner's current character c

ring == <<stream, fpos, buf, cnt, buffered, out>>
vars == <<ring, pc, which, i, cur>>

\* What the getc() call number p returns.
At(p) == IF p < Len(stream) THEN stream[p + 1] ELSE EOF

Slot(p) == p % Size

TypeOK ==
  /\ stream \in Streams
  /\ fpos \in Nat
  /\ buf \in [0..Size-1 -> Char \cup {EOF, Zero}]
  /\ cnt \in Nat
  /\ buffered \in 0..Size-1
  /\ out \in Char \cup {EOF}
  /\ pc \in {"idle", "char", "seq", "unseq", "peek", "look", "wide1", "wide2", "unmark"}
  /\ which \in Markers \cup {<<>>}
  /\ i \in 0..Size
  /\ cur \in Char \cup {EOF}

Init ==
  /\ stream \in Streams
  /\ fpos = 0
  /\ buf = [s \in 0..Size-1 |-> Zero]
  /\ cnt = 0
  /\ buffered = 0
  /\ out = EOF
  /\ pc = "idle"
  /\ which = <<>>
  /\ i = 0
  /\ cur = EOF

-----------------------------------------------------------------------------
(* tokenizer_getc and tokenizer_ungetc                                     *)

\* Mutant: the newest of the characters taken back is served first.
DeliveredNewest == IF buffered > 0 THEN buf[Slot(cnt + buffered - 1)] ELSE At(fpos)

\* What tokenizer_getc returns: the oldest character taken back, or a fresh
\* one from the file.
Delivered == IF buffered > 0 THEN buf[Slot(cnt)] ELSE At(fpos)

\* Mutant: the counter does not move when the character comes from the ring.
GetcKeepsCount ==
  /\ out' = Delivered
  /\ IF buffered > 0
       THEN /\ buffered' = buffered - 1
            /\ UNCHANGED <<fpos, buf, cnt>>
       ELSE /\ fpos' = fpos + 1
            /\ cnt' = cnt + 1
            /\ buf' = [buf EXCEPT ![Slot(cnt)] = At(fpos)]
            /\ UNCHANGED buffered
  /\ UNCHANGED stream

tokenizer_getc ==
  /\ out' = Delivered
  /\ cnt' = cnt + 1
  /\ IF buffered > 0
       THEN /\ buffered' = buffered - 1
            /\ UNCHANGED <<fpos, buf>>
       ELSE /\ fpos' = fpos + 1
            /\ buf' = [buf EXCEPT ![Slot(cnt)] = At(fpos)]
            /\ UNCHANGED buffered
  /\ UNCHANGED stream

\* The three assertions of tokenizer_ungetc for the character c.
UngetcAsserts(c) ==
  /\ buffered + 1 < Size
  /\ cnt > 0
  /\ buf[Slot(cnt - 1)] = c

\* The step itself; a failed assertion would abort the program here.
tokenizer_ungetc(c) ==
  /\ UngetcAsserts(c)
  /\ buffered' = buffered + 1
  /\ cnt' = cnt - 1
  /\ UNCHANGED <<stream, fpos, buf, out>>

-----------------------------------------------------------------------------
(* The scanner's ways of reading                                           *)

Goto(l) == pc' = l

\* c = tokenizer_getc(t) at the head of a scanning loop.
GetChar ==
  /\ pc = "idle"
  /\ cnt < Len(stream) + PastEnd
  /\ tokenizer_getc
  /\ cur' = Delivered
  /\ Goto("char")
  /\ UNCHANGED <<which, i>>

\* The loop consumes the character: it goes into the token, or is skipped.
TakeChar ==
  /\ pc = "char"
  /\ Goto("idle")
  /\ UNCHANGED <<ring, which, i, cur>>

\* The loop ends at a character it does not want: a separator after a token,
\* the first character skip_chars does not skip, a newline in a string.
PutCharBack ==
  /\ pc = "char"
  /\ cur # EOF
  /\ tokenizer_ungetc(cur)
  /\ Goto("idle")
  /\ UNCHANGED <<which, i, cur>>

\* tokenizer_peek: one character read and, unless it is EOF, put back.
Peek ==
  /\ pc = "idle"
  /\ cnt < Len(stream) + PastEnd
  /\ tokenizer_getc
  /\ cur' = Delivered
  /\ Goto(IF Delivered = EOF THEN "idle" ELSE "peek")
  /\ UNCHANGED <<which, i>>

PeekBack ==
  /\ pc = "peek"
  /\ tokenizer_ungetc(cur)
  /\ Goto("idle")
  /\ UNCHANGED <<which, i, cur>>

\* sequence_follows(t, c, which): the comparison starts with the current
\* character as the character of index 0.
SequenceFollows(m) ==
  /\ pc = "char"
  /\ cur = m[1]
  /\ which' = m
  /\ i' = 1
  /\ IF Len(m) = 1 THEN pc' \in {"idle", "unmark"} ELSE Goto("seq")
  /\ UNCHANGED <<ring, cur>>

\* while(c == which[i]): the next character is read; the last one that
\* matches ends the comparison with success, behind the marker.  The
\* scanner then goes on, or read_until takes the whole marker back.
SequenceGet ==
  /\ pc = "seq"
  /\ tokenizer_getc
  /\ cur' = Delivered
  /\ IF Delivered = which[i + 1]
       THEN /\ i' = i + 1
            /\ IF i + 1 = Len(which) THEN pc' \in {"idle", "unmark"}
                                     ELSE Goto("seq")
       ELSE /\ Goto("unseq")
            /\ UNCHANGED i
  /\ UNCHANGED which

\* Mutant: c = which[i--] instead of c = which[--i].
SequenceUngetPostDecrement ==
  /\ pc = "unseq"
  /\ tokenizer_ungetc(cur)
  /\ cur' = which[i + 1]
  /\ i' = i - 1
  /\ Goto(IF i = 1 THEN "char" ELSE "unseq")
  /\ UNCHANGED which

\* while(i > 0): the mismatching character and then the matched ones but the
\* first are taken back; c ends as the first one again.
SequenceUnget ==
  /\ pc = "unseq"
  /\ tokenizer_ungetc(cur)
  /\ cur' = which[i]
  /\ i' = i - 1
  /\ Goto(IF i = 1 THEN "char" ELSE "unseq")
  /\ UNCHANGED which

\* tokenizer_read_until ends with every character of the marker taken back.
UngetMarker ==
  /\ pc = "unmark"
  /\ tokenizer_ungetc(which[i])
  /\ i' = i - 1
  /\ Goto(IF i = 1 THEN "idle" ELSE "unmark")
  /\ UNCHANGED <<which, cur>>

\* One character of lookahead behind the current one: behind a backslash, a
\* newline joins the lines and is consumed with it; anything else, and what
\* follows a '.', is put back.
LookBehind ==
  /\ pc = "char"
  /\ cur # EOF
  /\ tokenizer_getc
  /\ pc' \in {"idle", "look"}
  /\ UNCHANGED <<which, i, cur>>

LookBack ==
  /\ pc = "look"
  /\ tokenizer_ungetc(out)
  /\ Goto("char")
  /\ UNCHANGED <<which, i, cur>>

\* 'L' in the wide-string mode: the next character is read and both are put
\* back; the scanner goes on with the second as its current character.
WideLook ==
  /\ pc = "char"
  /\ cur # EOF
  /\ tokenizer_getc
  /\ Goto("wide1")
  /\ UNCHANGED <<which, i, cur>>

WideBack1 ==
  /\ pc = "wide1"
  /\ tokenizer_ungetc(out)
  /\ Goto("wide2")
  /\ UNCHANGED <<which, i, cur>>

WideBack2 ==
  /\ pc = "wide2"
  /\ tokenizer_ungetc(cur)
  /\ Goto("idle")
  /\ UNCHANGED <<which, i, cur>>

\* tokenizer_rewind between two calls: tokenizer_init clears the buffer.
tokenizer_rewind ==
  /\ pc = "idle"
  /\ fpos' = 0
  /\ buf' = [s \in 0..Size-1 |-> Zero]
  /\ cnt' = 0
  /\ buffered' = 0
  /\ out' = EOF
  /\ UNCHANGED <<stream, pc, which, i, cur>>

Next ==
  \/ GetChar \/ TakeChar \/ PutCharBack
  \/ Peek \/ PeekBack
  \/ \E m \in Markers : SequenceFollows(m)
  \/ SequenceGet \/ SequenceUnget \/ UngetMarker
  \/ LookBehind \/ LookBack
  \/ WideLook \/ WideBack1 \/ WideBack2
  \/ tokenizer_rewind

Spec == Init /\ [][Next]_vars

-----------------------------------------------------------------------------
(* Properties                                                              *)

\* How many of the characters behind the cursor the scanner may still take
\* back, and the position of the first of them.
Held ==
  IF pc = "idle" THEN 0
  ELSE IF pc \in {"char", "peek", "wide2"} THEN 1
  ELSE IF pc \in {"look", "wide1"} THEN 2
  ELSE IF pc = "unseq" THEN i + 1
  ELSE i

Base == cnt - Held

\* The ring always holds the last Size characters read from the file, each in
\* its slot, and the pushed-back ones are exactly those between the scanner's
\* position and the file's (tokenizer.c, tokenizer_getc and tokenizer_ungetc).
RingHoldsLast ==
  /\ fpos = cnt + buffered
  /\ \A p \in 0..fpos : (p < fpos /\ fpos <= p + Size) => buf[Slot(p)] = At(p)

\* However far a scanning pattern has looked ahead, what it may have to take
\* back is less than the ring's capacity.
LookaheadBounded == 0 <= Base /\ fpos <= Base + Size - 1

\* Wherever the scanner is about to call tokenizer_ungetc, the three assertions
\* of that function hold: the ring has room, something was read, and the
\* character given back is the one that was read there.
AssertsHold ==
  /\ pc = "char" /\ cur # EOF => UngetcAsserts(cur)
  /\ pc \in {"peek", "unseq", "wide2"} => UngetcAsserts(cur)
  /\ pc \in {"look", "wide1"} => UngetcAsserts(out)
  /\ pc = "unmark" => UngetcAsserts(which[i])

\* The buffer is invisible: through any sequence of lookaheads and pushbacks the
\* scanner reads the file as if it could move a cursor over it.
CS == INSTANCE CharStream WITH pos <- cnt
ReadsAsCursor == CS!Spec
=============================================================================
