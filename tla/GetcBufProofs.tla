--------------------------- MODULE GetcBufProofs ---------------------------
(***************************************************************************)
(* For every ring size, every set of markers that fit in it and every      *)
(* file: the assertions of tokenizer_ungetc never fail, and the buffer is  *)
(* invisible to the scanner.                                               *)
(***************************************************************************)
EXTENDS GetcBuf, TLAPS

\* What the scanner remembers of the text it has looked at: its current
\* character is the one behind the cursor, and a partial match of a marker
\* repeats the text that was read.  With the two invariants about positions
\* it is inductive.
Remembers ==
  /\ pc \in {"char", "peek"} => cnt > 0 /\ cur = At(cnt - 1)
  /\ pc = "wide2" => cnt > 0 /\ cur = At(cnt - 1)
  /\ pc \in {"look", "wide1"} =>
       cnt > 1 /\ cur = At(cnt - 2) /\ out = At(cnt - 1) /\ cur # EOF
  /\ pc = "seq" =>
       /\ which \in Markers /\ i \in 1..Len(which)-1
       /\ \A j \in 1..i : which[j] = At(cnt - i + j - 1)
  /\ pc = "unseq" =>
       /\ which \in Markers /\ i \in 1..Len(which)-1 /\ cnt > 0
       /\ cur = At(cnt - 1)
       /\ \A j \in 1..i : which[j] = At(cnt - i - 1 + j - 1)
  /\ pc = "unmark" =>
       /\ which \in Markers /\ i \in 1..Len(which)
       /\ \A j \in 1..i : which[j] = At(cnt - i + j - 1)

IInv == TypeOK /\ RingHoldsLast /\ LookaheadBounded /\ Remembers

-----------------------------------------------------------------------------
(* Arithmetic of the ring                                                  *)

\* Two positions less than Size apart have different slots.
LEMMA SlotsDiffer ==
  ASSUME NEW p \in Nat, NEW q \in Nat, p < q, q < p + Size
  PROVE  Slot(p) # Slot(q)
<1>1. Size \in Nat /\ Size > 0
  BY SizeAssumption
<1>2. PICK a \in Nat : p = Size * a + Slot(p)
  BY <1>1, Z3 DEF Slot
<1>3. PICK b \in Nat : q = Size * b + Slot(q)
  BY <1>1, Z3 DEF Slot
<1>4. SUFFICES ASSUME Slot(p) = Slot(q) PROVE FALSE
  OBVIOUS
<1>5. Slot(p) \in Nat
  BY <1>1 DEF Slot
<1>6. q - p = Size * b - Size * a
  BY <1>1, <1>2, <1>3, <1>4, <1>5
<1>7. CASE b <= a
  <2>1. Size * b <= Size * a
    BY <1>1, <1>7
  <2> QED BY <1>6, <2>1, <1>1
<1>8. CASE b >= a + 1
  <2>1. Size * b >= Size * (a + 1)
    BY <1>1, <1>8
  <2>2. Size * (a + 1) = Size * a + Size
    BY <1>1
  <2> QED BY <1>6, <2>1, <2>2, <1>1
<1> QED BY <1>7, <1>8

LEMMA SlotInRing ==
  ASSUME NEW p \in Nat
  PROVE  Slot(p) \in 0..Size-1
BY SizeAssumption DEF Slot

LEMMA AtType ==
  ASSUME TypeOK, NEW p \in Nat
  PROVE  At(p) \in Char \cup {EOF}
BY StreamsAssumption DEF TypeOK, At

-----------------------------------------------------------------------------
(* The two operations of the ring                                          *)

\* tokenizer_getc delivers the character at the cursor and keeps the ring.
LEMMA GetcReads ==
  ASSUME TypeOK, RingHoldsLast, tokenizer_getc
  PROVE  /\ Delivered = At(cnt)
         /\ RingHoldsLast'
         /\ stream' = stream
         /\ cnt' = cnt + 1
         /\ out' = At(cnt)
         /\ fpos' = IF buffered > 0 THEN fpos ELSE cnt + 1
         /\ fpos' \in Nat
         /\ buf' \in [0..Size-1 -> Char \cup {EOF, Zero}]
         /\ buffered' \in 0..Size-1
         /\ At(cnt) \in Char \cup {EOF}
<1>0. /\ fpos \in Nat /\ cnt \in Nat /\ buffered \in 0..Size-1
      /\ buf \in [0..Size-1 -> Char \cup {EOF, Zero}]
      /\ Size \in Nat /\ fpos = cnt + buffered
      /\ stream' = stream /\ cnt' = cnt + 1 /\ out' = Delivered
  BY SizeAssumption DEF TypeOK, RingHoldsLast, tokenizer_getc
<1>a. At(cnt) \in Char \cup {EOF}
  BY <1>0, AtType
<1>b. \A p : At(p)' = At(p)
  BY <1>0 DEF At
<1>1. CASE buffered > 0
  <2>1. cnt \in 0..fpos /\ cnt < fpos /\ fpos <= cnt + Size
    BY <1>0, <1>1
  <2>2. Delivered = At(cnt)
    BY <2>1, <1>1 DEF Delivered, RingHoldsLast
  <2>3. buffered' = buffered - 1 /\ fpos' = fpos /\ buf' = buf
    BY <1>1 DEF tokenizer_getc
  <2>4. RingHoldsLast'
    <3>1. fpos' = cnt' + buffered'
      BY <1>0, <2>3
    <3>2. \A p \in 0..fpos : (p < fpos /\ fpos <= p + Size) => buf[Slot(p)] = At(p)
      BY DEF RingHoldsLast
    <3> QED BY <3>1, <3>2, <2>3, <1>b DEF RingHoldsLast
  <2> QED BY <1>0, <1>1, <1>a, <2>2, <2>3, <2>4
<1>2. CASE ~(buffered > 0)
  <2>1. buffered = 0 /\ fpos = cnt
    BY <1>0, <1>2
  <2>2. Delivered = At(cnt)
    BY <2>1 DEF Delivered
  <2>3. /\ buffered' = 0 /\ fpos' = cnt + 1
        /\ buf' = [buf EXCEPT ![Slot(cnt)] = At(cnt)]
    BY <2>1 DEF tokenizer_getc
  <2>4. Slot(cnt) \in 0..Size-1
    BY <1>0, SlotInRing
  <2>5. buf' \in [0..Size-1 -> Char \cup {EOF, Zero}]
    BY <1>0, <1>a, <2>3, <2>4
  <2>6. RingHoldsLast'
    <3>1. fpos' = cnt' + buffered'
      BY <1>0, <2>3
    <3>2. ASSUME NEW p \in 0..cnt+1, p < cnt + 1, cnt + 1 <= p + Size
          PROVE  buf'[Slot(p)] = At(p)
      <4>0. p \in Nat
        BY <1>0
      <4>1. CASE p = cnt
        BY <4>1, <2>3, <2>4, <1>0
      <4>2. CASE p < cnt
        <5>1. Slot(p) # Slot(cnt)
          BY <4>0, <4>2, <3>2, <1>0, SlotsDiffer
        <5>2. Slot(p) \in 0..Size-1
          BY <4>0, SlotInRing
        <5>3. buf[Slot(p)] = At(p)
          <6>1. p \in 0..fpos /\ p < fpos /\ fpos <= p + Size
            BY <4>0, <4>2, <3>2, <2>1, <1>0
          <6> QED BY <6>1 DEF RingHoldsLast
        <5> QED BY <5>1, <5>2, <5>3, <2>3, <2>4, <1>0
      <4> QED BY <4>0, <4>1, <4>2, <3>2, <1>0
    <3> QED BY <3>1, <3>2, <2>3, <1>b DEF RingHoldsLast, Slot
  <2> QED BY <1>0, <1>2, <1>a, <2>1, <2>2, <2>3, <2>5, <2>6
<1> QED BY <1>1, <1>2

\* tokenizer_ungetc steps the cursor back and keeps the ring.
LEMMA UngetcSteps ==
  ASSUME TypeOK, RingHoldsLast, NEW c, tokenizer_ungetc(c)
  PROVE  /\ RingHoldsLast'
         /\ stream' = stream /\ out' = out /\ buf' = buf /\ fpos' = fpos
         /\ cnt > 0 /\ cnt' = cnt - 1
         /\ buffered' \in 0..Size-1
<1>0. /\ fpos \in Nat /\ cnt \in Nat /\ buffered \in 0..Size-1 /\ Size \in Nat
      /\ fpos = cnt + buffered
  BY SizeAssumption DEF TypeOK, RingHoldsLast
<1>1. /\ stream' = stream /\ out' = out /\ buf' = buf /\ fpos' = fpos
      /\ cnt > 0 /\ cnt' = cnt - 1 /\ buffered' = buffered + 1
      /\ buffered + 1 < Size
  BY DEF tokenizer_ungetc, UngetcAsserts
<1>2. \A p : At(p)' = At(p)
  BY <1>1 DEF At
<1>3. \A p \in 0..fpos : (p < fpos /\ fpos <= p + Size) => buf[Slot(p)] = At(p)
  BY DEF RingHoldsLast
<1>4. RingHoldsLast'
  BY <1>0, <1>1, <1>2, <1>3 DEF RingHoldsLast, Slot
<1> QED BY <1>0, <1>1, <1>4

\* As long as the cursor is ahead of the scanner's base, giving back what was
\* read last satisfies the assertions.
LEMMA AheadOfBase ==
  ASSUME TypeOK, RingHoldsLast, NEW b \in Nat, b < cnt, fpos <= b + Size - 1
  PROVE  UngetcAsserts(At(cnt - 1))
<1>0. /\ fpos \in Nat /\ cnt \in Nat /\ buffered \in 0..Size-1 /\ Size \in Nat
      /\ fpos = cnt + buffered
  BY SizeAssumption DEF TypeOK, RingHoldsLast
<1>1. buffered + 1 < Size /\ cnt > 0
  BY <1>0
<1>2. cnt - 1 \in 0..fpos /\ cnt - 1 < fpos /\ fpos <= (cnt - 1) + Size
  BY <1>0
<1>3. buf[Slot(cnt - 1)] = At(cnt - 1)
  BY <1>2 DEF RingHoldsLast
<1> QED BY <1>1, <1>3 DEF UngetcAsserts

-----------------------------------------------------------------------------
(* The inductive invariant                                                 *)

LEMMA InitIInv == Init => IInv
<1> SUFFICES ASSUME Init PROVE IInv
  OBVIOUS
<1>1. TypeOK
  BY SizeAssumption DEF Init, TypeOK
<1>2. RingHoldsLast
  BY DEF Init, RingHoldsLast
<1>3. LookaheadBounded
  BY SizeAssumption DEF Init, LookaheadBounded, Base, Held
<1>4. Remembers
  BY DEF Init, Remembers
<1> QED BY <1>1, <1>2, <1>3, <1>4 DEF IInv

LEMMA MarkerLen ==
  ASSUME NEW m \in Markers
  PROVE  /\ m \in Seq(Char) /\ Len(m) \in Nat /\ Len(m) > 0 /\ Len(m) < Size
         /\ \A j \in 1..Len(m) : m[j] \in Char /\ m[j] # EOF
BY MarkersAssumption, CharAssumption

\* Every wait for tokenizer_ungetc finds its assertions true.
LEMMA IInvAsserts == IInv => AssertsHold
<1> SUFFICES ASSUME IInv PROVE AssertsHold
  OBVIOUS
<1> USE DEF IInv
<1>0. /\ fpos \in Nat /\ cnt \in Nat /\ Size \in Nat /\ i \in Nat
  BY SizeAssumption DEF TypeOK
<1>1. ASSUME pc \in {"char", "peek", "wide2"} PROVE UngetcAsserts(cur)
  <2>1. Base = cnt - 1 /\ cnt > 0 /\ cur = At(cnt - 1)
    BY <1>1 DEF Base, Held, Remembers
  <2>2. cnt - 1 \in Nat /\ cnt - 1 < cnt /\ fpos <= (cnt - 1) + Size - 1
    BY <2>1, <1>0 DEF LookaheadBounded
  <2> QED BY <2>1, <2>2, AheadOfBase
<1>2. ASSUME pc \in {"look", "wide1"} PROVE UngetcAsserts(out)
  <2>1. Base = cnt - 2 /\ cnt > 1 /\ out = At(cnt - 1)
    BY <1>2 DEF Base, Held, Remembers
  <2>2. cnt - 2 \in Nat /\ cnt - 2 < cnt /\ fpos <= (cnt - 2) + Size - 1
    BY <2>1, <1>0 DEF LookaheadBounded
  <2> QED BY <2>1, <2>2, AheadOfBase
<1>3. ASSUME pc = "unseq" PROVE UngetcAsserts(cur)
  <2>1. Base = cnt - i - 1 /\ cnt > 0 /\ cur = At(cnt - 1)
    BY <1>3, <1>0 DEF Base, Held, Remembers
  <2>2. /\ cnt - i - 1 \in Nat /\ cnt - i - 1 < cnt
        /\ fpos <= (cnt - i - 1) + Size - 1
    BY <2>1, <1>0 DEF LookaheadBounded
  <2> QED BY <2>1, <2>2, AheadOfBase
<1>4. ASSUME pc = "unmark" PROVE UngetcAsserts(which[i])
  <2>1. /\ Base = cnt - i /\ which \in Markers /\ i \in 1..Len(which)
        /\ which[i] = At(cnt - i + i - 1)
    BY <1>4, <1>0 DEF Base, Held, Remembers
  <2>2. which[i] = At(cnt - 1) /\ i > 0
    BY <2>1, <1>0, MarkerLen
  <2>3. cnt - i \in Nat /\ cnt - i < cnt /\ fpos <= (cnt - i) + Size - 1
    BY <2>1, <2>2, <1>0 DEF LookaheadBounded
  <2> QED BY <2>2, <2>3, AheadOfBase
<1> QED BY <1>1, <1>2, <1>3, <1>4 DEF AssertsHold

\* The conjuncts of IInv that no step of one kind can disturb come from the
\* lemma of that kind; what is left is where the scanner goes.
LEMMA StepIInv == IInv /\ [Next]_vars => IInv'
<1> SUFFICES ASSUME IInv, [Next]_vars PROVE IInv'
  OBVIOUS
<1> USE DEF IInv
<1>0. /\ fpos \in Nat /\ cnt \in Nat /\ Size \in Nat /\ Size > 2 /\ i \in 0..Size
      /\ buffered \in 0..Size-1 /\ fpos = cnt + buffered
      /\ stream \in Streams /\ out \in Char \cup {EOF} /\ cur \in Char \cup {EOF}
      /\ buf \in [0..Size-1 -> Char \cup {EOF, Zero}]
      /\ which \in Markers \cup {<<>>}
  BY SizeAssumption DEF TypeOK, RingHoldsLast
<1>b. stream' = stream => \A p : At(p)' = At(p)
  BY DEF At
<1>g. ASSUME tokenizer_getc
      PROVE  /\ RingHoldsLast' /\ stream' = stream /\ cnt' = cnt + 1
             /\ Delivered = At(cnt) /\ out' = At(cnt)
             /\ fpos' = IF buffered > 0 THEN fpos ELSE cnt + 1
             /\ fpos' \in Nat /\ buf' \in [0..Size-1 -> Char \cup {EOF, Zero}]
             /\ buffered' \in 0..Size-1 /\ At(cnt) \in Char \cup {EOF}
             /\ \A p : At(p)' = At(p)
  BY <1>g, <1>b, GetcReads
<1>u. ASSUME NEW c, tokenizer_ungetc(c)
      PROVE  /\ RingHoldsLast' /\ stream' = stream /\ out' = out /\ buf' = buf
             /\ fpos' = fpos /\ cnt > 0 /\ cnt' = cnt - 1
             /\ buffered' \in 0..Size-1
             /\ \A p : At(p)' = At(p)
  BY <1>u, <1>b, UngetcSteps
<1>1. CASE GetChar
  <2>1. /\ pc = "idle" /\ tokenizer_getc /\ cur' = Delivered /\ pc' = "char"
        /\ which' = which /\ i' = i
    BY <1>1 DEF GetChar, Goto
  <2>2. TypeOK'
    BY <1>0, <1>g, <2>1 DEF TypeOK
  <2>3. LookaheadBounded'
    BY <1>0, <1>g, <2>1 DEF LookaheadBounded, Base, Held
  <2>4. Remembers'
    BY <1>0, <1>g, <2>1 DEF Remembers
  <2> QED BY <1>g, <2>1, <2>2, <2>3, <2>4
<1>2. CASE TakeChar
  <2>1. /\ pc = "char" /\ pc' = "idle" /\ UNCHANGED <<ring, which, i, cur>>
    BY <1>2 DEF TakeChar, Goto
  <2>2. TypeOK'
    BY <2>1 DEF TypeOK, ring
  <2>3. LookaheadBounded'
    BY <1>0, <2>1 DEF LookaheadBounded, Base, Held, ring
  <2>4. Remembers' /\ RingHoldsLast'
    BY <2>1 DEF Remembers, RingHoldsLast, Slot, At, ring
  <2> QED BY <2>2, <2>3, <2>4
<1>3. CASE PutCharBack
  <2>1. /\ pc = "char" /\ tokenizer_ungetc(cur) /\ pc' = "idle"
        /\ which' = which /\ i' = i /\ cur' = cur
    BY <1>3 DEF PutCharBack, Goto
  <2>2. TypeOK'
    BY <1>0, <1>u, <2>1 DEF TypeOK
  <2>3. LookaheadBounded'
    BY <1>0, <1>u, <2>1 DEF LookaheadBounded, Base, Held
  <2>4. Remembers'
    BY <2>1 DEF Remembers
  <2> QED BY <1>u, <2>1, <2>2, <2>3, <2>4
<1>4. CASE Peek
  <2>1. /\ pc = "idle" /\ tokenizer_getc /\ cur' = Delivered
        /\ pc' = IF Delivered = EOF THEN "idle" ELSE "peek"
        /\ which' = which /\ i' = i
    BY <1>4 DEF Peek, Goto
  <2>2. TypeOK'
    BY <1>0, <1>g, <2>1 DEF TypeOK
  <2>3. LookaheadBounded'
    BY <1>0, <1>g, <2>1 DEF LookaheadBounded, Base, Held
  <2>4. Remembers'
    BY <1>0, <1>g, <2>1 DEF Remembers
  <2> QED BY <1>g, <2>1, <2>2, <2>3, <2>4
<1>5. CASE PeekBack
  <2>1. /\ pc = "peek" /\ tokenizer_ungetc(cur) /\ pc' = "idle"
        /\ which' = which /\ i' = i /\ cur' = cur
    BY <1>5 DEF PeekBack, Goto
  <2>2. TypeOK'
    BY <1>0, <1>u, <2>1 DEF TypeOK
  <2>3. LookaheadBounded'
    BY <1>0, <1>u, <2>1 DEF LookaheadBounded, Base, Held
  <2>4. Remembers'
    BY <2>1 DEF Remembers
  <2> QED BY <1>u, <2>1, <2>2, <2>3, <2>4
<1>6. ASSUME NEW m \in Markers, SequenceFollows(m) PROVE IInv'
  <2>0. /\ Len(m) \in Nat /\ Len(m) > 0 /\ Len(m) < Size
    BY MarkerLen
  <2>1. /\ pc = "char" /\ cur = m[1] /\ which' = m /\ i' = 1
        /\ stream' = stream /\ fpos' = fpos /\ buf' = buf /\ cnt' = cnt
        /\ buffered' = buffered /\ out' = out /\ cur' = cur
    BY <1>6 DEF SequenceFollows, ring
  <2>2. \/ Len(m) = 1 /\ pc' \in {"idle", "unmark"}
        \/ Len(m) # 1 /\ pc' = "seq"
    BY <1>6 DEF SequenceFollows, Goto
  <2>3. TypeOK'
    BY <1>0, <2>1, <2>2 DEF TypeOK
  <2>4. LookaheadBounded'
    BY <1>0, <2>1, <2>2 DEF LookaheadBounded, Base, Held
  <2>5. Remembers'
    <3>1. cnt > 0 /\ cur = At(cnt - 1) /\ \A p : At(p)' = At(p)
      BY <2>1, <1>b DEF Remembers
    <3>2. \A j \in 1..1 : m[j] = At(cnt - 1 + j - 1)
      BY <2>1, <3>1, <1>0
    <3>3. (\A j \in 1..i : which[j] = At(cnt - i + j - 1))'
      BY <2>1, <3>1, <3>2
    <3>4. which' \in Markers /\ i' \in 1..Len(which') /\ (Len(m) # 1 => i' \in 1..Len(which')-1)
      <4>1. \A n \in Nat : n > 0 => 1 \in 1..n /\ (n # 1 => 1 \in 1..n-1)
        OBVIOUS
      <4>2. 1 \in 1..Len(m) /\ (Len(m) # 1 => 1 \in 1..Len(m)-1)
        BY <2>0, <4>1
      <4> QED BY <4>2, <2>1
    <3> QED BY <2>2, <3>3, <3>4 DEF Remembers
  <2>6. RingHoldsLast'
    BY <2>1 DEF RingHoldsLast, Slot, At
  <2> QED BY <2>3, <2>4, <2>5, <2>6
<1>7. CASE SequenceGet
  <2>0. /\ which \in Markers /\ i \in 1..Len(which)-1
        /\ \A j \in 1..i : which[j] = At(cnt - i + j - 1)
    BY <1>7 DEF SequenceGet, Remembers
  <2>1. /\ pc = "seq" /\ tokenizer_getc /\ cur' = Delivered /\ which' = which
    BY <1>7 DEF SequenceGet
  <2>l. Len(which) \in Nat /\ Len(which) < Size
    BY <2>0, MarkerLen
  <2>2. CASE Delivered = which[i + 1]
    <3>1. /\ i' = i + 1
          /\ \/ i + 1 = Len(which) /\ pc' \in {"idle", "unmark"}
             \/ i + 1 # Len(which) /\ pc' = "seq"
      BY <1>7, <2>2 DEF SequenceGet, Goto
    <3>2. TypeOK'
      BY <1>0, <1>g, <2>0, <2>1, <2>l, <3>1 DEF TypeOK
    <3>3. LookaheadBounded'
      BY <1>0, <1>g, <2>0, <2>1, <2>l, <3>1 DEF LookaheadBounded, Base, Held
    <3>4. Remembers'
      <4>1. \A j \in 1..i+1 : which[j] = At((cnt + 1) - (i + 1) + j - 1)
        <5>1. \A j \in 1..i : (cnt + 1) - (i + 1) + j - 1 = cnt - i + j - 1
          BY <1>0
        <5>2. (cnt + 1) - (i + 1) + (i + 1) - 1 = cnt
          BY <1>0
        <5>3. which[i + 1] = At(cnt)
          BY <2>1, <2>2, <1>g
        <5>4. \A j \in 1..i+1 : j \in 1..i \/ j = i + 1
          BY <1>0
        <5> QED BY <5>1, <5>2, <5>3, <5>4, <2>0
      <4>2. (\A j \in 1..i : which[j] = At(cnt - i + j - 1))'
        BY <4>1, <1>g, <2>1, <3>1
      <4>3. i' \in 1..Len(which) /\ (i + 1 # Len(which) => i' \in 1..Len(which)-1)
        BY <2>0, <2>l, <3>1
      <4> QED BY <4>2, <4>3, <2>0, <2>1, <3>1 DEF Remembers
    <3> QED BY <1>g, <2>1, <3>2, <3>3, <3>4
  <2>3. CASE Delivered # which[i + 1]
    <3>1. i' = i /\ pc' = "unseq"
      BY <1>7, <2>3 DEF SequenceGet, Goto
    <3>2. TypeOK'
      BY <1>0, <1>g, <2>0, <2>1, <2>l, <3>1 DEF TypeOK
    <3>3. LookaheadBounded'
      BY <1>0, <1>g, <2>0, <2>1, <2>l, <3>1 DEF LookaheadBounded, Base, Held
    <3>4. Remembers'
      <4>1. \A j \in 1..i : (cnt + 1) - i - 1 + j - 1 = cnt - i + j - 1
        BY <1>0
      <4>2. (\A j \in 1..i : which[j] = At(cnt - i - 1 + j - 1))'
        BY <4>1, <1>g, <2>0, <2>1, <3>1
      <4>3. cnt' > 0 /\ cnt' - 1 = cnt
        BY <1>0, <1>g, <2>1
      <4>4. (cur = At(cnt - 1))'
        BY <4>3, <1>g, <2>1
      <4> QED BY <4>2, <4>3, <4>4, <2>0, <2>1, <3>1 DEF Remembers
    <3> QED BY <1>g, <2>1, <3>2, <3>3, <3>4
  <2> QED BY <2>2, <2>3
<1>8. CASE SequenceUnget
  <2>0. /\ which \in Markers /\ i \in 1..Len(which)-1 /\ cnt > 0
        /\ \A j \in 1..i : which[j] = At(cnt - i - 1 + j - 1)
    BY <1>8 DEF SequenceUnget, Remembers
  <2>1. /\ pc = "unseq" /\ tokenizer_ungetc(cur) /\ cur' = which[i] /\ i' = i - 1
        /\ which' = which /\ pc' = IF i = 1 THEN "char" ELSE "unseq"
    BY <1>8 DEF SequenceUnget, Goto
  <2>l. Len(which) \in Nat /\ Len(which) < Size /\ which[i] \in Char
    BY <2>0, MarkerLen
  <2>u. /\ cnt' = cnt - 1 /\ cnt' \in Nat /\ fpos' = fpos
        /\ \A p : At(p)' = At(p)
    BY <1>0, <1>u, <2>1
  <2>2. TypeOK'
    BY <1>0, <1>u, <2>0, <2>1, <2>l, <2>u DEF TypeOK
  <2>3. LookaheadBounded'
    BY <1>0, <2>0, <2>1, <2>l, <2>u DEF LookaheadBounded, Base, Held
  <2>4. Remembers'
    <3>1. which[i] = At(cnt - i - 1 + i - 1)
      BY <2>0, <1>0, <2>l
    <3>2. (cur = At(cnt - 1))'
      <4>1. cnt - i - 1 + i - 1 = cnt' - 1
        BY <1>0, <2>u
      <4> QED BY <4>1, <3>1, <2>1, <2>u
    <3>3. cnt' > 0
      BY <1>0, <2>0, <2>1, <2>u DEF LookaheadBounded, Base, Held
    <3>4. \A j \in 1..i-1 : which[j] = At((cnt - 1) - (i - 1) - 1 + j - 1)
      <4>1. \A j \in 1..i-1 : /\ j \in 1..i
                             /\ (cnt - 1) - (i - 1) - 1 + j - 1 = cnt - i - 1 + j - 1
        BY <1>0
      <4> QED BY <4>1, <2>0
    <3>5. (\A j \in 1..i : which[j] = At(cnt - i - 1 + j - 1))'
      BY <3>4, <2>1, <2>u
    <3>6. i # 1 => i' \in 1..Len(which)-1
      BY <2>0, <2>1, <2>l
    <3> QED BY <3>2, <3>3, <3>5, <3>6, <2>0, <2>1 DEF Remembers
  <2> QED BY <1>u, <2>1, <2>2, <2>3, <2>4
<1>9. CASE UngetMarker
  <2>0. /\ which \in Markers /\ i \in 1..Len(which)
        /\ \A j \in 1..i : which[j] = At(cnt - i + j - 1)
    BY <1>9 DEF UngetMarker, Remembers
  <2>1. /\ pc = "unmark" /\ tokenizer_ungetc(which[i]) /\ i' = i - 1
        /\ which' = which /\ cur' = cur /\ pc' = IF i = 1 THEN "idle" ELSE "unmark"
    BY <1>9 DEF UngetMarker, Goto
  <2>l. Len(which) \in Nat /\ Len(which) < Size
    BY <2>0, MarkerLen
  <2>u. /\ cnt' = cnt - 1 /\ cnt' \in Nat /\ fpos' = fpos
        /\ \A p : At(p)' = At(p)
    BY <1>0, <1>u, <2>1
  <2>2. TypeOK'
    BY <1>0, <1>u, <2>0, <2>1, <2>l, <2>u DEF TypeOK
  <2>3. LookaheadBounded'
    BY <1>0, <2>0, <2>1, <2>l, <2>u DEF LookaheadBounded, Base, Held
  <2>4. Remembers'
    <3>1. \A j \in 1..i-1 : /\ j \in 1..i
                           /\ (cnt - 1) - (i - 1) + j - 1 = cnt - i + j - 1
      BY <1>0
    <3>2. (\A j \in 1..i : which[j] = At(cnt - i + j - 1))'
      BY <3>1, <2>0, <2>1, <2>u
    <3>3. i # 1 => i' \in 1..Len(which)
      BY <2>0, <2>1, <2>l
    <3> QED BY <3>2, <3>3, <2>0, <2>1 DEF Remembers
  <2> QED BY <1>u, <2>1, <2>2, <2>3, <2>4
<1>10. CASE LookBehind
  <2>1. /\ pc = "char" /\ cur # EOF /\ tokenizer_getc /\ pc' \in {"idle", "look"}
        /\ which' = which /\ i' = i /\ cur' = cur /\ cnt > 0 /\ cur = At(cnt - 1)
    BY <1>10 DEF LookBehind, Remembers
  <2>2. TypeOK'
    BY <1>0, <1>g, <2>1 DEF TypeOK
  <2>3. LookaheadBounded'
    BY <1>0, <1>g, <2>1 DEF LookaheadBounded, Base, Held
  <2>4. cnt' > 1 /\ cnt' - 2 = cnt - 1 /\ cnt' - 1 = cnt
    BY <1>0, <1>g, <2>1
  <2>5. Remembers'
    BY <1>g, <2>1, <2>4 DEF Remembers
  <2> QED BY <1>g, <2>1, <2>2, <2>3, <2>5
<1>11. CASE LookBack
  <2>1. /\ pc = "look" /\ tokenizer_ungetc(out) /\ pc' = "char"
        /\ which' = which /\ i' = i /\ cur' = cur /\ cnt > 1 /\ cur = At(cnt - 2)
    BY <1>11 DEF LookBack, Remembers, Goto
  <2>2. TypeOK'
    BY <1>0, <1>u, <2>1 DEF TypeOK
  <2>3. LookaheadBounded'
    BY <1>0, <1>u, <2>1 DEF LookaheadBounded, Base, Held
  <2>4. cnt' > 0 /\ cnt' - 1 = cnt - 2
    BY <1>0, <1>u, <2>1
  <2>5. Remembers'
    BY <1>u, <2>1, <2>4 DEF Remembers
  <2> QED BY <1>u, <2>1, <2>2, <2>3, <2>5
<1>12. CASE WideLook
  <2>1. /\ pc = "char" /\ cur # EOF /\ tokenizer_getc /\ pc' = "wide1"
        /\ which' = which /\ i' = i /\ cur' = cur /\ cnt > 0 /\ cur = At(cnt - 1)
    BY <1>12 DEF WideLook, Remembers, Goto
  <2>2. TypeOK'
    BY <1>0, <1>g, <2>1 DEF TypeOK
  <2>3. LookaheadBounded'
    BY <1>0, <1>g, <2>1 DEF LookaheadBounded, Base, Held
  <2>4. cnt' > 1 /\ cnt' - 2 = cnt - 1 /\ cnt' - 1 = cnt
    BY <1>0, <1>g, <2>1
  <2>5. Remembers'
    BY <1>g, <2>1, <2>4 DEF Remembers
  <2> QED BY <1>g, <2>1, <2>2, <2>3, <2>5
<1>13. CASE WideBack1
  <2>1. /\ pc = "wide1" /\ tokenizer_ungetc(out) /\ pc' = "wide2"
        /\ which' = which /\ i' = i /\ cur' = cur /\ cnt > 1 /\ cur = At(cnt - 2)
    BY <1>13 DEF WideBack1, Remembers, Goto
  <2>2. TypeOK'
    BY <1>0, <1>u, <2>1 DEF TypeOK
  <2>3. LookaheadBounded'
    BY <1>0, <1>u, <2>1 DEF LookaheadBounded, Base, Held
  <2>4. cnt' > 0 /\ cnt' - 1 = cnt - 2
    BY <1>0, <1>u, <2>1
  <2>5. Remembers'
    BY <1>u, <2>1, <2>4 DEF Remembers
  <2> QED BY <1>u, <2>1, <2>2, <2>3, <2>5
<1>14. CASE WideBack2
  <2>1. /\ pc = "wide2" /\ tokenizer_ungetc(cur) /\ pc' = "idle"
        /\ which' = which /\ i' = i /\ cur' = cur
    BY <1>14 DEF WideBack2, Goto
  <2>2. TypeOK'
    BY <1>0, <1>u, <2>1 DEF TypeOK
  <2>3. LookaheadBounded'
    BY <1>0, <1>u, <2>1 DEF LookaheadBounded, Base, Held
  <2>4. Remembers'
    BY <2>1 DEF Remembers
  <2> QED BY <1>u, <2>1, <2>2, <2>3, <2>4
<1>15. CASE tokenizer_rewind
  <2>1. /\ pc = "idle" /\ fpos' = 0 /\ cnt' = 0 /\ buffered' = 0 /\ out' = EOF
        /\ buf' = [s \in 0..Size-1 |-> Zero]
        /\ UNCHANGED <<stream, pc, which, i, cur>>
    BY <1>15 DEF tokenizer_rewind
  <2>2. TypeOK'
    BY <1>0, <2>1 DEF TypeOK
  <2>3. LookaheadBounded' /\ RingHoldsLast'
    BY <1>0, <2>1 DEF LookaheadBounded, Base, Held, RingHoldsLast
  <2>4. Remembers'
    BY <2>1 DEF Remembers
  <2> QED BY <2>2, <2>3, <2>4
<1>16. CASE UNCHANGED vars
  BY <1>16 DEF vars, ring, TypeOK, RingHoldsLast, LookaheadBounded, Base, Held,
               Remembers, Slot, At
<1> QED
  BY <1>1, <1>2, <1>3, <1>4, <1>5, <1>6, <1>7, <1>8, <1>9, <1>10, <1>11, <1>12,
     <1>13, <1>14, <1>15, <1>16 DEF Next

LEMMA AlwaysIInv == Spec => []IInv
BY InitIInv, StepIInv, PTL DEF Spec

-----------------------------------------------------------------------------
(* The theorems                                                            *)

\* The ring always holds the last Size characters that were read, and what the
\* scanner may take back always fits in it.
THEOREM RingCorrect == Spec => [](TypeOK /\ RingHoldsLast /\ LookaheadBounded)
BY AlwaysIInv, PTL DEF IInv

\* tokenizer_ungetc never fails an assertion: for every ring of more than two
\* slots and every set of markers shorter than it, on every text.
THEOREM UngetcSafe == Spec => []AssertsHold
BY AlwaysIInv, IInvAsserts, PTL

\* Every step of the scanner on the buffer is a step of the cursor, or none.
LEMMA StepRefines == IInv /\ [Next]_vars => [CS!Next]_(CS!vars)
<1> SUFFICES ASSUME IInv, [Next]_vars PROVE [CS!Next]_(CS!vars)
  OBVIOUS
<1> USE DEF IInv
<1>g. ASSUME tokenizer_getc PROVE CS!Next
  <2>1. out' = At(cnt) /\ cnt' = cnt + 1 /\ stream' = stream
    BY <1>g, GetcReads
  <2> QED BY <2>1 DEF CS!Next, CS!Read, CS!At, At
<1>u. ASSUME NEW c, tokenizer_ungetc(c) PROVE CS!Next
  <2>1. out' = out /\ cnt > 0 /\ cnt' = cnt - 1 /\ stream' = stream
    BY <1>u, UngetcSteps
  <2> QED BY <2>1 DEF CS!Next, CS!Unread
<1>s. ASSUME UNCHANGED ring PROVE UNCHANGED CS!vars
  BY <1>s DEF ring, CS!vars
<1>1. CASE GetChar \/ Peek \/ SequenceGet \/ LookBehind \/ WideLook
  BY <1>1, <1>g DEF GetChar, Peek, SequenceGet, LookBehind, WideLook
<1>2. CASE PutCharBack \/ PeekBack \/ SequenceUnget \/ UngetMarker \/ LookBack
           \/ WideBack1 \/ WideBack2
  BY <1>2, <1>u DEF PutCharBack, PeekBack, SequenceUnget, UngetMarker, LookBack,
                    WideBack1, WideBack2
<1>3. CASE TakeChar \/ \E m \in Markers : SequenceFollows(m)
  BY <1>3, <1>s DEF TakeChar, SequenceFollows
<1>4. CASE tokenizer_rewind
  BY <1>4 DEF tokenizer_rewind, CS!Next, CS!Rewind
<1>5. CASE UNCHANGED vars
  BY <1>5, <1>s DEF vars
<1> QED BY <1>1, <1>2, <1>3, <1>4, <1>5 DEF Next

\* The buffered reader implements the cursor: whatever the scanner looks ahead at
\* and takes back, it reads the file in order, losing and repeating nothing.
THEOREM BufferImplementsCursor == Spec => ReadsAsCursor
<1>1. Init => CS!Init
  BY DEF Init, CS!Init
<1> QED BY <1>1, AlwaysIInv, StepRefines, PTL DEF Spec, CS!Spec, ReadsAsCursor
=============================================================================
