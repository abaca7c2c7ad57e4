-------------------------- MODULE ReassemblyProofs --------------------------
(***************************************************************************)
(* Theorems about agssemble, for sources of any length, any lines and any  *)
(* page: the arrays of the assembler are never written past their blocks,  *)
(* neither when a source is assembled nor when the listing of its object   *)
(* is, and a jump reaches its label.  Last of the array alone: however it  *)
(* is written and positioned it behaves as a file in memory.               *)
(***************************************************************************)
EXTENDS Reassembly, SequenceTheorems, WellFoundedInduction, TLAPS

-----------------------------------------------------------------------------
(* The invariant                                                           *)

IsSeq(s) == s \in Seq(Range(s))

\* An array as it is between two writes.
Array(ba) ==
  /\ ba = [mem |-> ba.mem, capa |-> ba.capa, size |-> ba.size, pos |-> ba.pos, inside |-> TRUE]
  /\ ba.capa \in Nat /\ ba.size \in 0..ba.capa /\ ba.pos \in 0..ba.size
  /\ ba.mem = [k \in 1..ba.size |-> ba.mem[k]]

AtEnd(ba) == ba.pos = ba.size

\* The structs have their fields.
AsStruct ==
  DOMAIN as = {"data", "code", "label_map", "label_refs", "function_refs", "exports", "fixups",
               "strings", "string_section_length", "variables", "imports"}
Structs ==
  /\ AsStruct
  /\ DOMAIN file = {"data", "text"} /\ DOMAIN listing = {"data", "text"}
  /\ DOMAIN ds = {"dpc", "offset", "currInstr", "currExp", "currFixup", "currLbl", "lbl"}

\* Places of references are places in the code.
Places(refs) == IsSeq(refs) /\ \A i \in 1..Len(refs) : refs[i].insno \in Nat

\* The arrays are whole; what is read is appended to them.
Arrays ==
  /\ Array(as.data) /\ AtEnd(as.data)
  /\ Array(as.code) /\ (pc \in {"data", "text"} => AtEnd(as.code))
  /\ Places(as.label_refs) /\ Places(as.function_refs)

\* The variables of the listing have sizes.
Listed ==
  /\ Len(obj.data) \in Nat /\ ds.offset \in Nat
  /\ IsSeq(listing.data) /\ IsSeq(file.data)
  /\ \A i \in 1..Len(listing.data) : listing.data[i].size \in Nat

ArraysKept == Structs /\ Arrays /\ Listed

\* Words of code a line becomes, and the first of them.
width(l) ==
  IF l.op = A!DEFINITION THEN (IF A!IsLabel(A!NameOf(l.args[1])) THEN 0 ELSE 2)
  ELSE IF l.op = A!THISBASE THEN 0 ELSE 1 + A!argcount(l.op)
opcode(l) == IF l.op = A!DEFINITION THEN A!THISBASE ELSE l.op

\* Of the text T, whose lines begin at S: its last operands, their places, the end
\* of a line, and the beginning, which is P, the end of the code, behind the last.
Name(l) == A!NameOf(Last(l.args))
Place(S, T, k) == S[k] + A!argcount(T[k].op)
Behind(S, T, k) == S[k] + width(T[k])
Begin(S, P, k) == IF k <= Len(S) THEN S[k] ELSE P

\* Lines stand one behind the other in the words M, and one that has words begins
\* with its opcode.
LaidOut(S, T, P, M) ==
  /\ P \in Nat /\ S \in Seq(Nat) /\ Len(S) = Len(T)
  /\ Begin(S, P, 1) = 0
  /\ \A k \in 1..Len(T) : Begin(S, P, k + 1) = Behind(S, T, k) /\ Behind(S, T, k) <= P
  /\ \A j, k \in 1..Len(T) : j < k => Behind(S, T, j) <= S[k]
  /\ \A k \in 1..Len(T) : width(T[k]) > 0 => M[S[k] + 1] = opcode(T[k])

\* A label is where its first definition is.
FirstAt(S, T, name, at) ==
  \E k \in 1..Len(T) :
    /\ T[k].op = A!DEFINITION /\ Name(T[k]) = name /\ at = S[k]
    /\ \A j \in 1..Len(T) : T[j].op = A!DEFINITION /\ Name(T[j]) = name => k <= j
Labelled(S, T, L) ==
  /\ \A k \in 1..Len(T) :
       T[k].op = A!DEFINITION /\ A!IsLabel(Name(T[k])) => Name(T[k]) \in DOMAIN L
  /\ \A name \in DOMAIN L : FirstAt(S, T, name, L[name])

\* A reference is one of a jump, or of a load.
Referred(S, T, R, F) ==
  /\ \A i \in 1..Len(R) :
       \E k \in 1..Len(T) : T[k].op = A!JMP /\ R[i] = A!Ref(Name(T[k]), Place(S, T, k))
  /\ \A i \in 1..Len(F) :
       \E k \in 1..Len(T) : T[k].op = A!LITTOREG /\ F[i].insno = Place(S, T, k)

\* A jump waits for its label, or reaches it.
Waits(S, T, R, k) == \E i \in 1..Len(R) : R[i] = A!Ref(Name(T[k]), Place(S, T, k))
Lands(S, T, L, P, M, k) ==
  /\ Name(T[k]) \in DOMAIN L /\ L[Name(T[k])] < P
  /\ Place(S, T, k) + 1 + M[Place(S, T, k) + 1] = L[Name(T[k])]
Jumps(S, T, R, L, P, M) ==
  \A k \in 1..Len(T) : T[k].op = A!JMP => Waits(S, T, R, k) \/ Lands(S, T, L, P, M, k)

Read(T) ==
  /\ T \in Seq(TextLines)
  /\ \A k \in 1..Len(T) : T[k].op \in A!Instructions \cup {A!DEFINITION}

\* The code and the tables are those of the text.
Translated(S, T, P, M, L, R, F) ==
  /\ Read(T) /\ LaidOut(S, T, P, M) /\ Labelled(S, T, L)
  /\ Referred(S, T, R, F) /\ Jumps(S, T, R, L, P, M)

Assembling ==
  /\ Translated(starts, source.text, as.code.size, as.code.mem, as.label_map, as.label_refs,
                as.function_refs)
  /\ pc \in {"functions", "done"} => as.label_refs = <<>>
  /\ pc = "done" => obj.code = as.code.mem

IInv ==
  /\ ArraysKept
  /\ pass = 1 => source = file
  /\ (pass = 1 /\ pc # "abort") => Assembling

-----------------------------------------------------------------------------
(* Sequences                                                               *)

LEMMA Induction ==
  ASSUME NEW S \in SUBSET Nat, 0 \in S, \A n \in S : n + 1 \in S
  PROVE  S = Nat
<1> DEFINE R == OpToRel(<, Nat)
           Rest == Nat \ S
<1>1. IsWellFoundedOn(R, Nat)
  BY NatLessThanWellFounded
<1>2. ASSUME Rest # {} PROVE FALSE
  <2>1. PICK x \in Rest : \A y \in Rest : ~ (<<y, x>> \in R)
    <3> HIDE DEF R
    <3> QED BY <1>1, <1>2, WFMin
  <2>2. x \in Nat /\ x # 0 /\ x - 1 \in Nat /\ (x - 1) + 1 = x
    OBVIOUS
  <2>3. x - 1 \in Rest
    BY <2>2
  <2>4. ~(x - 1 < x)
    <3>1. ~ (<<x - 1, x>> \in R)
      BY <2>1, <2>3
    <3> QED BY <2>2, <3>1 DEF OpToRel
  <2> QED BY <2>2, <2>4
<1> QED BY <1>2

\* A set of numbers that is not empty has a least one.
LEMMA Least ==
  ASSUME NEW S \in SUBSET Nat, S # {}
  PROVE  \E x \in S : \A y \in S : x <= y
<1> DEFINE R == OpToRel(<, Nat)
<1>1. IsWellFoundedOn(R, Nat)
  BY NatLessThanWellFounded
<1>2. PICK x \in S : \A y \in S : ~ (<<y, x>> \in R)
  <2> HIDE DEF R
  <2> QED BY <1>1, WFMin
<1>3. ASSUME NEW y \in S PROVE x <= y
  <2>1. ~ (<<y, x>> \in R)
    BY <1>2
  <2>2. ~(y < x)
    BY <2>1 DEF OpToRel
  <2> QED BY <2>2
<1> QED BY <1>3

LEMMA EmptyList == IsSeq(<<>>) /\ Len(<<>>) = 0
<1>1. <<>> \in Seq({})
  BY EmptySeq
<1> QED BY <1>1, SeqOfRange, EmptySeq DEF IsSeq

LEMMA Longer ==
  ASSUME NEW s, IsSeq(s), NEW x
  PROVE  /\ IsSeq(Append(s, x)) /\ Len(s) \in Nat /\ Len(Append(s, x)) = Len(s) + 1
         /\ \A i \in 1..Len(s) : Append(s, x)[i] = s[i]
         /\ Append(s, x)[Len(s) + 1] = x
<1> DEFINE S == Range(s) \cup {x}
<1>1. s \in Seq(S) /\ x \in S
  <2>1. s \in Seq(Range(s)) /\ Range(s) \subseteq S
    BY DEF IsSeq
  <2> HIDE DEF S
  <2>2. s \in Seq(S)
    BY <2>1, SeqMonotonic
  <2> QED BY <2>2 DEF S
<1> HIDE DEF S
<1>2. Append(s, x) \in Seq(S)
  BY <1>1, AppendProperties
<1>3. IsSeq(Append(s, x))
  BY <1>2, SeqOfRange DEF IsSeq
<1>4. Len(s) \in Nat
  BY <1>1, LenProperties
<1> QED BY <1>1, <1>3, <1>4, AppendProperties

LEMMA Shorter ==
  ASSUME NEW s, IsSeq(s), s # <<>>
  PROVE  /\ IsSeq(Tail(s)) /\ Len(s) \in Nat \ {0} /\ Len(Tail(s)) = Len(s) - 1
         /\ \A i \in 1..Len(Tail(s)) : Tail(s)[i] = s[i + 1]
         /\ Head(s) = s[1]
<1>1. s \in Seq(Range(s))
  BY DEF IsSeq
<1>2. Tail(s) \in Seq(Range(s))
  BY <1>1, HeadTailProperties
<1>3. IsSeq(Tail(s))
  BY <1>2, SeqOfRange DEF IsSeq
<1>4. Len(s) \in Nat \ {0}
  BY <1>1, EmptySeq
<1>5. Head(s) = s[1]
  BY <1>1
<1> QED BY <1>1, <1>3, <1>4, <1>5, HeadTailProperties

\* A function from 1 to n is a sequence of n.
LEMMA Length ==
  ASSUME NEW n \in Nat, NEW m, m = [k \in 1..n |-> m[k]]
  PROVE  m \in Seq({m[k] : k \in 1..n}) /\ Len(m) = n
<1> DEFINE S == {m[k] : k \in 1..n}
<1>1. m \in [1..n -> S]
  OBVIOUS
<1> HIDE DEF S
<1>2. m \in Seq(S)
  BY <1>1, SeqDef
<1>3. Len(m) \in Nat /\ DOMAIN m = 1..Len(m) /\ DOMAIN m = 1..n
  BY <1>1, <1>2, LenProperties
<1>4. Len(m) = n
  BY <1>3
<1> QED BY <1>2, <1>4 DEF S

-----------------------------------------------------------------------------
(* Writing                                                                 *)

LEMMA WholePages ==
  ASSUME NEW n \in Nat
  PROVE  A!pages(n) \in Nat /\ n <= A!pages(n)
<1>1. Page \in Nat \ {0}
  BY PageAssumption
<1> DEFINE q == (n + Page) \div Page
<1>2. q \in Nat /\ n + Page < Page * q + Page
  <2>1. \A x \in Nat, d \in Nat \ {0} : x \div d \in Nat /\ x < d * (x \div d) + d
    OBVIOUS
  <2> QED BY <1>1, <2>1
<1> HIDE DEF q
<1>3. q * Page \in Nat /\ n <= q * Page
  <2>1. Page * q = q * Page /\ q * Page \in Nat
    BY <1>1, <1>2
  <2> QED BY <1>1, <1>2, <2>1
<1>4. A!pages(n) = n \/ A!pages(n) = q * Page
  BY DEF A!pages, A!round_up, q
<1> QED BY <1>3, <1>4

LEMMA GrowsEnough ==
  ASSUME NEW capa \in Nat, NEW n \in Nat
  PROVE  /\ A!mem_grow_if_needed(capa, n) \in Nat
         /\ n <= A!mem_grow_if_needed(capa, n)
         /\ capa <= A!mem_grow_if_needed(capa, n)
<1>1. A!pages(n) \in Nat /\ n <= A!pages(n)
  BY WholePages
<1> QED BY <1>1 DEF A!mem_grow_if_needed

\* A write fits; the cells it does not write are as they were.
LEMMA Written ==
  ASSUME NEW ba, Array(ba), NEW data, Len(data) \in Nat,
         NEW b, b = A!ByteArray_writeMem(ba, data)
  PROVE  /\ Array(b) /\ b.pos = ba.pos + Len(data)
         /\ ba.size <= b.size /\ (b.size = ba.size \/ b.size = b.pos)
         /\ \A k \in 1..ba.size : k \notin ba.pos + 1..ba.pos + Len(data) => b.mem[k] = ba.mem[k]
         /\ \A k \in 1..Len(data) : b.mem[ba.pos + k] = data[k]
<1> DEFINE n == Len(data)
           needed == ba.pos + n
           capa == A!mem_grow_if_needed(ba.capa, needed)
           size == A!longer(ba.size, needed)
           mem == A!memcpy(ba.mem, ba.pos, data)
<1>1. /\ ba.capa \in Nat /\ ba.size \in Nat /\ ba.pos \in Nat /\ ba.inside = TRUE
      /\ ba.size <= ba.capa /\ ba.pos <= ba.size
      /\ Len(ba.mem) = ba.size
  <2>1. /\ ba = [mem |-> ba.mem, capa |-> ba.capa, size |-> ba.size, pos |-> ba.pos, inside |-> TRUE]
        /\ ba.capa \in Nat /\ ba.size \in 0..ba.capa /\ ba.pos \in 0..ba.size
        /\ ba.mem = [k \in 1..ba.size |-> ba.mem[k]]
    BY DEF Array
  <2>2. ba.inside = TRUE
    BY <2>1
  <2>3. ba.size \in Nat
    BY <2>1
  <2>4. Len(ba.mem) = ba.size
    BY <2>1, <2>3, Length
  <2> QED BY <2>1, <2>2, <2>4
<1>2. n \in Nat /\ needed \in Nat
  BY <1>1
<1>3. capa \in Nat /\ needed <= capa /\ ba.capa <= capa
  BY <1>1, <1>2, GrowsEnough
<1>4. /\ size \in Nat /\ size <= capa /\ needed <= size /\ ba.size <= size
      /\ (size = ba.size \/ size = needed)
  BY <1>1, <1>2, <1>3 DEF A!longer
<1>5. mem = [k \in 1..size |-> IF k \in ba.pos + 1..ba.pos + n THEN data[k - ba.pos] ELSE ba.mem[k]]
  BY <1>1 DEF A!memcpy
<1>6. mem = [k \in 1..size |-> mem[k]]
  BY <1>5
<1>7. \A k \in 1..ba.size : k \notin ba.pos + 1..ba.pos + n => mem[k] = ba.mem[k]
  BY <1>1, <1>4, <1>5
<1>8. \A k \in 1..n : mem[ba.pos + k] = data[k]
  <2> SUFFICES ASSUME NEW k \in 1..n PROVE mem[ba.pos + k] = data[k]
    OBVIOUS
  <2>1. /\ ba.pos + k \in 1..size /\ ba.pos + k \in ba.pos + 1..ba.pos + n
        /\ (ba.pos + k) - ba.pos = k
    BY <1>1, <1>2, <1>4, SMTT(30)
  <2> QED BY <1>5, <2>1
<1> HIDE DEF capa, size, mem
<1>9. b = [mem |-> mem, capa |-> capa, size |-> size, pos |-> needed,
           inside |-> ba.inside /\ needed <= capa]
  BY DEF A!ByteArray_writeMem, capa, size, mem
<1>10. (ba.inside /\ needed <= capa) = TRUE
  BY <1>1, <1>3
<1>11. b = [mem |-> mem, capa |-> capa, size |-> size, pos |-> needed, inside |-> TRUE]
  BY <1>9, <1>10
<1>12. b.mem = mem /\ b.capa = capa /\ b.size = size /\ b.pos = needed
  BY <1>11
<1>13. Array(b)
  BY <1>2, <1>3, <1>4, <1>6, <1>11, <1>12 DEF Array
<1> QED BY <1>4, <1>7, <1>8, <1>12, <1>13

LEMMA Positioned ==
  ASSUME NEW ba, Array(ba), NEW p \in Nat, NEW b, b = A!ByteArray_set_position(ba, p)
  PROVE  /\ Array(b) /\ b.size = ba.size /\ b.mem = ba.mem
         /\ p <= ba.size => b.pos = p
<1>1. CASE p > ba.size
  <2>1. b = ba
    BY <1>1 DEF A!ByteArray_set_position
  <2>2. ba.size \in Nat
    BY DEF Array
  <2> QED BY <1>1, <2>1, <2>2
<1>2. CASE ~(p > ba.size)
  <2>1. b = [ba EXCEPT !.pos = p]
    BY <1>2 DEF A!ByteArray_set_position
  <2>2. /\ ba = [mem |-> ba.mem, capa |-> ba.capa, size |-> ba.size, pos |-> ba.pos, inside |-> TRUE]
        /\ ba.capa \in Nat /\ ba.size \in 0..ba.capa
        /\ ba.mem = [k \in 1..ba.size |-> ba.mem[k]]
    BY DEF Array
  <2>3. b = [mem |-> ba.mem, capa |-> ba.capa, size |-> ba.size, pos |-> p, inside |-> TRUE]
    <3>1. PICK m, c, n, q : ba = [mem |-> m, capa |-> c, size |-> n, pos |-> q, inside |-> TRUE]
      BY <2>2
    <3>2. b = [mem |-> m, capa |-> c, size |-> n, pos |-> p, inside |-> TRUE]
      BY <2>1, <3>1
    <3> QED BY <3>1, <3>2
  <2>4. p \in 0..ba.size
    BY <1>2, <2>2
  <2>5. b.mem = ba.mem /\ b.capa = ba.capa /\ b.size = ba.size /\ b.pos = p
    BY <2>3
  <2> QED BY <2>2, <2>3, <2>4, <2>5 DEF Array
<1> QED BY <1>1, <1>2

\* An array holds what its two lengths say.
LEMMA ArrayInside == ASSUME NEW ba, Array(ba) PROVE StreamInside(ba)
<1>1. /\ ba = [mem |-> ba.mem, capa |-> ba.capa, size |-> ba.size, pos |-> ba.pos, inside |-> TRUE]
      /\ ba.capa \in Nat /\ ba.size \in 0..ba.capa /\ ba.pos \in 0..ba.size
      /\ ba.mem = [k \in 1..ba.size |-> ba.mem[k]]
  BY DEF Array
<1>2. ba.inside = TRUE
  BY <1>1
<1>3. Len(ba.mem) = ba.size
  BY <1>1, Length
<1> QED BY <1>1, <1>2, <1>3 DEF StreamInside

\* The function that lists what there is after each write exists for k of them.
WritesListed(ba, parts, k) ==
  \E g : g = [n \in 0..k |-> IF n = 0 THEN ba ELSE A!ByteArray_writeMem(g[n - 1], parts[n])]

LEMMA WritesExist ==
  ASSUME NEW ba, NEW parts, NEW k \in Nat
  PROVE  WritesListed(ba, parts, k)
<1>1. WritesListed(ba, parts, 0)
  <2> DEFINE g == [n \in 0..0 |-> ba]
  <2>1. g = [n \in 0..0 |-> IF n = 0 THEN ba ELSE A!ByteArray_writeMem(g[n - 1], parts[n])]
    OBVIOUS
  <2> QED BY <2>1 DEF WritesListed
<1>2. ASSUME NEW j \in Nat, WritesListed(ba, parts, j) PROVE WritesListed(ba, parts, j + 1)
  <2>1. PICK h : h = [n \in 0..j |-> IF n = 0 THEN ba
                                     ELSE A!ByteArray_writeMem(h[n - 1], parts[n])]
    BY <1>2 DEF WritesListed
  <2> DEFINE g == [n \in 0..j + 1 |-> IF n = j + 1 THEN A!ByteArray_writeMem(h[j], parts[j + 1])
                                      ELSE h[n]]
  <2>2. ASSUME NEW n \in 0..j + 1
        PROVE  g[n] = IF n = 0 THEN ba ELSE A!ByteArray_writeMem(g[n - 1], parts[n])
    <3>1. CASE n = j + 1
      <4>1. g[n] = A!ByteArray_writeMem(h[j], parts[j + 1]) /\ n - 1 = j /\ n # 0
        BY <3>1
      <4>2. g[n - 1] = h[j]
        BY <3>1
      <4> QED BY <3>1, <4>1, <4>2
    <3>2. CASE n # j + 1
      <4>1. n \in 0..j /\ g[n] = h[n]
        BY <3>2
      <4>2. h[n] = IF n = 0 THEN ba ELSE A!ByteArray_writeMem(h[n - 1], parts[n])
        BY <2>1, <4>1
      <4>3. n # 0 => g[n - 1] = h[n - 1]
        BY <4>1
      <4> HIDE DEF g
      <4> QED BY <4>1, <4>2, <4>3
    <3> QED BY <3>1, <3>2
  <2>3. g = [n \in 0..j + 1 |-> g[n]]
    OBVIOUS
  <2> HIDE DEF g
  <2>4. [n \in 0..j + 1 |-> g[n]]
          = [n \in 0..j + 1 |-> IF n = 0 THEN ba ELSE A!ByteArray_writeMem(g[n - 1], parts[n])]
    BY <2>2
  <2> QED BY <2>3, <2>4 DEF WritesListed
<1> DEFINE Exist == {j \in Nat : WritesListed(ba, parts, j)}
<1>3. Exist = Nat
  <2>1. 0 \in Exist /\ \A j \in Exist : j + 1 \in Exist
    BY <1>1, <1>2
  <2> HIDE DEF Exist
  <2>2. Exist \in SUBSET Nat
    BY DEF Exist
  <2> QED BY <2>1, <2>2, Induction
<1> QED BY <1>3

LEMMA WritesDef ==
  ASSUME NEW ba, NEW parts, Len(parts) \in Nat
  PROVE  /\ A!Writes(ba, parts)[0] = ba
         /\ \A n \in 1..Len(parts) :
              A!Writes(ba, parts)[n] = A!ByteArray_writeMem(A!Writes(ba, parts)[n - 1], parts[n])
<1>1. WritesListed(ba, parts, Len(parts))
  BY WritesExist
<1>2. A!Writes(ba, parts) = [n \in 0..Len(parts) |->
        IF n = 0 THEN ba ELSE A!ByteArray_writeMem(A!Writes(ba, parts)[n - 1], parts[n])]
  BY <1>1 DEF WritesListed, A!Writes
<1> QED BY <1>2

\* Writes at the end leave what is there, and an array that is written at its end.
LEMMA AllWritten ==
  ASSUME NEW ba, Array(ba), AtEnd(ba), NEW parts, Len(parts) \in Nat,
         \A i \in 1..Len(parts) : Len(parts[i]) \in Nat,
         NEW b, b = A!ByteArray_writeAll(ba, parts)
  PROVE  /\ Array(b) /\ AtEnd(b) /\ ba.size <= b.size
         /\ \A k \in 1..ba.size : b.mem[k] = ba.mem[k]
         /\ (\A i \in 1..Len(parts) : Len(parts[i]) = 1) =>
              /\ b.size = ba.size + Len(parts)
              /\ \A i \in 1..Len(parts) : b.mem[ba.size + i] = parts[i][1]
<1> DEFINE W == A!Writes(ba, parts)
           N == Len(parts)
           Singles == \A i \in 1..N : Len(parts[i]) = 1
           Kept(n) ==
             /\ Array(W[n]) /\ AtEnd(W[n]) /\ ba.size <= W[n].size
             /\ \A k \in 1..ba.size : W[n].mem[k] = ba.mem[k]
             /\ Singles => /\ W[n].size = ba.size + n
                         /\ \A i \in 1..n : W[n].mem[ba.size + i] = parts[i][1]
           Done == {n \in Nat : n <= N => Kept(n)}
<1> HIDE DEF W, N
<1>1. W[0] = ba /\ \A n \in 1..N : W[n] = A!ByteArray_writeMem(W[n - 1], parts[n])
  BY WritesDef DEF W, N
<1>2. N \in Nat /\ ba.size \in Nat /\ \A i \in 1..N : Len(parts[i]) \in Nat
  BY DEF Array, N
<1>3. Kept(0)
  BY <1>1, <1>2
<1>4. ASSUME NEW n \in Nat, n + 1 <= N, Kept(n) PROVE Kept(n + 1)
  <2> DEFINE c == W[n]
             d == W[n + 1]
             data == parts[n + 1]
  <2>1. d = A!ByteArray_writeMem(c, data) /\ Len(data) \in Nat
    <3>1. n + 1 \in 1..N /\ (n + 1) - 1 = n
      BY <1>2, <1>4
    <3> QED BY <1>1, <1>2, <3>1
  <2>2. Array(c) /\ AtEnd(c)
    BY <1>4
  <2>3. /\ Array(d) /\ d.pos = c.pos + Len(data)
        /\ c.size <= d.size /\ (d.size = c.size \/ d.size = d.pos)
        /\ \A k \in 1..c.size : k \notin c.pos + 1..c.pos + Len(data) => d.mem[k] = c.mem[k]
        /\ \A k \in 1..Len(data) : d.mem[c.pos + k] = data[k]
    <3> HIDE DEF c, d, data
    <3> QED BY <2>1, <2>2, Written, SMTT(30)
  <2>4. /\ c.pos = c.size /\ c.size \in Nat /\ d.size \in Nat /\ d.pos \in 0..d.size
    BY <2>2, <2>3 DEF Array, AtEnd
  <2>5. d.size = c.size + Len(data) /\ d.pos = d.size
    <3> HIDE DEF c, d, data
    <3> QED BY <2>1, <2>3, <2>4
  <2>6. \A k \in 1..c.size : d.mem[k] = c.mem[k]
    <3> HIDE DEF c, d, data
    <3> QED BY <2>1, <2>3, <2>4
  <2>7. /\ ba.size <= c.size
        /\ \A k \in 1..ba.size : c.mem[k] = ba.mem[k]
        /\ Singles => /\ c.size = ba.size + n
                    /\ \A i \in 1..n : c.mem[ba.size + i] = parts[i][1]
    BY <1>4
  <2>8. Singles => Len(data) = 1
    BY <1>2, <1>4
  <2> HIDE DEF c, d, Singles
  <2>9. \A k \in 1..ba.size : d.mem[k] = ba.mem[k]
    <3>1. \A k \in 1..ba.size : k \in 1..c.size
      BY <1>2, <2>4, <2>7
    <3> QED BY <2>6, <2>7, <3>1
  <2>10. ASSUME Singles
         PROVE  d.size = ba.size + (n + 1) /\ \A i \in 1..n + 1 : d.mem[ba.size + i] = parts[i][1]
    <3>0. c.size = ba.size + n /\ Len(data) = 1
      BY <2>7, <2>8, <2>10
    <3>1. d.size = ba.size + (n + 1)
      <4> HIDE DEF data
      <4> QED BY <1>2, <2>5, <3>0, SMTT(30)
    <3>2. ASSUME NEW i \in 1..n PROVE d.mem[ba.size + i] = parts[i][1]
      <4>1. ba.size + i \in 1..c.size
        BY <1>2, <2>7, <2>10
      <4> QED BY <2>6, <2>7, <2>10, <4>1
    <3>3. d.mem[ba.size + (n + 1)] = data[1]
      <4> HIDE DEF data
      <4>1. 1 \in 1..Len(data) /\ c.pos + 1 = ba.size + (n + 1)
        BY <1>2, <2>4, <3>0, SMTT(30)
      <4> QED BY <2>3, <4>1
    <3>4. \A i \in 1..n + 1 : i \in 1..n \/ i = n + 1
      OBVIOUS
    <3> QED BY <3>1, <3>2, <3>3, <3>4
  <2>11. AtEnd(d) /\ ba.size <= d.size
    BY <1>2, <2>3, <2>4, <2>5, <2>7 DEF AtEnd
  <2> QED BY <2>3, <2>9, <2>10, <2>11 DEF d
<1>5. Done = Nat
  <2> HIDE DEF Kept
  <2>1. 0 \in Done
    BY <1>3
  <2>2. ASSUME NEW n \in Done PROVE n + 1 \in Done
    <3>1. n \in Nat /\ (n <= N => Kept(n))
      OBVIOUS
    <3>2. n + 1 <= N => n <= N
      BY <1>2, <3>1
    <3> QED BY <1>4, <3>1, <3>2
  <2> HIDE DEF Done
  <2>3. Done \in SUBSET Nat
    BY DEF Done
  <2> QED BY <2>1, <2>2, <2>3, Induction
<1>6. Kept(N)
  <2>1. N \in Done
    BY <1>2, <1>5
  <2>2. N <= N
    BY <1>2
  <2> HIDE DEF Kept
  <2> QED BY <2>1, <2>2
<1>7. b = W[N]
  BY DEF A!ByteArray_writeAll, W, N
<1> QED BY <1>6, <1>7 DEF N

-----------------------------------------------------------------------------
(* A line of the text                                                      *)

LEMMA Emits ==
  ASSUME Array(as.code), AtEnd(as.code), NEW words, Len(words) \in Nat,
         NEW c, c = A!Emitted(words)
  PROVE  /\ Array(c) /\ AtEnd(c) /\ c.size = as.code.size + Len(words)
         /\ \A k \in 1..as.code.size : c.mem[k] = as.code.mem[k]
         /\ \A i \in 1..Len(words) : c.mem[as.code.size + i] = words[i]
<1> DEFINE N == Len(words)
           parts == [k \in 1..N |-> <<words[k]>>]
<1>1. parts = [k \in 1..N |-> parts[k]]
  OBVIOUS
<1>2. \A i \in 1..N : parts[i] = <<words[i]>> /\ Len(parts[i]) = 1 /\ parts[i][1] = words[i]
  OBVIOUS
<1>3. c = A!ByteArray_writeAll(as.code, parts)
  BY DEF A!Emitted
<1> HIDE DEF parts
<1>4. Len(parts) = N
  BY <1>1, Length
<1>5. /\ Array(c) /\ AtEnd(c)
      /\ \A k \in 1..as.code.size : c.mem[k] = as.code.mem[k]
      /\ c.size = as.code.size + Len(parts)
      /\ \A i \in 1..Len(parts) : c.mem[as.code.size + i] = parts[i][1]
  <2>1. /\ \A i \in 1..Len(parts) : Len(parts[i]) \in Nat
        /\ \A i \in 1..Len(parts) : Len(parts[i]) = 1
        /\ Len(parts) \in Nat
    <3>1. \A i \in 1..Len(parts) : Len(parts[i]) = 1
      BY <1>2, <1>4
    <3>2. \A i \in 1..Len(parts) : Len(parts[i]) \in Nat
      BY <3>1
    <3>3. Len(parts) \in Nat
      BY <1>4
    <3> QED BY <3>1, <3>2, <3>3
  <2>2. PICK ba : ba = as.code
    OBVIOUS
  <2>3. Array(ba) /\ AtEnd(ba) /\ c = A!ByteArray_writeAll(ba, parts)
    BY <1>3, <2>2
  <2>4. /\ Array(c) /\ AtEnd(c) /\ ba.size <= c.size
        /\ \A k \in 1..ba.size : c.mem[k] = ba.mem[k]
        /\ (\A i \in 1..Len(parts) : Len(parts[i]) = 1) =>
             /\ c.size = ba.size + Len(parts)
             /\ \A i \in 1..Len(parts) : c.mem[ba.size + i] = parts[i][1]
    BY <2>1, <2>3, AllWritten
  <2> QED BY <2>1, <2>2, <2>4
<1> QED BY <1>2, <1>4, <1>5

LEMMA Joined ==
  ASSUME NEW s, IsSeq(s), NEW t, IsSeq(t)
  PROVE  /\ IsSeq(s \o t) /\ Len(s) \in Nat /\ Len(t) \in Nat /\ Len(s \o t) = Len(s) + Len(t)
         /\ \A i \in 1..Len(s) : (s \o t)[i] = s[i]
<1> DEFINE S == Range(s) \cup Range(t)
<1>1. s \in Seq(S) /\ t \in Seq(S)
  <2>1. s \in Seq(Range(s)) /\ Range(s) \subseteq S /\ t \in Seq(Range(t)) /\ Range(t) \subseteq S
    BY DEF IsSeq
  <2> HIDE DEF S
  <2> QED BY <2>1, SeqMonotonic
<1> HIDE DEF S
<1>2. s \o t \in Seq(S)
  BY <1>1, ConcatProperties
<1>3. IsSeq(s \o t)
  BY <1>2, SeqOfRange DEF IsSeq
<1>4. Len(s) \in Nat /\ Len(t) \in Nat
  BY <1>1, LenProperties
<1>5. /\ Len(s \o t) = Len(s) + Len(t)
      /\ \A i \in 1..Len(s) + Len(t) : (s \o t)[i] = IF i <= Len(s) THEN s[i] ELSE t[i - Len(s)]
  BY <1>1, ConcatProperties
<1>6. \A i \in 1..Len(s) : (s \o t)[i] = s[i]
  BY <1>4, <1>5
<1> QED BY <1>3, <1>4, <1>5, <1>6

LEMMA OneOrTwo ==
  ASSUME NEW x, NEW y
  PROVE  IsSeq(<<x>>) /\ Len(<<x>>) = 1 /\ IsSeq(<<x, y>>) /\ Len(<<x, y>>) = 2
<1>1. <<x>> \in Seq({x}) /\ <<x, y>> \in Seq({x, y})
  OBVIOUS
<1>2. IsSeq(<<x>>) /\ IsSeq(<<x, y>>)
  BY <1>1, SeqOfRange DEF IsSeq
<1> QED BY <1>2

\* An instruction begins with its opcode.
LEMMA RegisterWordsAre ==
  ASSUME NEW l, NEW x
  PROVE  /\ Len(A!RegisterWords(l)) = 1 + A!regcount(l.op)
         /\ Len(A!RegisterWords(l) \o <<x>>) = 2 + A!regcount(l.op)
         /\ A!RegisterWords(l)[1] = l.op
         /\ (A!RegisterWords(l) \o <<x>>)[1] = l.op
<1> DEFINE n == A!regcount(l.op)
           some == [k \in 1..n |-> l.args[k][3]]
           registers == IF l.op = A!REGTOREG THEN <<l.args[2][3], l.args[1][3]>> ELSE some
           words == A!RegisterWords(l)
<1>1. n \in {0, 1, 2} /\ (l.op = A!REGTOREG => n = 2)
  BY DEF A!regcount
<1>2. IsSeq(registers) /\ Len(registers) = n
  <2>1. CASE l.op = A!REGTOREG
    <3>1. registers = <<l.args[2][3], l.args[1][3]>>
      BY <2>1
    <3> QED BY <1>1, <2>1, <3>1, OneOrTwo
  <2>2. CASE l.op # A!REGTOREG
    <3>1. registers = some
      BY <2>2
    <3>2. some = [k \in 1..n |-> some[k]]
      OBVIOUS
    <3> HIDE DEF some, n
    <3>3. some \in Seq({some[k] : k \in 1..n}) /\ Len(some) = n
      BY <1>1, <3>2, Length
    <3>4. IsSeq(some)
      BY <3>3, SeqOfRange DEF IsSeq
    <3> QED BY <3>1, <3>3, <3>4
  <2> QED BY <2>1, <2>2
<1> HIDE DEF registers
<1>3. words = <<l.op>> \o registers
  BY DEF A!RegisterWords, registers
<1>4. IsSeq(<<l.op>>) /\ Len(<<l.op>>) = 1 /\ IsSeq(<<x>>) /\ Len(<<x>>) = 1 /\ <<l.op>>[1] = l.op
  BY OneOrTwo
<1>5. IsSeq(words) /\ Len(words) = 1 + n /\ words[1] = l.op
  <2>1. 1 \in 1..Len(<<l.op>>)
    BY <1>4
  <2> HIDE DEF words, n
  <2>2. /\ IsSeq(<<l.op>> \o registers) /\ Len(<<l.op>> \o registers) = Len(<<l.op>>) + Len(registers)
        /\ (<<l.op>> \o registers)[1] = <<l.op>>[1]
    BY <1>2, <1>4, <2>1, Joined
  <2> QED BY <1>2, <1>3, <1>4, <2>2
<1>6. Len(words \o <<x>>) = 2 + n /\ (words \o <<x>>)[1] = l.op
  <2> HIDE DEF words, n
  <2>1. 1 \in 1..Len(words)
    BY <1>1, <1>5
  <2>2. Len(words \o <<x>>) = Len(words) + Len(<<x>>) /\ (words \o <<x>>)[1] = words[1]
    BY <1>4, <1>5, <2>1, Joined
  <2> QED BY <1>1, <1>4, <1>5, <2>2
<1> QED BY <1>5, <1>6

\* What a line that is not refused adds to the code ...
Code(l) ==
  /\ Array(as'.code) /\ AtEnd(as'.code) /\ as'.code.size = as.code.size + width(l)
  /\ \A k \in 1..as.code.size : as'.code.mem[k] = as.code.mem[k]
  /\ width(l) > 0 => as'.code.mem[as.code.size + 1] = opcode(l)

NewLabel(l) ==
  /\ l.op = A!DEFINITION /\ A!IsLabel(A!NameOf(l.args[1]))
  /\ A!NameOf(l.args[1]) \notin DOMAIN as.label_map
RefTo(l) == A!Ref(A!NameOf(A!Last(l.args)), A!pos + A!argcount(l.op))

\* ... and to the labels and the references.
Tables(l) ==
  /\ as'.label_map = IF NewLabel(l)
       THEN [k \in DOMAIN as.label_map \cup {A!NameOf(l.args[1])} |->
               IF k = A!NameOf(l.args[1]) THEN A!pos ELSE as.label_map[k]]
       ELSE as.label_map
  /\ as'.label_refs = IF l.op = A!JMP THEN Append(as.label_refs, RefTo(l)) ELSE as.label_refs
  /\ \/ as'.function_refs = as.function_refs
     \/ l.op = A!LITTOREG /\ as'.function_refs = Append(as.function_refs, RefTo(l))

LineRead(l) ==
  /\ A!ReadText(l) /\ pc' = pc /\ obj' = obj
  /\ l.op \in A!Instructions \cup {A!DEFINITION}
  /\ AsStruct' /\ as'.data = as.data
  /\ Code(l) /\ Tables(l)

LEMMA WordsAreCode ==
  ASSUME Array(as.code), AtEnd(as.code), NEW l, NEW words, Len(words) = width(l), width(l) \in Nat,
         words[1] = opcode(l), as'.code = A!Emitted(words)
  PROVE  Code(l)
<1> DEFINE c == as'.code
<1>1. /\ Array(c) /\ AtEnd(c) /\ c.size = as.code.size + Len(words)
      /\ \A k \in 1..as.code.size : c.mem[k] = as.code.mem[k]
      /\ \A i \in 1..Len(words) : c.mem[as.code.size + i] = words[i]
  BY Emits
<1>2. width(l) > 0 => c.mem[as.code.size + 1] = opcode(l)
  <2> SUFFICES ASSUME width(l) > 0 PROVE c.mem[as.code.size + 1] = opcode(l)
    OBVIOUS
  <2>1. 1 \in 1..Len(words)
    OBVIOUS
  <2> QED BY <1>1, <2>1
<1> QED BY <1>1, <1>2 DEF Code

LEMMA SizeIs ==
  ASSUME NEW ba, Array(ba) PROVE ba.size \in Nat /\ ba.pos \in Nat /\ ba.pos <= ba.size
BY DEF Array

LEMMA NoWords ==
  ASSUME Array(as.code), AtEnd(as.code), NEW l, width(l) = 0, as'.code = as.code
  PROVE  Code(l)
<1>1. PICK c : c = as.code
  OBVIOUS
<1>2. Array(c) /\ AtEnd(c) /\ as'.code = c
  BY <1>1
<1>3. c.size \in Nat
  BY <1>2, SizeIs
<1>4. c.size = c.size + width(l) /\ ~(width(l) > 0)
  BY <1>3
<1> QED BY <1>1, <1>2, <1>4 DEF Code

\* The words of an instruction, with an immediate operand and without.
LEMMA Instruction ==
  ASSUME NEW l, l.op \in A!Instructions \ {A!THISBASE}, NEW x
  PROVE  /\ width(l) = 1 + A!argcount(l.op) /\ width(l) \in Nat /\ opcode(l) = l.op
         /\ l.op # A!DEFINITION
         /\ A!argcount(l.op) = A!regcount(l.op) =>
              l.op \notin {A!JMP, A!LITTOREG} /\ Len(A!RegisterWords(l)) = width(l)
         /\ l.op \in {A!LITTOREG, A!JMP} => Len(A!RegisterWords(l) \o <<x>>) = width(l)
         /\ A!RegisterWords(l)[1] = opcode(l)
         /\ (A!RegisterWords(l) \o <<x>>)[1] = opcode(l)
<1>1. l.op # A!DEFINITION /\ l.op # A!THISBASE
  BY DEF A!Instructions, A!DEFINITION, A!THISBASE, A!REGTOREG, A!RET, A!LITTOREG, A!MEMREAD,
         A!MEMREADB, A!JMP
<1>2. A!argcount(l.op) \in Nat /\ A!regcount(l.op) \in Nat
  BY DEF A!argcount, A!regcount
<1>3. width(l) = 1 + A!argcount(l.op) /\ opcode(l) = l.op
  BY <1>1 DEF width, opcode
<1>4. A!argcount(l.op) = A!regcount(l.op) => l.op \notin {A!JMP, A!LITTOREG}
  BY DEF A!argcount, A!regcount, A!JMP, A!LITTOREG, A!REGTOREG, A!RET, A!MEMREAD, A!MEMREADB
<1>5. l.op \in {A!LITTOREG, A!JMP} => 2 + A!regcount(l.op) = 1 + A!argcount(l.op)
  BY DEF A!argcount, A!regcount, A!JMP, A!LITTOREG, A!REGTOREG, A!RET, A!MEMREAD, A!MEMREADB
<1> QED BY <1>1, <1>2, <1>3, <1>4, <1>5, RegisterWordsAre

LEMMA Codes ==
  /\ A!LITTOREG \in A!Instructions \ {A!THISBASE} /\ A!JMP \in A!Instructions \ {A!THISBASE}
  /\ A!THISBASE \in A!Instructions /\ A!JMP # A!LITTOREG
  /\ A!DEFINITION \notin A!Instructions
BY DEF A!Instructions, A!DEFINITION, A!THISBASE, A!REGTOREG, A!RET, A!LITTOREG, A!MEMREAD,
       A!MEMREADB, A!JMP

\* A load whose operand is not a function notes no reference.
LEMMA LoadRead ==
  ASSUME AsStruct, Array(as.code), AtEnd(as.code), NEW l, l.op = A!LITTOREG, A!ReadText(l),
         pc' = pc, obj' = obj, AsStruct', NEW x,
         as'.code = A!Emitted(A!RegisterWords(l) \o <<x>>), as'.data = as.data,
         as'.label_map = as.label_map, as'.label_refs = as.label_refs,
         \/ as'.function_refs = as.function_refs
         \/ as'.function_refs = Append(as.function_refs, RefTo(l))
  PROVE  LineRead(l)
<1>1. l.op \in A!Instructions \ {A!THISBASE} /\ l.op # A!JMP
  BY Codes
<1>2. /\ width(l) \in Nat /\ Len(A!RegisterWords(l) \o <<x>>) = width(l) /\ l.op # A!DEFINITION
      /\ (A!RegisterWords(l) \o <<x>>)[1] = opcode(l)
  BY <1>1, Instruction
<1>3. Code(l)
  BY <1>2, WordsAreCode
<1>4. Tables(l)
  <2>1. ~NewLabel(l)
    BY <1>2 DEF NewLabel
  <2> QED BY <1>1, <2>1, Zenon DEF Tables
<1>5. l.op \in A!Instructions \cup {A!DEFINITION}
  BY <1>1
<1> QED BY <1>3, <1>4, <1>5, Zenon DEF LineRead

LEMMA LoadNumberRead ==
  ASSUME AsStruct, Array(as.code), AtEnd(as.code), NEW l, A!LoadNumber(l)
  PROVE  LineRead(l)
<1>1. PICK x : x = A!Last(l.args)[3]
  OBVIOUS
<1>2. PICK c : c = A!Emitted(A!RegisterWords(l) \o <<x>>)
  OBVIOUS
<1>3. /\ as' = [as EXCEPT !.code = c] /\ A!ReadText(l) /\ pc' = pc /\ obj' = obj
      /\ l.op = A!LITTOREG
  BY <1>1, <1>2 DEF A!LoadNumber
<1>4. /\ AsStruct' /\ as'.code = c /\ as'.data = as.data /\ as'.label_map = as.label_map
      /\ as'.label_refs = as.label_refs /\ as'.function_refs = as.function_refs
  BY <1>3 DEF AsStruct
<1> QED BY <1>2, <1>3, <1>4, LoadRead

LEMMA LoadStringRead ==
  ASSUME AsStruct, Array(as.code), AtEnd(as.code), NEW l, A!LoadString(l), pc' # "abort"
  PROVE  LineRead(l)
<1> DEFINE text == A!Last(l.args)[2]
           s == A!unescape(text).text
           known == A!StringOffsets(s) # {}
           o == IF known THEN CHOOSE x \in A!StringOffsets(s) : TRUE ELSE as.string_section_length
<1>1. PICK x, fx, st, sl :
        /\ as' = [as EXCEPT !.code = A!Emitted(A!RegisterWords(l) \o <<x>>), !.fixups = fx,
                            !.strings = st, !.string_section_length = sl]
        /\ A!ReadText(l) /\ pc' = pc /\ obj' = obj /\ l.op = A!LITTOREG
  <2>1. A!StringRead(text)
    BY DEF A!LoadString, A!Abort
  <2>2. /\ as' = [as EXCEPT
                  !.code = A!Emitted(A!RegisterWords(l) \o <<o>>),
                  !.fixups = Append(@, A!Fixup(A!FIXUP_STRING, A!operand_at(l))),
                  !.strings = IF known THEN @ ELSE Append(@, [str |-> s, offset |-> o]),
                  !.string_section_length = IF known THEN @ ELSE @ + A!string_space(s)]
        /\ A!ReadText(l) /\ pc' = pc /\ obj' = obj /\ l.op = A!LITTOREG
    BY <2>1, Zenon DEF A!LoadString
  <2> HIDE DEF o
  <2> QED BY <2>2, ZenonT(30)
<1>2. PICK c : c = A!Emitted(A!RegisterWords(l) \o <<x>>)
  OBVIOUS
<1>3. as' = [as EXCEPT !.code = c, !.fixups = fx, !.strings = st, !.string_section_length = sl]
  BY <1>1, <1>2
<1>4. /\ AsStruct' /\ as'.code = c /\ as'.data = as.data /\ as'.label_map = as.label_map
      /\ as'.label_refs = as.label_refs /\ as'.function_refs = as.function_refs
  BY <1>3 DEF AsStruct
<1> QED BY <1>1, <1>2, <1>4, LoadRead, SMTT(30)

LEMMA LoadVariableRead ==
  ASSUME AsStruct, Array(as.code), AtEnd(as.code), NEW l, A!LoadVariable(l), pc' # "abort"
  PROVE  LineRead(l)
<1>1. PICK x, fx :
        /\ as' = [as EXCEPT !.code = A!Emitted(A!RegisterWords(l) \o <<x>>), !.fixups = fx]
        /\ A!ReadText(l) /\ pc' = pc /\ obj' = obj /\ l.op = A!LITTOREG
  BY DEF A!LoadVariable, A!Abort
<1>2. PICK c : c = A!Emitted(A!RegisterWords(l) \o <<x>>)
  OBVIOUS
<1>3. as' = [as EXCEPT !.code = c, !.fixups = fx]
  BY <1>1, <1>2
<1>4. /\ AsStruct' /\ as'.code = c /\ as'.data = as.data /\ as'.label_map = as.label_map
      /\ as'.label_refs = as.label_refs /\ as'.function_refs = as.function_refs
  BY <1>3 DEF AsStruct
<1> QED BY <1>1, <1>2, <1>4, LoadRead

LEMMA LoadStackRead ==
  ASSUME AsStruct, Array(as.code), AtEnd(as.code), NEW l, A!LoadStack(l), pc' # "abort"
  PROVE  LineRead(l)
<1>1. PICK x, fx :
        /\ as' = [as EXCEPT !.code = A!Emitted(A!RegisterWords(l) \o <<x>>), !.fixups = fx]
        /\ A!ReadText(l) /\ pc' = pc /\ obj' = obj /\ l.op = A!LITTOREG
  BY DEF A!LoadStack, A!Abort
<1>2. PICK c : c = A!Emitted(A!RegisterWords(l) \o <<x>>)
  OBVIOUS
<1>3. as' = [as EXCEPT !.code = c, !.fixups = fx]
  BY <1>1, <1>2
<1>4. /\ AsStruct' /\ as'.code = c /\ as'.data = as.data /\ as'.label_map = as.label_map
      /\ as'.label_refs = as.label_refs /\ as'.function_refs = as.function_refs
  BY <1>3 DEF AsStruct
<1> QED BY <1>1, <1>2, <1>4, LoadRead

LEMMA LoadFunctionRead ==
  ASSUME AsStruct, Array(as.code), AtEnd(as.code), NEW l, A!LoadFunction(l)
  PROVE  LineRead(l)
<1>1. PICK c : c = A!Emitted(A!RegisterWords(l) \o <<0>>)
  OBVIOUS
<1>2. PICK r : r = Append(as.function_refs, RefTo(l))
  OBVIOUS
<1>3. /\ as' = [as EXCEPT !.code = c, !.function_refs = r]
      /\ A!ReadText(l) /\ pc' = pc /\ obj' = obj /\ l.op = A!LITTOREG
  <2>1. /\ as' = [as EXCEPT !.code = c, !.function_refs = Append(@, RefTo(l))]
        /\ A!ReadText(l) /\ pc' = pc /\ obj' = obj /\ l.op = A!LITTOREG
    BY <1>1 DEF A!LoadFunction, RefTo, A!operand_at, A!place_after_op
  <2> QED BY <1>2, <2>1
<1>4. /\ AsStruct' /\ as'.code = c /\ as'.data = as.data /\ as'.label_map = as.label_map
      /\ as'.label_refs = as.label_refs /\ as'.function_refs = r
  BY <1>3 DEF AsStruct
<1> QED BY <1>1, <1>2, <1>3, <1>4, LoadRead

LEMMA JumpRead ==
  ASSUME AsStruct, Array(as.code), AtEnd(as.code), NEW l, A!Jump(l)
  PROVE  LineRead(l)
<1>1. PICK c : c = A!Emitted(A!RegisterWords(l) \o <<0>>)
  OBVIOUS
<1>2. PICK r : r = Append(as.label_refs, RefTo(l))
  OBVIOUS
<1>3. /\ as' = [as EXCEPT !.code = c, !.label_refs = r]
      /\ A!ReadText(l) /\ pc' = pc /\ obj' = obj /\ l.op = A!JMP
  <2>1. /\ as' = [as EXCEPT !.code = c, !.label_refs = Append(@, RefTo(l))]
        /\ A!ReadText(l) /\ pc' = pc /\ obj' = obj /\ l.op = A!JMP
    BY <1>1 DEF A!Jump, RefTo, A!operand_at, A!place_after_op
  <2> QED BY <1>2, <2>1
<1>4. /\ AsStruct' /\ as'.code = c /\ as'.data = as.data /\ as'.label_map = as.label_map
      /\ as'.label_refs = r /\ as'.function_refs = as.function_refs
  BY <1>3 DEF AsStruct
<1>5. l.op \in A!Instructions \ {A!THISBASE}
  BY <1>3, Codes
<1>6. /\ width(l) \in Nat /\ Len(A!RegisterWords(l) \o <<0>>) = width(l) /\ l.op # A!DEFINITION
      /\ (A!RegisterWords(l) \o <<0>>)[1] = opcode(l)
  BY <1>3, <1>5, Instruction
<1>7. Code(l)
  BY <1>1, <1>4, <1>6, WordsAreCode
<1>8. Tables(l)
  <2>1. ~NewLabel(l)
    BY <1>6 DEF NewLabel
  <2> QED BY <1>2, <1>3, <1>4, <2>1, Zenon DEF Tables
<1>9. l.op \in A!Instructions \cup {A!DEFINITION}
  BY <1>5
<1> QED BY <1>3, <1>4, <1>7, <1>8, <1>9, Zenon DEF LineRead

LEMMA RegistersRead ==
  ASSUME AsStruct, Array(as.code), AtEnd(as.code), NEW l, A!Registers(l)
  PROVE  LineRead(l)
<1>1. PICK c : c = A!Emitted(A!RegisterWords(l))
  OBVIOUS
<1>2. /\ as' = [as EXCEPT !.code = c]
      /\ A!ReadText(l) /\ pc' = pc /\ obj' = obj /\ l.op \in A!Instructions \ {A!THISBASE}
      /\ A!argcount(l.op) = A!regcount(l.op)
  BY <1>1 DEF A!Registers
<1>3. /\ AsStruct' /\ as'.code = c /\ as'.data = as.data /\ as'.label_map = as.label_map
      /\ as'.label_refs = as.label_refs /\ as'.function_refs = as.function_refs
  BY <1>2 DEF AsStruct
<1>4. /\ width(l) \in Nat /\ Len(A!RegisterWords(l)) = width(l) /\ l.op # A!DEFINITION
      /\ A!RegisterWords(l)[1] = opcode(l) /\ l.op # A!JMP
  BY <1>2, Instruction
<1>5. Code(l)
  BY <1>1, <1>3, <1>4, WordsAreCode
<1>6. Tables(l)
  <2>1. ~NewLabel(l)
    BY <1>4 DEF NewLabel
  <2> QED BY <1>3, <1>4, <2>1, Zenon DEF Tables
<1>7. l.op \in A!Instructions \cup {A!DEFINITION}
  BY <1>2
<1> QED BY <1>2, <1>3, <1>5, <1>6, <1>7, Zenon DEF LineRead

LEMMA SkipRead ==
  ASSUME AsStruct, Array(as.code), AtEnd(as.code), NEW l, A!SkipThisbase(l)
  PROVE  LineRead(l)
<1>1. as' = as /\ A!ReadText(l) /\ pc' = pc /\ obj' = obj /\ l.op = A!THISBASE
  BY DEF A!SkipThisbase
<1>2. l.op # A!DEFINITION /\ l.op # A!JMP
  BY <1>1, Codes
<1>3. width(l) = 0
  BY <1>1, <1>2 DEF width
<1>4. Code(l)
  BY <1>1, <1>3, NoWords
<1>5. Tables(l)
  <2>1. ~NewLabel(l)
    BY <1>2 DEF NewLabel
  <2> QED BY <1>1, <1>2, <2>1, Zenon DEF Tables
<1>6. l.op \in A!Instructions \cup {A!DEFINITION}
  BY <1>1, Codes
<1>7. AsStruct' /\ as'.data = as.data
  BY <1>1 DEF AsStruct
<1> QED BY <1>1, <1>4, <1>5, <1>6, <1>7, Zenon DEF LineRead

LEMMA DefineRead ==
  ASSUME AsStruct, Array(as.code), AtEnd(as.code), NEW l, A!Define(l), pc' # "abort"
  PROVE  LineRead(l)
<1> DEFINE name == A!NameOf(l.args[1])
<1>1. A!ReadText(l) /\ pc' = pc /\ obj' = obj /\ l.op = A!DEFINITION
  BY DEF A!Define, A!Abort
<1>2. l.op # A!JMP /\ opcode(l) = A!THISBASE /\ l.op \in A!Instructions \cup {A!DEFINITION}
  BY <1>1, Codes DEF opcode
<1>3. CASE A!IsLabel(name)
  <2>1. width(l) = 0
    BY <1>1, <1>3 DEF width
  <2>2. CASE name \in DOMAIN as.label_map
    <3>1. as' = as
      BY <1>1, <1>3, <2>2 DEF A!Define
    <3>2. Code(l)
      BY <2>1, <3>1, NoWords
    <3>3. Tables(l)
      <4>1. ~NewLabel(l)
        BY <2>2 DEF NewLabel
      <4> QED BY <1>2, <3>1, <4>1, Zenon DEF Tables
    <3>4. AsStruct' /\ as'.data = as.data
      BY <3>1 DEF AsStruct
    <3> QED BY <1>1, <1>2, <3>2, <3>3, <3>4, Zenon DEF LineRead
  <2>3. CASE name \notin DOMAIN as.label_map
    <3>1. PICK m : m = [k \in DOMAIN as.label_map \cup {name} |->
                          IF k = name THEN A!pos ELSE as.label_map[k]]
      OBVIOUS
    <3>2. as' = [as EXCEPT !.label_map = m]
      <4>1. as' = [as EXCEPT !.label_map =
                     [k \in DOMAIN @ \cup {name} |-> IF k = name THEN A!pos ELSE @[k]]]
        BY <1>1, <1>3, <2>3 DEF A!Define
      <4> QED BY <3>1, <4>1
    <3>3. /\ AsStruct' /\ as'.code = as.code /\ as'.data = as.data /\ as'.label_map = m
          /\ as'.label_refs = as.label_refs /\ as'.function_refs = as.function_refs
      BY <3>2 DEF AsStruct
    <3>4. Code(l)
      BY <2>1, <3>3, NoWords
    <3>5. Tables(l)
      <4>1. NewLabel(l)
        BY <1>1, <1>3, <2>3 DEF NewLabel
      <4> QED BY <1>2, <3>1, <3>3, <4>1, Zenon DEF Tables
    <3> QED BY <1>1, <1>2, <3>3, <3>4, <3>5, Zenon DEF LineRead
  <2> QED BY <2>2, <2>3
<1>4. CASE ~A!IsLabel(name)
  <2>1. width(l) = 2
    BY <1>1, <1>4 DEF width
  <2>2. PICK c, ex : /\ c = A!Emitted(<<A!THISBASE, A!pos>>)
                     /\ as' = [as EXCEPT !.exports = ex, !.code = c]
    BY <1>1, <1>4 DEF A!Define, A!Abort
  <2>3. /\ AsStruct' /\ as'.code = c /\ as'.data = as.data /\ as'.label_map = as.label_map
        /\ as'.label_refs = as.label_refs /\ as'.function_refs = as.function_refs
    BY <2>2 DEF AsStruct
  <2>4. PICK words : words = <<A!THISBASE, A!pos>>
    OBVIOUS
  <2>5. Len(words) = width(l) /\ width(l) \in Nat /\ words[1] = opcode(l)
    BY <1>2, <2>1, <2>4
  <2>6. Code(l)
    BY <2>2, <2>3, <2>4, <2>5, WordsAreCode
  <2>7. Tables(l)
    <3>1. ~NewLabel(l)
      BY <1>4 DEF NewLabel
    <3> QED BY <1>2, <2>3, <3>1, Zenon DEF Tables
  <2> QED BY <1>1, <1>2, <2>3, <2>6, <2>7, Zenon DEF LineRead
<1> QED BY <1>3, <1>4

LEMMA TextLineRead ==
  ASSUME AsStruct, Array(as.code), AtEnd(as.code), NEW l, A!TextLine(l), pc' # "abort"
  PROVE  LineRead(l)
BY DefineRead, SkipRead, RegistersRead, LoadNumberRead, LoadStringRead, LoadVariableRead,
   LoadStackRead, LoadFunctionRead, JumpRead DEF A!TextLine

-----------------------------------------------------------------------------
(* The arrays                                                              *)

LEMMA WritesAreSequences ==
  ASSUME NEW l, l.size \in Nat
  PROVE  /\ Len(A!writes(l)) \in Nat
         /\ \A i \in 1..Len(A!writes(l)) : Len(A!writes(l)[i]) \in Nat
<1>1. CASE l.size \in {1, 2, 4}
  <2> DEFINE bytes == A!LittleEndian(l.value, l.size)
  <2>1. bytes = [k \in 1..l.size |-> bytes[k]]
    BY DEF A!LittleEndian
  <2>2. A!writes(l) = <<bytes>>
    BY <1>1 DEF A!writes
  <2> HIDE DEF bytes
  <2>3. Len(bytes) = l.size
    BY <2>1, Length
  <2>4. Len(A!writes(l)) = 1 /\ A!writes(l)[1] = bytes
    BY <2>2
  <2> QED BY <2>3, <2>4
<1>2. CASE l.size \notin {1, 2, 4}
  <2> DEFINE n == (l.size \div 10) + (l.size % 10)
             tens(k) == IF k <= l.size \div 10 THEN 10 ELSE 1
             ws == A!writes(l)
  <2>1. n \in Nat
    OBVIOUS
  <2>2. ws = [k \in 1..n |-> A!Zeros(tens(k))]
    BY <1>2 DEF A!writes
  <2>3. \A k \in 1..n : tens(k) \in Nat
    OBVIOUS
  <2> HIDE DEF n, ws, tens
  <2>4. ws = [k \in 1..n |-> ws[k]]
    BY <2>2
  <2>5. Len(ws) = n
    BY <2>1, <2>4, Length
  <2>6. ASSUME NEW i \in 1..n PROVE Len(ws[i]) \in Nat
    <3>1. PICK t \in Nat : t = tens(i)
      BY <2>3
    <3>2. ws[i] = A!Zeros(t)
      BY <2>2, <3>1
    <3>3. A!Zeros(t) = [k \in 1..t |-> A!Zeros(t)[k]]
      BY DEF A!Zeros
    <3>4. Len(A!Zeros(t)) = t
      BY <3>3, Length
    <3> QED BY <3>2, <3>4
  <2> QED BY <2>1, <2>5, <2>6 DEF ws
<1> QED BY <1>1, <1>2

\* A variable goes to the end of the data; the rest of the assembler is as it was.
LEMMA DataRead ==
  ASSUME AsStruct, Array(as.data), AtEnd(as.data), NEW l, l.size \in Nat, A!DataLine(l), pc' # "abort"
  PROVE  /\ AsStruct' /\ Array(as'.data) /\ AtEnd(as'.data)
         /\ as'.code = as.code /\ as'.label_map = as.label_map /\ as'.label_refs = as.label_refs
         /\ as'.function_refs = as.function_refs
         /\ pc' = pc /\ obj' = obj
<1>1. PICK d, fx, ex, vs :
        /\ d = A!ByteArray_writeAll(as.data, A!writes(l))
        /\ as' = [as EXCEPT !.data = d, !.fixups = fx, !.exports = ex, !.variables = vs]
        /\ pc' = pc /\ obj' = obj
  <2>1. ~(l.export /\ A!Exported(l.name))
    BY DEF A!DataLine, A!Abort
  <2>2. /\ as' = [as EXCEPT
                  !.data = A!ByteArray_writeAll(@, A!writes(l)),
                  !.fixups = IF l.rel THEN Append(@, A!Fixup(A!FIXUP_DATADATA, as.data.size)) ELSE @,
                  !.exports = IF l.export THEN A!with_export(A!EXPORT_DATA, l.name, as.data.size) ELSE @,
                  !.variables = Append(@, [name |-> l.name, offset |-> as.data.size])]
        /\ pc' = pc /\ obj' = obj
    BY <2>1, Zenon DEF A!DataLine
  <2> QED BY <2>2
<1>2. /\ AsStruct' /\ as'.data = d /\ as'.code = as.code /\ as'.label_map = as.label_map
      /\ as'.label_refs = as.label_refs /\ as'.function_refs = as.function_refs
  BY <1>1 DEF AsStruct
<1>3. PICK ba, parts : ba = as.data /\ parts = A!writes(l)
  OBVIOUS
<1>4. /\ Array(ba) /\ AtEnd(ba) /\ d = A!ByteArray_writeAll(ba, parts)
      /\ Len(parts) \in Nat /\ \A i \in 1..Len(parts) : Len(parts[i]) \in Nat
  BY <1>1, <1>3, WritesAreSequences
<1>5. Array(d) /\ AtEnd(d)
  BY <1>4, AllWritten
<1> QED BY <1>1, <1>2, <1>5

\* A line that is refused ends the assembler.
LEMMA DataRefused ==
  ASSUME NEW l, A!DataLine(l), pc' = "abort" PROVE UNCHANGED <<as, obj>>
BY DEF A!DataLine, A!Abort

LEMMA TextRefused ==
  ASSUME NEW l, A!TextLine(l), pc' = "abort" PROVE UNCHANGED <<as, obj>>
<1>1. pc = "text"
  BY DEF A!TextLine, A!Define, A!SkipThisbase, A!Registers, A!LoadNumber, A!LoadString,
         A!LoadVariable, A!LoadStack, A!LoadFunction, A!Jump, A!ReadText
<1>2. pc' # pc
  BY <1>1
<1>3. ~A!SkipThisbase(l) /\ ~A!Registers(l) /\ ~A!LoadNumber(l) /\ ~A!LoadFunction(l) /\ ~A!Jump(l)
  BY <1>2 DEF A!SkipThisbase, A!Registers, A!LoadNumber, A!LoadFunction, A!Jump
<1>4. CASE A!Define(l)
  BY <1>2, <1>4 DEF A!Define, A!Abort
<1>5. CASE A!LoadString(l)
  BY <1>2, <1>5, Zenon DEF A!LoadString, A!Abort
<1>6. CASE A!LoadVariable(l)
  BY <1>2, <1>6 DEF A!LoadVariable, A!Abort
<1>7. CASE A!LoadStack(l)
  BY <1>2, <1>7 DEF A!LoadStack, A!Abort
<1> QED BY <1>3, <1>4, <1>5, <1>6, <1>7 DEF A!TextLine

LEMMA ReadLine ==
  ASSUME NEW l
  PROVE  /\ A!DataLine(l) => pc = "data" /\ file' = [file EXCEPT !.data = Append(@, l)]
         /\ A!TextLine(l) => pc = "text" /\ file' = [file EXCEPT !.text = Append(@, l)]
BY DEF A!DataLine, A!TextLine, A!Define, A!SkipThisbase, A!Registers, A!LoadNumber, A!LoadString,
       A!LoadVariable, A!LoadStack, A!LoadFunction, A!Jump, A!ReadText

LEMMA DataArrays ==
  ASSUME ArraysKept, NEW l, l.size \in Nat, A!DataLine(l), UNCHANGED <<listing, ds>>
  PROVE  ArraysKept'
<1>1. pc = "data" /\ file' = [file EXCEPT !.data = Append(@, l)]
  BY ReadLine
<1>2. DOMAIN file' = {"data", "text"} /\ file'.data = Append(file.data, l)
  BY <1>1 DEF ArraysKept, Structs
<1>3. IsSeq(file'.data)
  BY <1>2, Longer DEF ArraysKept, Listed
<1>4. CASE pc' = "abort"
  <2>1. as' = as /\ obj' = obj
    BY <1>4, DataRefused
  <2> QED BY <1>2, <1>3, <1>4, <2>1 DEF ArraysKept, Structs, AsStruct, Arrays, Listed, Places
<1>5. CASE pc' # "abort"
  <2>1. /\ AsStruct' /\ Array(as'.data) /\ AtEnd(as'.data)
        /\ as'.code = as.code /\ as'.label_map = as.label_map /\ as'.label_refs = as.label_refs
        /\ as'.function_refs = as.function_refs
        /\ pc' = pc /\ obj' = obj
    BY <1>5, DataRead DEF ArraysKept, Structs, Arrays
  <2>2. Arrays'
    BY <2>1 DEF ArraysKept, Arrays
  <2> QED BY <1>2, <1>3, <2>1, <2>2 DEF ArraysKept, Structs, Listed
<1> QED BY <1>4, <1>5

LEMMA PlacesGrow ==
  ASSUME NEW refs, Places(refs), NEW r, r.insno \in Nat
  PROVE  Places(Append(refs, r))
<1>1. /\ IsSeq(Append(refs, r)) /\ Len(refs) \in Nat /\ Len(Append(refs, r)) = Len(refs) + 1
      /\ \A i \in 1..Len(refs) : Append(refs, r)[i] = refs[i]
      /\ Append(refs, r)[Len(refs) + 1] = r
  BY Longer DEF Places
<1>2. \A i \in 1..Len(refs) : refs[i].insno \in Nat
  BY DEF Places
<1>3. ASSUME NEW i \in 1..Len(refs) + 1 PROVE Append(refs, r)[i].insno \in Nat
  <2>1. CASE i \in 1..Len(refs)
    BY <1>1, <1>2, <2>1
  <2>2. CASE i = Len(refs) + 1
    BY <1>1, <2>2
  <2> QED BY <1>1, <2>1, <2>2
<1> QED BY <1>1, <1>3 DEF Places

LEMMA PlacesShrink ==
  ASSUME NEW refs, Places(refs), refs # <<>>
  PROVE  Places(Tail(refs)) /\ Head(refs).insno \in Nat
<1>1. /\ IsSeq(Tail(refs)) /\ Len(refs) \in Nat \ {0} /\ Len(Tail(refs)) = Len(refs) - 1
      /\ \A i \in 1..Len(Tail(refs)) : Tail(refs)[i] = refs[i + 1]
      /\ Head(refs) = refs[1]
  BY Shorter DEF Places
<1>2. \A i \in 1..Len(refs) : refs[i].insno \in Nat
  BY DEF Places
<1>3. ASSUME NEW i \in 1..Len(Tail(refs)) PROVE Tail(refs)[i].insno \in Nat
  <2>1. i + 1 \in 1..Len(refs)
    BY <1>1
  <2> QED BY <1>1, <1>2, <2>1
<1>4. 1 \in 1..Len(refs)
  BY <1>1
<1> QED BY <1>1, <1>2, <1>3, <1>4 DEF Places

LEMMA TextArrays ==
  ASSUME ArraysKept, NEW l, A!TextLine(l), UNCHANGED <<listing, ds>>
  PROVE  ArraysKept'
<1>1. pc = "text" /\ file' = [file EXCEPT !.text = Append(@, l)]
  BY ReadLine
<1>2. DOMAIN file' = {"data", "text"} /\ file'.data = file.data
  BY <1>1 DEF ArraysKept, Structs
<1>3. CASE pc' = "abort"
  <2>1. as' = as /\ obj' = obj
    BY <1>3, TextRefused
  <2> QED BY <1>2, <1>3, <2>1 DEF ArraysKept, Structs, AsStruct, Arrays, Listed, Places
<1>4. CASE pc' # "abort"
  <2>1. LineRead(l)
    BY <1>1, <1>4, TextLineRead DEF ArraysKept, Structs, Arrays
  <2>2. /\ AsStruct' /\ as'.data = as.data /\ pc' = pc /\ obj' = obj
        /\ Array(as'.code) /\ AtEnd(as'.code)
    BY <2>1 DEF LineRead, Code
  <2>3. Places(as.label_refs) /\ Places(as.function_refs) /\ Array(as.data) /\ AtEnd(as.data)
        /\ Array(as.code)
    BY DEF ArraysKept, Arrays
  <2>4. RefTo(l).insno \in Nat
    <3>1. A!pos \in Nat
      BY <2>3, SizeIs DEF A!pos
    <3>2. A!argcount(l.op) \in Nat
      BY DEF A!argcount
    <3> QED BY <3>1, <3>2 DEF RefTo, A!Ref
  <2>5. as'.label_refs = as.label_refs \/ as'.label_refs = Append(as.label_refs, RefTo(l))
    BY <2>1 DEF LineRead, Tables
  <2>6. as'.function_refs = as.function_refs \/ as'.function_refs = Append(as.function_refs, RefTo(l))
    BY <2>1 DEF LineRead, Tables
  <2>7. Places(as'.label_refs) /\ Places(as'.function_refs)
    BY <2>3, <2>4, <2>5, <2>6, PlacesGrow
  <2>8. Arrays'
    BY <2>2, <2>3, <2>7 DEF Arrays
  <2> QED BY <1>2, <2>2, <2>8 DEF ArraysKept, Structs, Listed
<1> QED BY <1>3, <1>4

\* Patching a word of the code changes that word.
SameBut(c, ba, p) == \A k \in 1..ba.size : k # p + 1 => c.mem[k] = ba.mem[k]

LEMMA Put ==
  ASSUME Array(as.code), NEW p \in Nat, NEW x, NEW c, c = A!PutWord(p, x)
  PROVE  /\ Array(c)
         /\ p < as.code.size =>
              c.size = as.code.size /\ c.mem[p + 1] = x /\ SameBut(c, as.code, p)
<1>1. PICK ba, b, data : ba = as.code /\ b = A!ByteArray_set_position(ba, p) /\ data = <<x>>
  OBVIOUS
<1>2. Array(ba) /\ c = A!ByteArray_writeMem(b, data)
  BY <1>1 DEF A!PutWord
<1>3. /\ Array(b) /\ b.size = ba.size /\ b.mem = ba.mem
      /\ p <= ba.size => b.pos = p
  <2>1. b = A!ByteArray_set_position(ba, p)
    BY <1>1
  <2> QED BY <1>2, <2>1, Positioned
<1>4. Len(data) = 1 /\ data[1] = x
  BY <1>1
<1>5. Len(data) \in Nat
  BY <1>4
<1>6. /\ Array(c) /\ c.pos = b.pos + Len(data)
      /\ b.size <= c.size /\ (c.size = b.size \/ c.size = c.pos)
      /\ \A k \in 1..b.size : k \notin b.pos + 1..b.pos + Len(data) => c.mem[k] = b.mem[k]
      /\ \A k \in 1..Len(data) : c.mem[b.pos + k] = data[k]
  BY <1>2, <1>3, <1>5, Written
<1>7. ASSUME p < ba.size
      PROVE  c.size = ba.size /\ c.mem[p + 1] = x /\ SameBut(c, ba, p)
  <2>1. ba.size \in Nat
    BY <1>2, SizeIs
  <2>2. b.pos = p
    BY <1>3, <1>7, <2>1
  <2>3. c.size = ba.size
    BY <1>3, <1>4, <1>6, <1>7, <2>1, <2>2
  <2>4. c.mem[p + 1] = x
    <3>1. 1 \in 1..Len(data)
      BY <1>4
    <3> QED BY <1>4, <1>6, <2>2, <3>1
  <2>5. ASSUME NEW k \in 1..ba.size, k # p + 1 PROVE c.mem[k] = ba.mem[k]
    <3>1. k \notin b.pos + 1..b.pos + Len(data)
      BY <1>4, <2>1, <2>2, <2>5
    <3> QED BY <1>3, <1>6, <3>1
  <2> QED BY <2>3, <2>4, <2>5 DEF SameBut
<1> QED BY <1>1, <1>6, <1>7

\* What the patches do.
LEMMA LabelPatched ==
  ASSUME AsStruct, A!PatchLabel, pc' # "abort"
  PROVE  /\ pc = "labels" /\ pc' = pc /\ obj' = obj /\ file' = file
         /\ as.label_refs # <<>>
         /\ Head(as.label_refs).name \in DOMAIN as.label_map
         /\ ~(as.label_map[Head(as.label_refs).name] >= A!pos)
         /\ as'.code = A!PutWord(Head(as.label_refs).insno,
                                 A!relative(as.label_map[Head(as.label_refs).name],
                                            Head(as.label_refs).insno))
         /\ as'.label_refs = Tail(as.label_refs)
         /\ AsStruct' /\ as'.data = as.data /\ as'.label_map = as.label_map
         /\ as'.function_refs = as.function_refs
<1> DEFINE item == Head(as.label_refs)
<1>1. /\ pc = "labels" /\ pc' = pc /\ obj' = obj /\ file' = file
      /\ as.label_refs # <<>> /\ item.name \in DOMAIN as.label_map
      /\ ~(as.label_map[item.name] >= A!pos)
  BY DEF A!PatchLabel, A!Abort
<1>2. PICK c, r : /\ c = A!PutWord(item.insno, A!relative(as.label_map[item.name], item.insno))
                  /\ r = Tail(as.label_refs)
  OBVIOUS
<1>3. as' = [as EXCEPT !.code = c, !.label_refs = r]
  <2>1. as' = [as EXCEPT
                !.code = A!PutWord(item.insno, A!relative(as.label_map[item.name], item.insno)),
                !.label_refs = Tail(@)]
    BY <1>1, Zenon DEF A!PatchLabel
  <2> QED BY <1>2, <2>1
<1>4. /\ AsStruct' /\ as'.code = c /\ as'.label_refs = r /\ as'.data = as.data
      /\ as'.label_map = as.label_map /\ as'.function_refs = as.function_refs
  BY <1>3 DEF AsStruct
<1> QED BY <1>1, <1>2, <1>4

LEMMA FunctionPatched ==
  ASSUME AsStruct, A!PatchFunction
  PROVE  /\ pc = "functions" /\ pc' = pc /\ obj' = obj /\ file' = file
         /\ as.function_refs # <<>>
         /\ \E x : as'.code = A!PutWord(Head(as.function_refs).insno, x)
         /\ as'.function_refs = Tail(as.function_refs)
         /\ AsStruct' /\ as'.data = as.data /\ as'.label_map = as.label_map
         /\ as'.label_refs = as.label_refs
<1> DEFINE item == Head(as.function_refs)
<1>1. /\ pc = "functions" /\ pc' = pc /\ obj' = obj /\ file' = file /\ as.function_refs # <<>>
  BY DEF A!PatchFunction
<1>2. PICK x, fx : as' = [as EXCEPT !.code = A!PutWord(item.insno, x), !.fixups = fx,
                                    !.function_refs = Tail(@)]
  BY DEF A!PatchFunction
<1>3. PICK c, r : c = A!PutWord(item.insno, x) /\ r = Tail(as.function_refs)
  OBVIOUS
<1>4. as' = [as EXCEPT !.code = c, !.fixups = fx, !.function_refs = r]
  BY <1>2, <1>3
<1>5. /\ AsStruct' /\ as'.code = c /\ as'.function_refs = r /\ as'.data = as.data
      /\ as'.label_map = as.label_map /\ as'.label_refs = as.label_refs
  BY <1>4 DEF AsStruct
<1> QED BY <1>1, <1>3, <1>5

LEMMA ImportsGenerated ==
  ASSUME AsStruct, A!generate_import_table, pc' # "abort"
  PROVE  /\ pc = "labels" /\ as.label_refs = <<>> /\ pc' = "functions" /\ obj' = obj /\ file' = file
         /\ AsStruct' /\ as'.code = as.code /\ as'.data = as.data /\ as'.label_map = as.label_map
         /\ as'.label_refs = as.label_refs /\ as'.function_refs = as.function_refs
<1>1. PICK im : /\ pc = "labels" /\ as.label_refs = <<>> /\ pc' = "functions" /\ obj' = obj
                /\ file' = file /\ as' = [as EXCEPT !.imports = im]
  BY DEF A!generate_import_table, A!Abort
<1> QED BY <1>1 DEF AsStruct

LEMMA ObjectWritten ==
  ASSUME A!write_object, pc' # "abort"
  PROVE  /\ pc = "functions" /\ pc' = "done" /\ as' = as /\ file' = file
         /\ obj'.data = A!Whole(as.data) /\ obj'.code = A!Whole(as.code)
<1>1. pc = "functions" /\ pc' = "done" /\ as' = as /\ file' = file
  BY DEF A!write_object, A!Abort
<1>2. PICK d, c, st, fx, im, ex :
        /\ d = A!Whole(as.data) /\ c = A!Whole(as.code)
        /\ obj' = [data |-> d, code |-> c, strings |-> st, fixups |-> fx, imports |-> im,
                   exports |-> ex]
  BY <1>1, Zenon DEF A!write_object, A!Abort
<1> QED BY <1>1, <1>2

LEMMA FinishRefused ==
  ASSUME A!Finish, pc' = "abort"
  PROVE  as' = as /\ obj' = obj /\ file' = file
<1>1. CASE A!EndData
  BY <1>1 DEF A!EndData
<1>2. CASE A!EndText
  BY <1>2 DEF A!EndText
<1>3. CASE A!PatchLabel
  BY <1>3, Zenon DEF A!PatchLabel, A!Abort
<1>4. CASE A!generate_import_table
  BY <1>4 DEF A!generate_import_table, A!Abort
<1>5. CASE A!PatchFunction
  BY <1>5 DEF A!PatchFunction
<1>6. CASE A!write_object
  BY <1>6 DEF A!write_object, A!Abort
<1> QED BY <1>1, <1>2, <1>3, <1>4, <1>5, <1>6 DEF A!Finish

\* All of an array: what it holds.
LEMMA WholeIs ==
  ASSUME NEW ba, Array(ba) PROVE A!Whole(ba) = ba.mem /\ Len(A!Whole(ba)) \in Nat
<1>1. ba.size \in Nat /\ ba.mem = [k \in 1..ba.size |-> ba.mem[k]]
  BY DEF Array
<1>2. ba.mem \in Seq({ba.mem[k] : k \in 1..ba.size}) /\ Len(ba.mem) = ba.size
  BY <1>1, Length
<1>3. SubSeq(ba.mem, 1, Len(ba.mem)) = ba.mem
  BY <1>2, SubSeqFull
<1>4. A!Whole(ba) = SubSeq(ba.mem, 1, ba.size)
  BY <1>1 DEF A!Whole, A!ByteArray_get_mem
<1> QED BY <1>1, <1>2, <1>3, <1>4

LEMMA FinishArrays ==
  ASSUME ArraysKept, A!Finish, UNCHANGED <<listing, ds>>
  PROVE  ArraysKept'
<1>1. /\ AsStruct /\ Array(as.data) /\ AtEnd(as.data) /\ Array(as.code)
      /\ Places(as.label_refs) /\ Places(as.function_refs)
      /\ (pc \in {"data", "text"} => AtEnd(as.code))
  BY DEF ArraysKept, Structs, Arrays
<1>2. CASE pc' = "abort"
  <2>1. as' = as /\ obj' = obj /\ file' = file
    BY <1>2, FinishRefused
  <2> QED BY <1>2, <2>1 DEF ArraysKept, Structs, AsStruct, Arrays, Listed, Places
<1>3. CASE A!EndData \/ A!EndText
  <2>1. as' = as /\ obj' = obj /\ file' = file /\ pc \in {"data", "text"}
    BY <1>3 DEF A!EndData, A!EndText
  <2> QED BY <1>1, <2>1 DEF ArraysKept, Structs, AsStruct, Arrays, Listed, Places
<1>4. CASE A!PatchLabel /\ pc' # "abort"
  <2>1. PICK p, x : p = Head(as.label_refs).insno /\ as'.code = A!PutWord(p, x)
    BY <1>1, <1>4, LabelPatched
  <2>2. /\ pc = "labels" /\ pc' = pc /\ obj' = obj /\ file' = file /\ as.label_refs # <<>>
        /\ as'.label_refs = Tail(as.label_refs) /\ AsStruct' /\ as'.data = as.data
        /\ as'.function_refs = as.function_refs
    BY <1>1, <1>4, LabelPatched
  <2>3. Places(as'.label_refs) /\ p \in Nat
    BY <1>1, <2>1, <2>2, PlacesShrink
  <2>4. Array(as'.code)
    BY <1>1, <2>1, <2>3, Put
  <2>5. Arrays'
    BY <1>1, <2>2, <2>3, <2>4 DEF Arrays
  <2> QED BY <2>2, <2>5 DEF ArraysKept, Structs, Listed
<1>5. CASE A!generate_import_table /\ pc' # "abort"
  <2>1. /\ pc' = "functions" /\ obj' = obj /\ file' = file
        /\ AsStruct' /\ as'.code = as.code /\ as'.data = as.data
        /\ as'.label_refs = as.label_refs /\ as'.function_refs = as.function_refs
    BY <1>1, <1>5, ImportsGenerated
  <2>2. Arrays'
    BY <1>1, <2>1 DEF Arrays
  <2> QED BY <2>1, <2>2 DEF ArraysKept, Structs, Listed
<1>6. CASE A!PatchFunction
  <2>1. PICK p, x : p = Head(as.function_refs).insno /\ as'.code = A!PutWord(p, x)
    BY <1>1, <1>6, FunctionPatched
  <2>2. /\ pc = "functions" /\ pc' = pc /\ obj' = obj /\ file' = file /\ as.function_refs # <<>>
        /\ as'.function_refs = Tail(as.function_refs) /\ AsStruct' /\ as'.data = as.data
        /\ as'.label_refs = as.label_refs
    BY <1>1, <1>6, FunctionPatched
  <2>3. Places(as'.function_refs) /\ p \in Nat
    BY <1>1, <2>1, <2>2, PlacesShrink
  <2>4. Array(as'.code)
    BY <1>1, <2>1, <2>3, Put
  <2>5. Arrays'
    BY <1>1, <2>2, <2>3, <2>4 DEF Arrays
  <2> QED BY <2>2, <2>5 DEF ArraysKept, Structs, Listed
<1>7. CASE A!write_object /\ pc' # "abort"
  <2>1. pc' = "done" /\ as' = as /\ file' = file /\ obj'.data = A!Whole(as.data)
    BY <1>7, ObjectWritten
  <2>2. Len(obj'.data) \in Nat
    BY <1>1, <2>1, WholeIs
  <2>3. Arrays'
    BY <1>1, <2>1 DEF Arrays
  <2> QED BY <2>1, <2>2, <2>3 DEF ArraysKept, Structs, AsStruct, Listed
<1> QED BY <1>2, <1>3, <1>4, <1>5, <1>6, <1>7 DEF A!Finish

-----------------------------------------------------------------------------
(* The listing                                                             *)

\* A run of zeros ends behind its first byte.
LEMMA RunEnds ==
  ASSUME NEW i \in Nat, D!size \in Nat, i < D!size
  PROVE  D!zeros_end(i) \in i + 1..D!size
<1> DEFINE ends == {j \in i + 1..D!size : j = D!size \/ D!stops_run(j)}
<1>1. ends \in SUBSET Nat /\ D!size \in ends
  OBVIOUS
<1>2. \E j \in ends : \A k \in ends : j <= k
  <2> HIDE DEF ends
  <2> QED BY <1>1, Least
<1>3. D!Min(ends) \in ends
  <2> HIDE DEF ends
  <2> QED BY <1>2 DEF D!Min
<1> QED BY <1>3 DEF D!zeros_end, D!run_end

\* The size that is guessed for a variable is 0 or a size.
LEMMA GuessedIs ==
  ASSUME NEW i \in Nat
  PROVE  D!guessed(i) \in Nat
<1>1. D!varsize(i) \in Nat
  <2>1. \A o : D!get_varsize_from_instr(o) \in Nat
    BY DEF D!get_varsize_from_instr
  <2>2. D!used_sizes(i) \subseteq Nat
    BY <2>1 DEF D!used_sizes
  <2>3. D!used_sizes(i) # {} => (CHOOSE s \in D!used_sizes(i) : TRUE) \in Nat
    BY <2>2
  <2>4. StringSize \in Nat
    BY LinesAssumption
  <2> QED BY <2>3, <2>4 DEF D!varsize
<1>2. D!sized(i) \in Nat
  BY <1>1 DEF D!sized
<1> QED BY <1>2 DEF D!guessed

LEMMA VariableDumped ==
  ASSUME ArraysKept, D!DumpVariable
  PROVE  /\ obj' = obj
         /\ \/ listing' = listing /\ ds' = [ds EXCEPT !.dpc = "abort"]
            \/ \E v : \E n \in Nat :
                 /\ v.size \in Nat /\ listing' = [listing EXCEPT !.data = Append(@, v)]
                 /\ ds' = [ds EXCEPT !.offset = n]
<1> DEFINE i == ds.offset
           run == D!guessed(i) = 0 /\ D!numrefs(i) = 0 /\ D!byte(i) = 0
           n == IF run THEN D!zeros_end(i) - i ELSE IF D!guessed(i) = 0 THEN 1 ELSE D!guessed(i)
           x == IF D!is_str(i) /\ D!guessed(i) = StringSize THEN 0
                ELSE IF D!guessed(i) = 4 THEN D!ReadInt(i) ELSE D!byte(i)
           v == D!Variable(D!exported_at(i) # {}, n, D!get_varname(i), D!has_datadata_fixup(i), x)
<1>1. i \in Nat /\ D!size \in Nat /\ i < D!size
  BY DEF ArraysKept, Listed, D!DumpVariable, D!size
<1>2. n \in Nat
  <2>1. D!zeros_end(i) \in i + 1..D!size /\ D!guessed(i) \in Nat
    <3> HIDE DEF i
    <3>1. D!zeros_end(i) \in i + 1..D!size
      BY <1>1, RunEnds
    <3>2. D!guessed(i) \in Nat
      BY <1>1, GuessedIs
    <3> QED BY <3>1, <3>2
  <2> HIDE DEF i, run
  <2>2. D!zeros_end(i) - i \in Nat
    BY <1>1, <2>1
  <2> QED BY <2>1, <2>2
<1>3. \/ D!CrashDisassembler
      \/ listing' = [listing EXCEPT !.data = Append(@, v)] /\ ds' = [ds EXCEPT !.offset = i + n]
         /\ obj' = obj
  BY Zenon DEF D!DumpVariable
<1>4. v.size = n
  BY DEF D!Variable
<1> HIDE DEF n, v, i
<1>5. CASE D!CrashDisassembler
  BY <1>5 DEF D!CrashDisassembler
<1>6. CASE listing' = [listing EXCEPT !.data = Append(@, v)] /\ ds' = [ds EXCEPT !.offset = i + n]
           /\ obj' = obj
  <2>1. i + n \in Nat
    BY <1>1, <1>2
  <2> QED BY <1>2, <1>4, <1>6, <2>1
<1> QED BY <1>3, <1>5, <1>6

LEMMA ListingArrays ==
  ASSUME ArraysKept, D!DisNext, UNCHANGED <<as, pc, file>>
  PROVE  ArraysKept' /\ obj' = obj
<1>1. AsStruct' /\ Arrays' /\ DOMAIN file' = {"data", "text"} /\ IsSeq(file'.data)
  BY DEF ArraysKept, Structs, AsStruct, Arrays, Listed, Places
<1>2. /\ Len(obj.data) \in Nat /\ ds.offset \in Nat /\ IsSeq(listing.data)
      /\ \A i \in 1..Len(listing.data) : listing.data[i].size \in Nat
      /\ DOMAIN listing = {"data", "text"}
      /\ DOMAIN ds = {"dpc", "offset", "currInstr", "currExp", "currFixup", "currLbl", "lbl"}
  BY DEF ArraysKept, Structs, Listed
<1>3. SUFFICES /\ obj' = obj /\ ds'.offset \in Nat /\ IsSeq(listing'.data)
               /\ \A i \in 1..Len(listing'.data) : listing'.data[i].size \in Nat
               /\ DOMAIN listing' = {"data", "text"} /\ DOMAIN ds' = DOMAIN ds
  BY <1>1, <1>2 DEF ArraysKept, Structs, Listed
<1>4. CASE D!DumpVariable
  <2>1. CASE listing' = listing /\ ds' = [ds EXCEPT !.dpc = "abort"]
    <3>1. obj' = obj
      BY <1>4, VariableDumped
    <3>2. DOMAIN ds' = DOMAIN ds /\ ds'.offset = ds.offset
      BY <1>2, <2>1
    <3> QED BY <1>2, <2>1, <3>1, <3>2
  <2>2. CASE \E v : \E n \in Nat :
               /\ v.size \in Nat /\ listing' = [listing EXCEPT !.data = Append(@, v)]
               /\ ds' = [ds EXCEPT !.offset = n]
    <3>1. PICK v : \E n \in Nat :
               /\ v.size \in Nat /\ listing' = [listing EXCEPT !.data = Append(@, v)]
               /\ ds' = [ds EXCEPT !.offset = n]
      BY <2>2
    <3>2. PICK n \in Nat :
               /\ v.size \in Nat /\ listing' = [listing EXCEPT !.data = Append(@, v)]
               /\ ds' = [ds EXCEPT !.offset = n]
      BY <3>1
    <3>3. obj' = obj
      BY <1>4, VariableDumped
    <3>4. DOMAIN ds' = DOMAIN ds /\ ds'.offset = n
      BY <1>2, <3>2
    <3>5. PICK old : old = listing.data
      OBVIOUS
    <3>6. listing'.data = Append(old, v) /\ DOMAIN listing' = {"data", "text"}
      BY <1>2, <3>2, <3>5
    <3>7. /\ IsSeq(Append(old, v)) /\ Len(old) \in Nat /\ Len(Append(old, v)) = Len(old) + 1
          /\ \A i \in 1..Len(old) : Append(old, v)[i] = old[i]
          /\ Append(old, v)[Len(old) + 1] = v
      BY <1>2, <3>5, Longer
    <3>8. ASSUME NEW i \in 1..Len(old) + 1 PROVE Append(old, v)[i].size \in Nat
      <4>1. CASE i \in 1..Len(old)
        BY <1>2, <3>5, <3>7, <4>1
      <4>2. CASE i = Len(old) + 1
        BY <3>2, <3>7, <4>2
      <4> QED BY <3>7, <4>1, <4>2
    <3> QED BY <3>3, <3>4, <3>6, <3>7, <3>8
  <2> QED BY <1>4, <2>1, <2>2, VariableDumped
<1>5. CASE D!get_labels
  <2>1. PICK p, lbl : /\ listing' = listing /\ obj' = obj
                      /\ \/ ds' = [ds EXCEPT !.dpc = p]
                         \/ ds' = [ds EXCEPT !.dpc = p, !.lbl = lbl]
    BY <1>5, Zenon DEF D!get_labels, D!CrashDisassembler
  <2>2. DOMAIN ds' = DOMAIN ds /\ ds'.offset = ds.offset
    BY <1>2, <2>1
  <2> QED BY <1>2, <2>1, <2>2
<1>6. CASE D!DisassembleInstruction
  <2>1. PICK t, a, b, c, d :
          /\ listing' = [listing EXCEPT !.text = t] /\ obj' = obj
          /\ ds' = [ds EXCEPT !.currInstr = a, !.currExp = b, !.currLbl = c, !.currFixup = d]
    BY <1>6, ZenonT(60) DEF D!DisassembleInstruction
  <2>2. DOMAIN ds' = DOMAIN ds /\ ds'.offset = ds.offset
    BY <1>2, <2>1
  <2>3. DOMAIN listing' = {"data", "text"} /\ listing'.data = listing.data
    BY <1>2, <2>1
  <2> QED BY <1>2, <2>1, <2>2, <2>3
<1>7. CASE D!FinishListing
  <2>1. listing' = listing /\ obj' = obj /\ ds' = [ds EXCEPT !.dpc = "done"]
    BY <1>7 DEF D!FinishListing
  <2>2. DOMAIN ds' = DOMAIN ds /\ ds'.offset = ds.offset
    BY <1>2, <2>1
  <2> QED BY <1>2, <2>1, <2>2
<1> QED BY <1>4, <1>5, <1>6, <1>7 DEF D!DisNext

\* What agssemble begins with.
LEMMA EmptyArrays ==
  /\ Array(A!Empty.data) /\ AtEnd(A!Empty.data) /\ Array(A!Empty.code) /\ AtEnd(A!Empty.code)
  /\ A!Empty.label_map = <<>> /\ A!Empty.label_refs = <<>> /\ A!Empty.function_refs = <<>>
  /\ Places(A!Empty.label_refs) /\ Places(A!Empty.function_refs)
  /\ A!Empty.code.size = 0
  /\ DOMAIN A!Empty = {"data", "code", "label_map", "label_refs", "function_refs", "exports",
               "fixups", "strings", "string_section_length", "variables", "imports"}
<1>1. PICK e : e = A!ByteArray_open_mem
  OBVIOUS
<1>2. e = [mem |-> <<>>, capa |-> 0, size |-> 0, pos |-> 0, inside |-> TRUE]
  BY <1>1 DEF A!ByteArray_open_mem
<1>3. e.mem = [k \in 1..0 |-> e.mem[k]]
  BY <1>2
<1>4. Array(e) /\ AtEnd(e) /\ e.size = 0
  BY <1>2, <1>3 DEF Array, AtEnd
<1>5. Places(<<>>)
  BY EmptyList DEF Places
<1>6. A!Empty.data = e /\ A!Empty.code = e
  BY <1>1 DEF A!Empty
<1>7. A!Empty.label_map = <<>> /\ A!Empty.label_refs = <<>> /\ A!Empty.function_refs = <<>>
  BY DEF A!Empty
<1>8. DOMAIN A!Empty = {"data", "code", "label_map", "label_refs", "function_refs", "exports",
               "fixups", "strings", "string_section_length", "variables", "imports"}
  BY DEF A!Empty
<1> QED BY <1>4, <1>5, <1>6, <1>7, <1>8

LEMMA ArraysStart == Init => ArraysKept
<1> SUFFICES ASSUME Init PROVE ArraysKept
  OBVIOUS
<1>1. /\ as = A!Empty /\ file = [data |-> <<>>, text |-> <<>>] /\ obj = A!EmptyObject
      /\ listing = [data |-> <<>>, text |-> <<>>]
      /\ ds = [dpc |-> "idle", offset |-> 0, currInstr |-> 0,
               currExp |-> 1, currFixup |-> 1, currLbl |-> 1, lbl |-> <<>>]
  BY DEF Init, A!AsmInit, D!DisInit
<1>2. Structs
  BY <1>1, EmptyArrays DEF Structs, AsStruct
<1>3. Arrays
  BY <1>1, EmptyArrays DEF Arrays
<1>4. Listed
  <2>1. Len(obj.data) \in Nat
    BY <1>1 DEF A!EmptyObject
  <2>2. file.data = <<>> /\ listing.data = <<>> /\ ds.offset = 0
    BY <1>1
  <2> QED BY <2>1, <2>2, EmptyList DEF Listed
<1> QED BY <1>2, <1>3, <1>4 DEF ArraysKept

LEMMA ArraysStep == ArraysKept /\ [Next]_vars => ArraysKept'
<1> SUFFICES ASSUME ArraysKept, [Next]_vars PROVE ArraysKept'
  OBVIOUS
<1>1. CASE AssembleSource
  <2>1. CASE \E l \in DataLines : A!DataLine(l)
    <3>1. PICK l \in DataLines : A!DataLine(l)
      BY <2>1
    <3>2. l.size \in Nat
      BY LinesAssumption
    <3> QED BY <1>1, <3>1, <3>2, DataArrays DEF AssembleSource
  <2>2. CASE \E l \in TextLines : A!TextLine(l)
    BY <1>1, <2>2, TextArrays DEF AssembleSource
  <2> QED BY <1>1, <2>1, <2>2 DEF AssembleSource
<1>2. CASE AssembleListing
  <2>1. CASE Len(file.data) < Len(listing.data) /\ A!DataLine(listing.data[Len(file.data) + 1])
    <3>1. IsSeq(file.data) /\ IsSeq(listing.data)
          /\ \A i \in 1..Len(listing.data) : listing.data[i].size \in Nat
      BY DEF ArraysKept, Listed
    <3>2. PICK m, n \in Nat : m = Len(file.data) /\ n = Len(listing.data)
      BY <3>1, LenProperties DEF IsSeq
    <3>3. m + 1 \in 1..n
      BY <2>1, <3>2
    <3>4. listing.data[m + 1].size \in Nat
      BY <3>1, <3>2, <3>3
    <3> QED BY <1>2, <2>1, <3>2, <3>4, DataArrays DEF AssembleListing
  <2>2. CASE A!TextLine(listing.text[Len(file.text) + 1])
    BY <1>2, <2>2, TextArrays DEF AssembleListing
  <2> QED BY <1>2, <2>1, <2>2 DEF AssembleListing
<1>3. CASE Finish
  BY <1>3, FinishArrays DEF Finish
<1>4. CASE OpenObject
  <2>1. /\ listing' = [data |-> <<>>, text |-> <<>>] /\ obj' = obj
        /\ ds' = [dpc |-> "data", offset |-> 0, currInstr |-> 0,
                  currExp |-> 1, currFixup |-> 1, currLbl |-> 1, lbl |-> <<>>]
        /\ as' = as /\ pc' = pc /\ file' = file
    BY <1>4 DEF OpenObject, D!Start
  <2>2. Structs' /\ Arrays'
    BY <2>1 DEF ArraysKept, Structs, AsStruct, Arrays, Places
  <2>3. ds'.offset = 0 /\ listing'.data = <<>>
    BY <2>1
  <2>4. Listed'
    BY <2>1, <2>3, EmptyList DEF ArraysKept, Listed
  <2> QED BY <2>2, <2>4 DEF ArraysKept
<1>5. CASE Disassemble
  BY <1>5, ListingArrays DEF Disassemble
<1>6. CASE OpenListing
  <2>1. /\ as' = A!Empty /\ file' = [data |-> <<>>, text |-> <<>>] /\ obj' = A!EmptyObject
        /\ listing' = listing /\ ds' = ds
    BY <1>6 DEF OpenListing, NoText
  <2>2. Structs' /\ Arrays'
    BY <2>1, EmptyArrays DEF ArraysKept, Structs, AsStruct, Arrays
  <2>3. Len(obj'.data) \in Nat
    BY <2>1 DEF A!EmptyObject
  <2>4. file'.data = <<>>
    BY <2>1
  <2>5. Listed'
    BY <2>1, <2>3, <2>4, EmptyList DEF ArraysKept, Listed
  <2> QED BY <2>2, <2>5 DEF ArraysKept
<1>7. CASE UNCHANGED vars
  BY <1>7 DEF vars, ArraysKept, Structs, AsStruct, Arrays, Listed, Places
<1> QED BY <1>1, <1>2, <1>3, <1>4, <1>5, <1>6, <1>7 DEF Next

\* Neither the code nor the data of an object is written past what is allocated,
\* and all of it is handed out (ByteArray_writeMem, mem_write).
THEOREM NothingOutside == Spec => []BuffersInside
<1>1. ArraysKept => BuffersInside
  BY ArrayInside DEF ArraysKept, Arrays, BuffersInside
<1> QED BY <1>1, ArraysStart, ArraysStep, PTL DEF Spec

-----------------------------------------------------------------------------
(* The layout                                                              *)

LEMMA Sizes ==
  ASSUME NEW l
  PROVE  /\ width(l) \in Nat /\ A!argcount(l.op) \in {0, 1, 2}
         /\ l.op \in {A!JMP, A!LITTOREG} => width(l) = 1 + A!argcount(l.op)
<1>1. A!argcount(l.op) \in {0, 1, 2}
  BY DEF A!argcount
<1>2. l.op \in {A!JMP, A!LITTOREG} => l.op # A!DEFINITION /\ l.op # A!THISBASE
  BY Codes
<1> QED BY <1>1, <1>2 DEF width

\* The operands of definitions.
LEMMA NameDefined ==
  ASSUME NEW l \in TextLines, l.op = A!DEFINITION
  PROVE  Name(l) = A!NameOf(l.args[1])
<1>1. Len(l.args) = 1
  BY LinesAssumption
<1> QED BY <1>1 DEF Name, Last

LEMMA LastSame == \A s : A!Last(s) = Last(s)
BY DEF A!Last, Last

\* A text with one more line.
LEMMA Extended ==
  ASSUME NEW X, NEW T \in Seq(X), NEW l \in X
  PROVE  /\ Append(T, l) \in Seq(X) /\ Len(T) \in Nat /\ Len(Append(T, l)) = Len(T) + 1
         /\ \A k \in 1..Len(T) : Append(T, l)[k] = T[k]
         /\ Append(T, l)[Len(T) + 1] = l
         /\ \A k \in 1..Len(T) + 1 : k \in 1..Len(T) \/ k = Len(T) + 1
<1>1. Len(T) \in Nat
  BY LenProperties
<1> QED BY <1>1, AppendProperties

LEMMA LaidOutAppend ==
  ASSUME NEW S, NEW T \in Seq(TextLines), NEW P, NEW M, LaidOut(S, T, P, M),
         NEW l \in TextLines, NEW N, \A k \in 1..P : N[k] = M[k],
         width(l) > 0 => N[P + 1] = opcode(l)
  PROVE  LaidOut(Append(S, P), Append(T, l), P + width(l), N)
<1> DEFINE n == Len(T)
           S2 == Append(S, P)
           T2 == Append(T, l)
           w(k) == width(T[k])
           Q == P + width(l)
<1>1. /\ P \in Nat /\ S \in Seq(Nat) /\ Len(S) = n /\ n \in Nat
      /\ width(l) \in Nat /\ \A k \in 1..n : w(k) \in Nat
  BY LenProperties, Sizes DEF LaidOut
<1>2. /\ Begin(S, P, 1) = 0
      /\ \A k \in 1..n : Begin(S, P, k + 1) = S[k] + w(k) /\ S[k] + w(k) <= P
      /\ \A j, k \in 1..n : j < k => S[j] + w(j) <= S[k]
      /\ \A k \in 1..n : w(k) > 0 => M[S[k] + 1] = opcode(T[k])
  BY DEF LaidOut, Behind
<1>3. /\ T2 \in Seq(TextLines) /\ Len(T2) = n + 1
      /\ \A k \in 1..n : T2[k] = T[k]
      /\ T2[n + 1] = l
  BY Extended
<1>4. /\ S2 \in Seq(Nat) /\ Len(S2) = n + 1
      /\ \A k \in 1..n : S2[k] = S[k]
      /\ S2[n + 1] = P
  <2>1. /\ S2 \in Seq(Nat) /\ Len(S2) = Len(S) + 1
        /\ \A k \in 1..Len(S) : S2[k] = S[k]
        /\ S2[Len(S) + 1] = P
    BY <1>1, Extended
  <2> QED BY <1>1, <2>1
<1>5. \A k \in 1..n : S[k] \in Nat
  BY <1>1, ElementOfSeq
<1> HIDE DEF n, S2, T2
<1>6. \A k \in 1..n : S2[k] = S[k] /\ width(T2[k]) = w(k)
  BY <1>3, <1>4
<1>7. S2[n + 1] = P /\ width(T2[n + 1]) = width(l)
  BY <1>3, <1>4
<1>8. \A k \in 1..n + 1 : k \in 1..n \/ k = n + 1
  BY <1>1
<1>9. Q \in Nat /\ P <= Q
  BY <1>1
<1> HIDE DEF w, Q
<1>10. Begin(S2, Q, 1) = 0
  <2>1. CASE n = 0
    BY <1>1, <1>2, <1>4, <2>1 DEF Begin
  <2>2. CASE n # 0
    <3>1. 1 \in 1..n /\ 1 <= Len(S) /\ 1 <= Len(S2)
      BY <1>1, <1>4, <2>2
    <3> QED BY <1>2, <1>4, <3>1 DEF Begin
  <2> QED BY <2>1, <2>2
<1>11. ASSUME NEW k \in 1..n + 1
       PROVE  Begin(S2, Q, k + 1) = S2[k] + width(T2[k]) /\ S2[k] + width(T2[k]) <= Q
  <2>1. CASE k \in 1..n
    <3>1. k + 1 <= Len(S2) /\ k + 1 \in 1..n + 1
      BY <1>1, <1>4, <2>1
    <3>2. Begin(S2, Q, k + 1) = S2[k + 1]
      BY <3>1 DEF Begin
    <3>3. S2[k + 1] = Begin(S, P, k + 1)
      <4>1. CASE k + 1 \in 1..n
        BY <1>1, <1>4, <4>1 DEF Begin
      <4>2. CASE k + 1 = n + 1
        <5>1. ~(k + 1 <= Len(S))
          BY <1>1, <4>2
        <5> QED BY <1>7, <4>2, <5>1 DEF Begin
      <4> QED BY <1>8, <3>1, <4>1, <4>2
    <3>4. S[k] + w(k) <= P /\ Begin(S, P, k + 1) = S[k] + w(k)
      BY <1>2, <2>1
    <3>5. S[k] \in Nat /\ w(k) \in Nat
      BY <1>1, <1>5, <2>1 DEF w
    <3>6. S[k] + w(k) <= Q
      BY <1>1, <1>9, <3>4, <3>5, SMTT(30)
    <3> QED BY <1>6, <2>1, <3>2, <3>3, <3>4, <3>6
  <2>2. CASE k = n + 1
    <3>1. ~(k + 1 <= Len(S2))
      BY <1>1, <1>4, <2>2
    <3>2. Begin(S2, Q, k + 1) = Q
      BY <3>1 DEF Begin
    <3>3. S2[k] + width(T2[k]) = Q
      BY <1>7, <2>2 DEF Q
    <3> QED BY <1>9, <3>2, <3>3
  <2> QED BY <1>8, <2>1, <2>2
<1>12. ASSUME NEW j \in 1..n + 1, NEW k \in 1..n + 1, j < k
       PROVE  S2[j] + width(T2[j]) <= S2[k]
  <2>1. j \in 1..n
    BY <1>1, <1>12
  <2>2. CASE k \in 1..n
    <3>1. S[j] + w(j) <= S[k]
      BY <1>2, <1>12, <2>1, <2>2
    <3> QED BY <1>6, <2>1, <2>2, <3>1
  <2>3. CASE k = n + 1
    <3>1. S[j] + w(j) <= P
      BY <1>2, <2>1
    <3> QED BY <1>6, <1>7, <2>1, <2>3, <3>1
  <2> QED BY <1>8, <2>2, <2>3
<1>13. ASSUME NEW k \in 1..n + 1, width(T2[k]) > 0
       PROVE  N[S2[k] + 1] = opcode(T2[k])
  <2>1. CASE k \in 1..n
    <3>1. w(k) > 0 /\ w(k) \in Nat /\ S[k] \in Nat /\ S[k] + w(k) <= P
      BY <1>1, <1>2, <1>5, <1>6, <1>13, <2>1 DEF w
    <3>2. S[k] + 1 \in 1..P
      BY <1>1, <3>1, SMTT(30)
    <3>3. N[S[k] + 1] = M[S[k] + 1] /\ M[S[k] + 1] = opcode(T[k])
      BY <1>2, <2>1, <3>1, <3>2
    <3> QED BY <1>3, <1>4, <2>1, <3>3
  <2>2. CASE k = n + 1
    BY <1>3, <1>7, <1>13, <2>2
  <2> QED BY <1>8, <2>1, <2>2
<1>14. /\ \A k \in 1..Len(T2) : Begin(S2, Q, k + 1) = Behind(S2, T2, k) /\ Behind(S2, T2, k) <= Q
       /\ \A j, k \in 1..Len(T2) : j < k => Behind(S2, T2, j) <= S2[k]
       /\ \A k \in 1..Len(T2) : width(T2[k]) > 0 => N[S2[k] + 1] = opcode(T2[k])
  BY <1>3, <1>11, <1>12, <1>13 DEF Behind
<1>15. Len(S2) = Len(T2)
  BY <1>3, <1>4
<1> QED BY <1>4, <1>9, <1>10, <1>14, <1>15 DEF LaidOut, S2, T2, Q

\* Lines are as they were when one more is read.
LEMMA PlacesStay ==
  ASSUME NEW S \in Seq(Nat), NEW T \in Seq(TextLines), Len(S) = Len(T), NEW P \in Nat,
         NEW l \in TextLines, NEW S2, S2 = Append(S, P), NEW T2, T2 = Append(T, l)
  PROVE  /\ Len(T) \in Nat /\ Len(T2) = Len(T) + 1 /\ T2[Len(T) + 1] = l /\ S2[Len(T) + 1] = P
         /\ \A k \in 1..Len(T) : k \in 1..Len(T2) /\ T2[k] = T[k] /\ S2[k] = S[k]
                                 /\ Place(S2, T2, k) = Place(S, T, k)
         /\ Len(T) + 1 \in 1..Len(T2)
         /\ Place(S2, T2, Len(T) + 1) = P + A!argcount(l.op)
         /\ \A k \in 1..Len(T2) : k \in 1..Len(T) \/ k = Len(T) + 1
<1>1. /\ Len(T) \in Nat /\ Len(T2) = Len(T) + 1
      /\ \A k \in 1..Len(T) : T2[k] = T[k]
      /\ T2[Len(T) + 1] = l
      /\ \A k \in 1..Len(T) + 1 : k \in 1..Len(T) \/ k = Len(T) + 1
  BY Extended
<1>2. /\ \A k \in 1..Len(S) : S2[k] = S[k]
      /\ S2[Len(S) + 1] = P
  BY Extended
<1>3. \A k \in 1..Len(T) : k \in 1..Len(T2) /\ T2[k] = T[k] /\ S2[k] = S[k]
  BY <1>1, <1>2
<1>4. Len(T) + 1 \in 1..Len(T2) /\ S2[Len(T) + 1] = P
  BY <1>1, <1>2
<1> QED BY <1>1, <1>3, <1>4 DEF Place

\* The label of a definition, when it is new.
NewOf(l, L) ==
  /\ l.op = A!DEFINITION /\ A!IsLabel(A!NameOf(l.args[1])) /\ A!NameOf(l.args[1]) \notin DOMAIN L
WithLabel(l, L, P) ==
  IF NewOf(l, L)
    THEN [k \in DOMAIN L \cup {A!NameOf(l.args[1])} |->
            IF k = A!NameOf(l.args[1]) THEN P ELSE L[k]]
    ELSE L

LEMMA LabelledAppend ==
  ASSUME NEW S \in Seq(Nat), NEW T \in Seq(TextLines), Len(S) = Len(T), NEW P \in Nat,
         NEW l \in TextLines, NEW L, Labelled(S, T, L),
         NEW L2, L2 = WithLabel(l, L, P)
  PROVE  /\ Labelled(Append(S, P), Append(T, l), L2)
         /\ \A name \in DOMAIN L : name \in DOMAIN L2 /\ L2[name] = L[name]
<1> DEFINE S2 == Append(S, P)
           T2 == Append(T, l)
           n == Len(T)
           new == A!NameOf(l.args[1])
<1>1. /\ n \in Nat /\ Len(T2) = n + 1 /\ T2[n + 1] = l /\ S2[n + 1] = P
      /\ \A k \in 1..n : k \in 1..Len(T2) /\ T2[k] = T[k] /\ S2[k] = S[k]
      /\ n + 1 \in 1..Len(T2)
      /\ \A k \in 1..Len(T2) : k \in 1..n \/ k = n + 1
  BY PlacesStay
<1>2. l.op = A!DEFINITION => Name(l) = new
  BY NameDefined
<1>3. /\ \A k \in 1..n : T[k].op = A!DEFINITION /\ A!IsLabel(Name(T[k])) => Name(T[k]) \in DOMAIN L
      /\ \A name \in DOMAIN L : FirstAt(S, T, name, L[name])
  BY DEF Labelled
<1> HIDE DEF S2, T2, n, new
<1>4. ASSUME NEW name, NEW at, FirstAt(S, T, name, at)
      PROVE  FirstAt(S2, T2, name, at)
  <2>1. PICK k \in 1..n :
          /\ T[k].op = A!DEFINITION /\ Name(T[k]) = name /\ at = S[k]
          /\ \A j \in 1..n : T[j].op = A!DEFINITION /\ Name(T[j]) = name => k <= j
    BY <1>4 DEF FirstAt, n
  <2>2. \A j \in 1..Len(T2) : T2[j].op = A!DEFINITION /\ Name(T2[j]) = name => k <= j
    <3> SUFFICES ASSUME NEW j \in 1..Len(T2), T2[j].op = A!DEFINITION, Name(T2[j]) = name
                 PROVE  k <= j
      OBVIOUS
    <3>1. CASE j \in 1..n
      BY <1>1, <2>1, <3>1
    <3>2. CASE j = n + 1
      BY <1>1, <3>2
    <3> QED BY <1>1, <3>1, <3>2
  <2>3. k \in 1..Len(T2) /\ T2[k].op = A!DEFINITION /\ Name(T2[k]) = name /\ at = S2[k]
    BY <1>1, <2>1
  <2> QED BY <2>2, <2>3 DEF FirstAt
<1>5. \A name \in DOMAIN L : name \in DOMAIN L2 /\ L2[name] = L[name]
  <2>1. CASE NewOf(l, L)
    <3>1. L2 = [k \in DOMAIN L \cup {new} |-> IF k = new THEN P ELSE L[k]] /\ new \notin DOMAIN L
      BY <2>1 DEF WithLabel, NewOf, new
    <3> QED BY <3>1
  <2>2. CASE ~NewOf(l, L)
    BY <2>2 DEF WithLabel
  <2> QED BY <2>1, <2>2
<1>6. ASSUME NEW k \in 1..Len(T2), T2[k].op = A!DEFINITION, A!IsLabel(Name(T2[k]))
      PROVE  Name(T2[k]) \in DOMAIN L2
  <2>1. CASE k \in 1..n
    <3>1. T2[k] = T[k]
      BY <1>1, <2>1
    <3>2. Name(T[k]) \in DOMAIN L
      BY <1>3, <1>6, <2>1, <3>1
    <3> QED BY <1>5, <3>1, <3>2
  <2>2. CASE k = n + 1
    <3>1. T2[k] = l
      BY <1>1, <2>2
    <3>2. Name(l) = new
      BY <1>2, <1>6, <3>1
    <3>3. CASE new \in DOMAIN L
      BY <1>5, <3>1, <3>2, <3>3
    <3>4. CASE new \notin DOMAIN L
      <4>1. NewOf(l, L)
        BY <1>6, <3>1, <3>2, <3>4 DEF NewOf, new
      <4>2. DOMAIN L2 = DOMAIN L \cup {new}
        BY <4>1 DEF WithLabel, new
      <4> QED BY <3>1, <3>2, <4>2
    <3> QED BY <3>3, <3>4
  <2> QED BY <1>1, <2>1, <2>2
<1>7. ASSUME NEW name \in DOMAIN L2 PROVE FirstAt(S2, T2, name, L2[name])
  <2>1. CASE name \in DOMAIN L
    BY <1>3, <1>4, <1>5, <2>1
  <2>2. CASE name \notin DOMAIN L
    <3>1. NewOf(l, L) /\ name = new /\ L2[name] = P
      <4>1. NewOf(l, L)
        BY <2>2 DEF WithLabel
      <4>2. L2 = [k \in DOMAIN L \cup {new} |-> IF k = new THEN P ELSE L[k]]
        BY <4>1 DEF WithLabel, new
      <4> QED BY <2>2, <4>1, <4>2
    <3>2. l.op = A!DEFINITION /\ A!IsLabel(new) /\ Name(l) = new
      BY <1>2, <3>1 DEF NewOf, new
    <3>3. \A j \in 1..Len(T2) : T2[j].op = A!DEFINITION /\ Name(T2[j]) = name => n + 1 <= j
      <4> SUFFICES ASSUME NEW j \in 1..Len(T2), T2[j].op = A!DEFINITION, Name(T2[j]) = name
                   PROVE  n + 1 <= j
        OBVIOUS
      <4>1. CASE j \in 1..n
        <5>1. T[j].op = A!DEFINITION /\ A!IsLabel(Name(T[j])) /\ Name(T[j]) = name
          BY <1>1, <3>1, <3>2, <4>1
        <5>2. name \in DOMAIN L
          BY <1>3, <4>1, <5>1
        <5> QED BY <2>2, <5>2
      <4>2. CASE j = n + 1
        BY <1>1, <4>2
      <4> QED BY <1>1, <4>1, <4>2
    <3> QED BY <1>1, <3>1, <3>2, <3>3 DEF FirstAt
  <2> QED BY <2>1, <2>2
<1>8. Labelled(S2, T2, L2)
  BY <1>6, <1>7 DEF Labelled
<1> QED BY <1>5, <1>8 DEF S2, T2

LEMMA ReferredAppend ==
  ASSUME NEW S \in Seq(Nat), NEW T \in Seq(TextLines), Len(S) = Len(T), NEW P \in Nat,
         NEW l \in TextLines, NEW R, NEW F, IsSeq(R), IsSeq(F), Referred(S, T, R, F),
         NEW ref, ref = A!Ref(Name(l), P + A!argcount(l.op)),
         NEW R2, R2 = IF l.op = A!JMP THEN Append(R, ref) ELSE R,
         NEW F2, F2 = F \/ (l.op = A!LITTOREG /\ F2 = Append(F, ref))
  PROVE  Referred(Append(S, P), Append(T, l), R2, F2)
<1> DEFINE S2 == Append(S, P)
           T2 == Append(T, l)
           n == Len(T)
<1>1. /\ n \in Nat /\ Len(T2) = n + 1 /\ T2[n + 1] = l
      /\ \A k \in 1..n : k \in 1..Len(T2) /\ T2[k] = T[k]
                         /\ Place(S2, T2, k) = Place(S, T, k)
      /\ n + 1 \in 1..Len(T2)
      /\ Place(S2, T2, n + 1) = P + A!argcount(l.op)
  <2>1. /\ n \in Nat /\ Len(T2) = n + 1 /\ T2[n + 1] = l /\ S2[n + 1] = P
        /\ \A k \in 1..n : k \in 1..Len(T2) /\ T2[k] = T[k] /\ S2[k] = S[k]
        /\ n + 1 \in 1..Len(T2)
        /\ \A k \in 1..Len(T2) : k \in 1..n \/ k = n + 1
    BY PlacesStay
  <2> HIDE DEF S2, T2, n
  <2> QED BY <2>1 DEF Place
<1>2. /\ \A i \in 1..Len(R) :
           \E k \in 1..n : T[k].op = A!JMP /\ R[i] = A!Ref(Name(T[k]), Place(S, T, k))
      /\ \A i \in 1..Len(F) :
           \E k \in 1..n : T[k].op = A!LITTOREG /\ F[i].insno = Place(S, T, k)
  BY DEF Referred
<1> HIDE DEF S2, T2, n
<1>3. ASSUME NEW i \in 1..Len(R2)
      PROVE  \E k \in 1..Len(T2) : T2[k].op = A!JMP /\ R2[i] = A!Ref(Name(T2[k]), Place(S2, T2, k))
  <2>1. CASE i \in 1..Len(R)
    <3>1. R2[i] = R[i]
      <4>1. Append(R, ref)[i] = R[i]
        BY <2>1, Longer
      <4> QED BY <4>1
    <3>2. PICK k \in 1..n : T[k].op = A!JMP /\ R[i] = A!Ref(Name(T[k]), Place(S, T, k))
      BY <1>2, <2>1
    <3> QED BY <1>1, <3>1, <3>2
  <2>2. CASE i \notin 1..Len(R)
    <3>1. l.op = A!JMP /\ R2 = Append(R, ref)
      BY <2>2
    <3>2. Len(R) \in Nat /\ Len(R2) = Len(R) + 1 /\ R2[Len(R) + 1] = ref
      BY <3>1, Longer
    <3>3. i = Len(R) + 1
      BY <2>2, <3>2
    <3> QED BY <1>1, <3>1, <3>2, <3>3
  <2> QED BY <2>1, <2>2
<1>4. ASSUME NEW i \in 1..Len(F2)
      PROVE  \E k \in 1..Len(T2) : T2[k].op = A!LITTOREG /\ F2[i].insno = Place(S2, T2, k)
  <2>1. CASE i \in 1..Len(F)
    <3>1. F2[i] = F[i]
      <4>1. Append(F, ref)[i] = F[i]
        BY <2>1, Longer
      <4> QED BY <4>1
    <3>2. PICK k \in 1..n : T[k].op = A!LITTOREG /\ F[i].insno = Place(S, T, k)
      BY <1>2, <2>1
    <3> QED BY <1>1, <3>1, <3>2
  <2>2. CASE i \notin 1..Len(F)
    <3>1. l.op = A!LITTOREG /\ F2 = Append(F, ref)
      BY <2>2
    <3>2. Len(F) \in Nat /\ Len(F2) = Len(F) + 1 /\ F2[Len(F) + 1] = ref
      BY <3>1, Longer
    <3>3. i = Len(F) + 1
      BY <2>2, <3>2
    <3>4. ref.insno = P + A!argcount(l.op)
      BY DEF A!Ref
    <3> QED BY <1>1, <3>1, <3>2, <3>3, <3>4
  <2> QED BY <2>1, <2>2
<1> QED BY <1>3, <1>4 DEF Referred, S2, T2

LEMMA JumpsAppend ==
  ASSUME NEW S, NEW T \in Seq(TextLines), NEW P, NEW M, LaidOut(S, T, P, M),
         NEW R, IsSeq(R), NEW L, Jumps(S, T, R, L, P, M), \A name \in DOMAIN L : L[name] \in Nat,
         NEW l \in TextLines,
         NEW R2, R2 = IF l.op = A!JMP THEN Append(R, A!Ref(Name(l), P + A!argcount(l.op))) ELSE R,
         NEW L2, \A name \in DOMAIN L : name \in DOMAIN L2 /\ L2[name] = L[name],
         NEW N, \A k \in 1..P : N[k] = M[k],
         NEW Q \in Nat, P <= Q
  PROVE  Jumps(Append(S, P), Append(T, l), R2, L2, Q, N)
<1> DEFINE S2 == Append(S, P)
           T2 == Append(T, l)
           n == Len(T)
           ref == A!Ref(Name(l), P + A!argcount(l.op))
<1>1. P \in Nat /\ S \in Seq(Nat) /\ Len(S) = n
  BY DEF LaidOut
<1>2. /\ n \in Nat /\ Len(T2) = n + 1 /\ T2[n + 1] = l
      /\ \A k \in 1..n : k \in 1..Len(T2) /\ T2[k] = T[k]
                         /\ Place(S2, T2, k) = Place(S, T, k)
      /\ n + 1 \in 1..Len(T2)
      /\ Place(S2, T2, n + 1) = P + A!argcount(l.op)
      /\ \A k \in 1..Len(T2) : k \in 1..n \/ k = n + 1
  <2>1. /\ n \in Nat /\ Len(T2) = n + 1 /\ T2[n + 1] = l /\ S2[n + 1] = P
        /\ \A k \in 1..n : k \in 1..Len(T2) /\ T2[k] = T[k] /\ S2[k] = S[k]
        /\ n + 1 \in 1..Len(T2)
        /\ \A k \in 1..Len(T2) : k \in 1..n \/ k = n + 1
    BY <1>1, PlacesStay
  <2> HIDE DEF S2, T2, n
  <2> QED BY <2>1 DEF Place
<1>3. /\ Len(R) \in Nat /\ Len(Append(R, ref)) = Len(R) + 1
      /\ \A i \in 1..Len(R) : Append(R, ref)[i] = R[i]
      /\ Append(R, ref)[Len(R) + 1] = ref
  BY Longer
<1>4. R2 = IF l.op = A!JMP THEN Append(R, ref) ELSE R
  OBVIOUS
<1> HIDE DEF S2, T2, ref
<1>5. ASSUME NEW k \in 1..n, T[k].op = A!JMP
      PROVE  Waits(S2, T2, R2, k) \/ Lands(S2, T2, L2, Q, N, k)
  <2>1. T2[k] = T[k] /\ Place(S2, T2, k) = Place(S, T, k)
    BY <1>2
  <2>2. CASE Waits(S, T, R, k)
    <3>1. PICK i \in 1..Len(R) : R[i] = A!Ref(Name(T[k]), Place(S, T, k))
      BY <2>2 DEF Waits
    <3>2. i \in 1..Len(R2) /\ R2[i] = R[i]
      BY <1>3, <1>4
    <3> QED BY <2>1, <3>1, <3>2 DEF Waits
  <2>3. CASE Lands(S, T, L, P, M, k)
    <3>1. /\ Name(T[k]) \in DOMAIN L /\ L[Name(T[k])] < P
          /\ Place(S, T, k) + 1 + M[Place(S, T, k) + 1] = L[Name(T[k])]
      BY <2>3 DEF Lands
    <3>2. Place(S, T, k) + 1 \in 1..P
      <4>1. S[k] \in Nat
        BY <1>1, ElementOfSeq
      <4>2. S[k] + width(T[k]) <= P
        BY DEF LaidOut, Behind
      <4>3. width(T[k]) = 1 + A!argcount(T[k].op) /\ A!argcount(T[k].op) \in Nat
        BY <1>5, Sizes
      <4> QED BY <1>1, <4>1, <4>2, <4>3, SMTT(30) DEF Place
    <3>3. N[Place(S, T, k) + 1] = M[Place(S, T, k) + 1]
      BY <3>2
    <3>4. L2[Name(T[k])] = L[Name(T[k])] /\ Name(T[k]) \in DOMAIN L2 /\ L[Name(T[k])] \in Nat
      BY <3>1
    <3>5. L[Name(T[k])] < Q
      BY <1>1, <3>1, <3>4
    <3> QED BY <2>1, <3>1, <3>3, <3>4, <3>5 DEF Lands
  <2> QED BY <1>5, <2>2, <2>3 DEF Jumps
<1>6. ASSUME l.op = A!JMP PROVE Waits(S2, T2, R2, n + 1)
  <2>1. Len(R) + 1 \in 1..Len(R2) /\ R2[Len(R) + 1] = ref
    BY <1>3, <1>4, <1>6
  <2>2. ref = A!Ref(Name(T2[n + 1]), Place(S2, T2, n + 1))
    BY <1>2 DEF ref
  <2> QED BY <2>1, <2>2 DEF Waits
<1>7. ASSUME NEW k \in 1..Len(T2), T2[k].op = A!JMP
      PROVE  Waits(S2, T2, R2, k) \/ Lands(S2, T2, L2, Q, N, k)
  <2>1. CASE k \in 1..n
    BY <1>2, <1>5, <1>7, <2>1
  <2>2. CASE k = n + 1
    BY <1>2, <1>6, <1>7, <2>2
  <2> QED BY <1>2, <2>1, <2>2
<1> QED BY <1>7 DEF Jumps, S2, T2

-----------------------------------------------------------------------------
(* Patching                                                                *)

\* A word behind an opcode is no opcode, and not of another jump.
LEMMA LaidOutPatch ==
  ASSUME NEW S, NEW T, NEW P, NEW M, LaidOut(S, T, P, M), T \in Seq(TextLines),
         NEW at \in 1..Len(T), T[at].op \in {A!JMP, A!LITTOREG},
         NEW N, \A k \in 1..P : k # Place(S, T, at) + 1 => N[k] = M[k]
  PROVE  /\ LaidOut(S, T, P, N)
         /\ Place(S, T, at) \in Nat /\ Place(S, T, at) < P
         /\ \A k \in 1..Len(T) : T[k].op = A!JMP /\ k # at =>
              /\ Place(S, T, k) # Place(S, T, at)
              /\ N[Place(S, T, k) + 1] = M[Place(S, T, k) + 1]
<1> DEFINE n == Len(T)
           w(k) == width(T[k])
           p == Place(S, T, at)
<1>1. /\ P \in Nat /\ S \in Seq(Nat) /\ Len(S) = n /\ n \in Nat
      /\ \A k \in 1..n : S[k] + w(k) <= P
      /\ \A j, k \in 1..n : j < k => S[j] + w(j) <= S[k]
      /\ \A k \in 1..n : w(k) > 0 => M[S[k] + 1] = opcode(T[k])
  BY LenProperties DEF LaidOut, Behind
<1>2. \A k \in 1..n : S[k] \in Nat
  BY <1>1, ElementOfSeq
<1>3. \A k \in 1..n : w(k) \in Nat
  BY Sizes
<1>4. \A k \in 1..n : T[k].op \in {A!JMP, A!LITTOREG} =>
        w(k) > 0 /\ Place(S, T, k) = S[k] + (w(k) - 1)
  <2> SUFFICES ASSUME NEW k \in 1..n, T[k].op \in {A!JMP, A!LITTOREG}
               PROVE  w(k) > 0 /\ Place(S, T, k) = S[k] + (w(k) - 1)
    OBVIOUS
  <2>1. w(k) = 1 + A!argcount(T[k].op) /\ A!argcount(T[k].op) \in {0, 1, 2}
    BY Sizes
  <2> HIDE DEF w
  <2>2. A!argcount(T[k].op) = w(k) - 1 /\ w(k) > 0
    BY <2>1
  <2> QED BY <2>2 DEF Place
<1>5. w(at) > 0 /\ p = S[at] + (w(at) - 1) /\ at \in 1..n /\ w(at) # 1
  <2>1. w(at) = 1 + A!argcount(T[at].op)
    BY Sizes
  <2>2. A!argcount(T[at].op) # 0
    BY DEF A!argcount, A!JMP, A!LITTOREG, A!RET, A!REGTOREG
  <2>3. A!argcount(T[at].op) \in {0, 1, 2}
    BY Sizes
  <2>4. w(at) # 1
    <3> HIDE DEF w
    <3> QED BY <2>1, <2>2, <2>3
  <2> QED BY <1>4, <2>4
<1> HIDE DEF n, w, p
<1>6. p \in Nat /\ p < P /\ S[at] \in Nat /\ S[at] # p /\ S[at] < P
  <2>1. PICK s \in Nat, v \in Nat : s = S[at] /\ v = w(at)
    BY <1>2, <1>3, <1>5
  <2>2. v > 0 /\ v # 1 /\ p = s + (v - 1) /\ s + v <= P
    BY <1>1, <1>5, <2>1
  <2>3. p \in Nat /\ p < P /\ s # p /\ s < P
    BY <1>1, <2>2
  <2> QED BY <2>1, <2>3
\* Lines do not share words.
<1>7. ASSUME NEW k \in 1..n, k # at, NEW i \in Nat, i < w(k)
      PROVE  S[k] + i # p /\ S[k] + i + 1 \in 1..P
  <2>1. PICK s \in Nat, v \in Nat, t \in Nat, u \in Nat :
          s = S[k] /\ v = w(k) /\ t = S[at] /\ u = w(at)
    BY <1>2, <1>3, <1>5, <1>7
  <2>2. s + v <= P /\ i < v /\ u > 0 /\ p = t + (u - 1)
    BY <1>1, <1>5, <1>7, <2>1
  <2>3. s + i + 1 \in 1..P
    BY <1>1, <2>2
  <2>4. CASE k < at
    <3>1. s + v <= t
      BY <1>1, <1>5, <2>1, <2>4
    <3>2. s + i # p
      BY <2>2, <3>1
    <3> QED BY <2>1, <2>3, <3>2
  <2>5. CASE at < k
    <3>1. t + u <= s
      BY <1>1, <1>5, <2>1, <2>5
    <3>2. s + i # p
      BY <2>2, <3>1
    <3> QED BY <2>1, <2>3, <3>2
  <2>6. k < at \/ at < k
    BY <1>1, <1>5, <1>7
  <2> QED BY <2>4, <2>5, <2>6
<1>8. \A k \in 1..P : k # p + 1 => N[k] = M[k]
  BY DEF p
<1>9. ASSUME NEW k \in 1..n, w(k) > 0 PROVE N[S[k] + 1] = opcode(T[k])
  <2>1. S[k] \in Nat /\ w(k) \in Nat /\ S[k] + w(k) <= P
    BY <1>1, <1>2, <1>3
  <2>2. S[k] + 1 \in 1..P /\ S[k] + 1 # p + 1
    <3>1. CASE k = at
      <4>1. \A x, y \in Nat : x # y /\ x < P => x + 1 \in 1..P /\ x + 1 # y + 1
        BY <1>1
      <4> QED BY <1>6, <3>1, <4>1
    <3>2. CASE k # at
      <4>1. S[k] + 0 # p /\ S[k] + 0 + 1 \in 1..P
        BY <1>7, <1>9, <3>2
      <4> QED BY <1>6, <2>1, <4>1
    <3> QED BY <3>1, <3>2
  <2> QED BY <1>1, <1>8, <1>9, <2>2
<1>10. LaidOut(S, T, P, N)
  BY <1>9 DEF LaidOut, n, w
<1>11. ASSUME NEW k \in 1..n, T[k].op = A!JMP, k # at
       PROVE  Place(S, T, k) # p /\ N[Place(S, T, k) + 1] = M[Place(S, T, k) + 1]
  <2>1. w(k) > 0 /\ Place(S, T, k) = S[k] + (w(k) - 1) /\ w(k) \in Nat /\ S[k] \in Nat
    BY <1>2, <1>3, <1>4, <1>11
  <2>2. w(k) - 1 \in Nat /\ w(k) - 1 < w(k)
    BY <2>1
  <2>3. S[k] + (w(k) - 1) # p /\ S[k] + (w(k) - 1) + 1 \in 1..P
    BY <1>7, <1>11, <2>2
  <2>4. Place(S, T, k) # p /\ Place(S, T, k) + 1 \in 1..P /\ Place(S, T, k) \in Nat
    BY <2>1, <2>2, <2>3
  <2>5. Place(S, T, k) + 1 # p + 1
    BY <1>6, <2>4
  <2> QED BY <1>8, <2>4, <2>5
<1> QED BY <1>6, <1>10, <1>11 DEF n, p

\* A jump that was patched reaches its label; the others are as they were.
LEMMA JumpsPatch ==
  ASSUME NEW S, NEW T, NEW P, NEW M, LaidOut(S, T, P, M), T \in Seq(TextLines),
         NEW R, IsSeq(R), R # <<>>, NEW L, Jumps(S, T, R, L, P, M),
         NEW at \in 1..Len(T), T[at].op = A!JMP, Head(R) = A!Ref(Name(T[at]), Place(S, T, at)),
         Name(T[at]) \in DOMAIN L, L[Name(T[at])] \in Nat, L[Name(T[at])] < P,
         NEW N, \A k \in 1..P : k # Place(S, T, at) + 1 => N[k] = M[k],
         N[Place(S, T, at) + 1] = A!relative(L[Name(T[at])], Place(S, T, at))
  PROVE  Jumps(S, T, Tail(R), L, P, N)
<1>1. /\ Place(S, T, at) \in Nat /\ Place(S, T, at) < P
      /\ \A k \in 1..Len(T) : T[k].op = A!JMP /\ k # at =>
              /\ Place(S, T, k) # Place(S, T, at)
              /\ N[Place(S, T, k) + 1] = M[Place(S, T, k) + 1]
  BY LaidOutPatch
<1>2. /\ Len(R) \in Nat \ {0} /\ Len(Tail(R)) = Len(R) - 1
      /\ \A i \in 1..Len(Tail(R)) : Tail(R)[i] = R[i + 1]
      /\ Head(R) = R[1]
  BY Shorter
<1>3. Lands(S, T, L, P, N, at)
  <2>1. A!relative(L[Name(T[at])], Place(S, T, at)) = L[Name(T[at])] - (Place(S, T, at) + 1)
    BY DEF A!relative, A!label_insno
  <2>2. PICK p \in Nat, x \in Nat : p = Place(S, T, at) /\ x = L[Name(T[at])]
    BY <1>1
  <2>3. N[p + 1] = x - (p + 1)
    BY <2>1, <2>2
  <2>4. p + 1 + N[p + 1] = x
    BY <2>3
  <2> QED BY <2>2, <2>4 DEF Lands
<1>4. ASSUME NEW k \in 1..Len(T), T[k].op = A!JMP, k # at
      PROVE  Waits(S, T, Tail(R), k) \/ Lands(S, T, L, P, N, k)
  <2>1. Place(S, T, k) # Place(S, T, at) /\ N[Place(S, T, k) + 1] = M[Place(S, T, k) + 1]
    BY <1>1, <1>4
  <2>2. CASE Waits(S, T, R, k)
    <3>1. PICK i \in 1..Len(R) : R[i] = A!Ref(Name(T[k]), Place(S, T, k))
      BY <2>2 DEF Waits
    <3>2. i # 1
      <4>1. R[1].insno = Place(S, T, at) /\ R[i].insno = Place(S, T, k)
        BY <1>2, <3>1 DEF A!Ref
      <4> QED BY <2>1, <4>1
    <3>3. PICK j \in 1..Len(Tail(R)) : i = j + 1
      <4>1. i - 1 \in 1..Len(Tail(R)) /\ i = (i - 1) + 1
        BY <1>2, <3>2
      <4> QED BY <4>1
    <3>4. Tail(R)[j] = R[i]
      BY <1>2, <3>3
    <3> QED BY <3>1, <3>4 DEF Waits
  <2>3. CASE Lands(S, T, L, P, M, k)
    BY <2>1, <2>3 DEF Lands
  <2> QED BY <1>4, <2>2, <2>3 DEF Jumps
<1> QED BY <1>3, <1>4 DEF Jumps

\* One reference less.
LEMMA ReferredLess ==
  ASSUME NEW S, NEW T, NEW R, NEW F, Referred(S, T, R, F), IsSeq(R), IsSeq(F)
  PROVE  /\ R # <<>> => /\ Referred(S, T, Tail(R), F)
                        /\ \E k \in 1..Len(T) :
                             T[k].op = A!JMP /\ Head(R) = A!Ref(Name(T[k]), Place(S, T, k))
         /\ F # <<>> => /\ Referred(S, T, R, Tail(F))
                        /\ \E k \in 1..Len(T) :
                             T[k].op = A!LITTOREG /\ Head(F).insno = Place(S, T, k)
<1>1. ASSUME R # <<>>
      PROVE  /\ Referred(S, T, Tail(R), F)
             /\ \E k \in 1..Len(T) :
                  T[k].op = A!JMP /\ Head(R) = A!Ref(Name(T[k]), Place(S, T, k))
  <2>1. /\ Len(R) \in Nat \ {0} /\ Len(Tail(R)) = Len(R) - 1
        /\ \A i \in 1..Len(Tail(R)) : Tail(R)[i] = R[i + 1]
        /\ Head(R) = R[1]
    BY <1>1, Shorter
  <2>2. 1 \in 1..Len(R) /\ \A i \in 1..Len(Tail(R)) : i + 1 \in 1..Len(R)
    BY <2>1
  <2> QED BY <2>1, <2>2 DEF Referred
<1>2. ASSUME F # <<>>
      PROVE  /\ Referred(S, T, R, Tail(F))
             /\ \E k \in 1..Len(T) : T[k].op = A!LITTOREG /\ Head(F).insno = Place(S, T, k)
  <2>1. /\ Len(F) \in Nat \ {0} /\ Len(Tail(F)) = Len(F) - 1
        /\ \A i \in 1..Len(Tail(F)) : Tail(F)[i] = F[i + 1]
        /\ Head(F) = F[1]
    BY <1>2, Shorter
  <2>2. 1 \in 1..Len(F) /\ \A i \in 1..Len(Tail(F)) : i + 1 \in 1..Len(F)
    BY <2>1
  <2> QED BY <2>1, <2>2 DEF Referred
<1> QED BY <1>1, <1>2

-----------------------------------------------------------------------------
(* Where instructions begin                                                *)

\* The function of the beginnings exists for the last m words of the code.
StartsListed(M, m) ==
  \E g : g = [i \in Len(M) - m..Len(M) + 2 |->
               IF i >= Len(M) THEN {} ELSE {i} \cup g[i + 1 + A!argcount(A!At(M, i))]]

LEMMA StartsExist ==
  ASSUME NEW M, Len(M) \in Nat
  PROVE  StartsListed(M, Len(M))
<1> DEFINE N == Len(M)
           next(i) == i + 1 + A!argcount(A!At(M, i))
<1>1. \A i : A!argcount(A!At(M, i)) \in {0, 1, 2}
  BY DEF A!argcount
<1>2. StartsListed(M, 0)
  <2> DEFINE g == [i \in N - 0..N + 2 |-> {}]
  <2>1. \A i \in N - 0..N + 2 : i >= N
    OBVIOUS
  <2>2. g = [i \in N - 0..N + 2 |-> IF i >= N THEN {} ELSE {i} \cup g[next(i)]]
    BY <2>1
  <2> QED BY <2>2 DEF StartsListed
<1> HIDE DEF next
<1>3. ASSUME NEW j \in Nat, j + 1 <= N, StartsListed(M, j) PROVE StartsListed(M, j + 1)
  <2>1. PICK h : h = [i \in N - j..N + 2 |-> IF i >= N THEN {} ELSE {i} \cup h[next(i)]]
    BY <1>3 DEF StartsListed, next
  <2> DEFINE e == N - (j + 1)
             g == [i \in e..N + 2 |-> IF i = e THEN {e} \cup h[next(e)] ELSE h[i]]
  <2>2. e \in Nat /\ e < N /\ e + 1 = N - j
    BY <1>3
  <2> HIDE DEF e
  <2>3. ASSUME NEW i \in Nat, e <= i, i < N PROVE next(i) \in e..N + 2 /\ next(i) # e
    <3>1. PICK a \in 0..2 : next(i) = i + 1 + a
      BY <1>1 DEF next
    <3>2. i + 1 + a \in e..N + 2 /\ i + 1 + a # e
      BY <2>2, <2>3
    <3> QED BY <3>1, <3>2
  <2>4. ASSUME NEW i \in e..N + 2
        PROVE  g[i] = IF i >= N THEN {} ELSE {i} \cup g[next(i)]
    <3>1. i \in Nat
      BY <2>2
    <3>2. CASE i = e
      <4>1. next(e) \in e..N + 2 /\ next(e) # e
        BY <2>2, <2>3
      <4>2. ~(i >= N)
        BY <2>2, <3>2
      <4>3. g[next(e)] = h[next(e)] /\ g[e] = {e} \cup h[next(e)]
        BY <2>2, <4>1
      <4> QED BY <3>2, <4>2, <4>3
    <3>3. CASE i # e
      <4>1. i \in N - j..N + 2 /\ g[i] = h[i]
        BY <2>2, <3>1, <3>3
      <4>2. h[i] = IF i >= N THEN {} ELSE {i} \cup h[next(i)]
        BY <2>1, <4>1
      <4>3. ~(i >= N) => next(i) \in e..N + 2 /\ next(i) # e
        BY <2>2, <2>3, <3>1, <4>1
      <4>4. ~(i >= N) => g[next(i)] = h[next(i)]
        BY <4>3
      <4> HIDE DEF g
      <4> QED BY <4>1, <4>2, <4>4
    <3> QED BY <3>2, <3>3
  <2>5. g = [i \in e..N + 2 |-> g[i]]
    OBVIOUS
  <2> HIDE DEF g
  <2>6. g = [i \in e..N + 2 |-> IF i >= N THEN {} ELSE {i} \cup g[next(i)]]
    BY <2>4, <2>5
  <2> QED BY <2>6 DEF StartsListed, e, next
<1> DEFINE Exist == {j \in Nat : j <= N => StartsListed(M, j)}
<1>4. Exist = Nat
  <2>1. ASSUME NEW j \in Exist PROVE j + 1 \in Exist
    <3>1. j + 1 <= N => j <= N
      OBVIOUS
    <3> QED BY <1>3, <3>1
  <2>2. 0 \in Exist
    BY <1>2
  <2>3. Exist \in SUBSET Nat
    OBVIOUS
  <2> HIDE DEF Exist
  <2> QED BY <2>1, <2>2, <2>3, Induction
<1>5. N \in Exist
  BY <1>4
<1> QED BY <1>5

LEMMA StartsDef ==
  ASSUME NEW M, Len(M) \in Nat
  PROVE  \A i \in 0..Len(M) + 2 :
           A!StartsFrom(M)[i] = IF i >= Len(M) THEN {}
                                ELSE {i} \cup A!StartsFrom(M)[i + 1 + A!argcount(A!At(M, i))]
<1>1. StartsListed(M, Len(M))
  BY StartsExist
<1>2. Len(M) - Len(M) = 0
  OBVIOUS
<1>3. \E g : g = [i \in 0..Len(M) + 2 |->
               IF i >= Len(M) THEN {} ELSE {i} \cup g[i + 1 + A!argcount(A!At(M, i))]]
  BY <1>1, <1>2 DEF StartsListed
<1>4. A!StartsFrom(M) = [i \in 0..Len(M) + 2 |->
        IF i >= Len(M) THEN {}
        ELSE {i} \cup A!StartsFrom(M)[i + 1 + A!argcount(A!At(M, i))]]
  BY <1>3 DEF A!StartsFrom
<1> QED BY <1>4

\* A line that has words is an instruction with its operands.
LEMMA WidthIs ==
  ASSUME NEW l, width(l) > 0 PROVE width(l) = 1 + A!argcount(opcode(l))
<1>1. A!argcount(A!THISBASE) = 1
  BY DEF A!argcount, A!THISBASE, A!RET, A!REGTOREG, A!LITTOREG
<1> QED BY <1>1 DEF width, opcode

\* Instructions begin where the lines do.
LEMMA Reached ==
  ASSUME NEW S, NEW T \in Seq(TextLines), NEW P, NEW M, LaidOut(S, T, P, M), Len(M) = P
  PROVE  \A k \in 1..Len(T) : S[k] < P => S[k] \in A!InstructionStarts(M)
<1> DEFINE n == Len(T)
           from == A!StartsFrom(M)
           Within == {k \in Nat : k <= n => from[Begin(S, P, k + 1)] \subseteq from[0]}
<1>1. /\ P \in Nat /\ S \in Seq(Nat) /\ Len(S) = n /\ n \in Nat
      /\ Begin(S, P, 1) = 0
      /\ \A k \in 1..n : Begin(S, P, k + 1) = S[k] + width(T[k]) /\ S[k] + width(T[k]) <= P
      /\ \A k \in 1..n : width(T[k]) > 0 => M[S[k] + 1] = opcode(T[k])
  BY LenProperties DEF LaidOut, Behind
<1>2. \A k \in 1..n : S[k] \in Nat /\ width(T[k]) \in Nat /\ Begin(S, P, k) = S[k]
  <2>1. \A k \in 1..n : S[k] \in Nat /\ k <= Len(S)
    BY <1>1, ElementOfSeq
  <2> QED BY <2>1, Sizes DEF Begin
<1>3. \A i \in 0..P + 2 :
        from[i] = IF i >= P THEN {} ELSE {i} \cup from[i + 1 + A!argcount(A!At(M, i))]
  BY <1>1, StartsDef
<1> HIDE DEF from, n
<1>4. ASSUME NEW k \in Within PROVE k + 1 \in Within
  <2> SUFFICES ASSUME k + 1 <= n
               PROVE  from[Begin(S, P, (k + 1) + 1)] \subseteq from[0]
    OBVIOUS
  <2> DEFINE j == k + 1
  <2>1. j \in 1..n /\ from[Begin(S, P, j)] \subseteq from[0]
    BY <1>1
  <2> HIDE DEF j, Within
  <2>2. PICK b \in Nat, v \in Nat : b = S[j] /\ v = width(T[j])
    BY <1>2, <2>1
  <2>3. Begin(S, P, j) = b /\ Begin(S, P, j + 1) = b + v /\ b + v <= P
    BY <1>1, <1>2, <2>1, <2>2
  <2>4. CASE v = 0
    <3>1. b + v = b
      BY <2>4
    <3> QED BY <2>1, <2>3, <3>1 DEF j
  <2>5. CASE v # 0
    <3>1. v > 0 /\ b \in 0..P + 2 /\ ~(b >= P)
      BY <1>1, <2>3, <2>5
    <3>2. A!At(M, b) = opcode(T[j])
      BY <1>1, <2>1, <2>2, <3>1 DEF A!At
    <3>3. v = 1 + A!argcount(opcode(T[j])) /\ A!argcount(opcode(T[j])) \in Nat
      BY <2>2, <3>1, WidthIs DEF A!argcount
    <3>4. b + v = b + 1 + A!argcount(A!At(M, b))
      BY <3>2, <3>3
    <3>5. from[b] = {b} \cup from[b + v]
      BY <1>3, <3>1, <3>4
    <3> QED BY <2>1, <2>3, <3>5 DEF j
  <2> QED BY <2>4, <2>5
<1>5. Within = Nat
  <2>1. 0 \in Within
    BY <1>1
  <2>2. Within \in SUBSET Nat
    OBVIOUS
  <2> HIDE DEF Within
  <2> QED BY <1>4, <2>1, <2>2, Induction
<1>6. ASSUME NEW k \in 1..n, S[k] < P PROVE S[k] \in from[0]
  <2>1. k - 1 \in Nat /\ k - 1 <= n /\ (k - 1) + 1 = k
    BY <1>1
  <2>2. PICK b : b = S[k]
    OBVIOUS
  <2>3. from[b] \subseteq from[0]
    <3>1. k - 1 \in Within
      BY <1>5, <2>1
    <3> QED BY <1>2, <2>1, <2>2, <3>1
  <2>4. b \in 0..P + 2 /\ ~(b >= P)
    BY <1>1, <1>2, <1>6, <2>2, SMTT(30)
  <2>5. from[b] = {b} \cup from[b + 1 + A!argcount(A!At(M, b))]
    BY <1>3, <2>4
  <2> QED BY <2>2, <2>3, <2>5
<1> QED BY <1>6 DEF n, from, A!InstructionStarts

-----------------------------------------------------------------------------
(* The text and its code                                                   *)

LEMMA TranslatedAre ==
  ASSUME NEW S, NEW T, NEW P, NEW M, NEW L, NEW R, NEW F, Translated(S, T, P, M, L, R, F)
  PROVE  /\ T \in Seq(TextLines) /\ S \in Seq(Nat) /\ Len(S) = Len(T) /\ P \in Nat
         /\ \A name \in DOMAIN L : L[name] \in Nat
<1>1. T \in Seq(TextLines) /\ S \in Seq(Nat) /\ Len(S) = Len(T) /\ P \in Nat
  BY DEF Translated, Read, LaidOut
<1>2. ASSUME NEW name \in DOMAIN L PROVE L[name] \in Nat
  <2>1. PICK k \in 1..Len(T) : L[name] = S[k]
    BY DEF Translated, Labelled, FirstAt
  <2> QED BY <1>1, <2>1, ElementOfSeq
<1> QED BY <1>1, <1>2

\* One more line is read.
LEMMA TranslatedAppend ==
  ASSUME NEW S, NEW T, NEW P, NEW M, NEW L, NEW R, NEW F, Translated(S, T, P, M, L, R, F),
         IsSeq(R), IsSeq(F), NEW l \in TextLines, l.op \in A!Instructions \cup {A!DEFINITION},
         NEW N, \A k \in 1..P : N[k] = M[k], width(l) > 0 => N[P + 1] = opcode(l),
         NEW ref, ref = A!Ref(Name(l), P + A!argcount(l.op)),
         NEW L2, L2 = WithLabel(l, L, P),
         NEW R2, R2 = IF l.op = A!JMP THEN Append(R, ref) ELSE R,
         NEW F2, F2 = F \/ (l.op = A!LITTOREG /\ F2 = Append(F, ref))
  PROVE  Translated(Append(S, P), Append(T, l), P + width(l), N, L2, R2, F2)
<1>1. /\ Read(T) /\ LaidOut(S, T, P, M) /\ Labelled(S, T, L)
      /\ Referred(S, T, R, F) /\ Jumps(S, T, R, L, P, M)
  BY DEF Translated
<1>2. /\ T \in Seq(TextLines) /\ S \in Seq(Nat) /\ Len(S) = Len(T) /\ P \in Nat
      /\ \A name \in DOMAIN L : L[name] \in Nat
  BY TranslatedAre
<1>3. LaidOut(Append(S, P), Append(T, l), P + width(l), N)
  BY <1>1, <1>2, LaidOutAppend
<1>4. /\ Labelled(Append(S, P), Append(T, l), L2)
      /\ \A name \in DOMAIN L : name \in DOMAIN L2 /\ L2[name] = L[name]
  <2>1. Labelled(S, T, L)
    BY <1>1
  <2> QED BY <1>2, <2>1, LabelledAppend
<1>5. Referred(Append(S, P), Append(T, l), R2, F2)
  BY <1>1, <1>2, ReferredAppend
<1>6. Jumps(Append(S, P), Append(T, l), R2, L2, P + width(l), N)
  <2>1. PICK Q : Q = P + width(l)
    OBVIOUS
  <2>2. Q \in Nat /\ P <= Q
    <3>1. width(l) \in Nat
      BY Sizes
    <3> QED BY <1>2, <2>1, <3>1
  <2>3. R2 = IF l.op = A!JMP THEN Append(R, A!Ref(Name(l), P + A!argcount(l.op))) ELSE R
    OBVIOUS
  <2>4. Jumps(Append(S, P), Append(T, l), R2, L2, Q, N)
    BY <1>1, <1>2, <1>4, <2>2, <2>3, JumpsAppend, ZenonT(60)
  <2> QED BY <2>1, <2>4
<1>7. Read(Append(T, l))
  <2>1. /\ Append(T, l) \in Seq(TextLines) /\ Len(T) \in Nat /\ Len(Append(T, l)) = Len(T) + 1
        /\ \A k \in 1..Len(T) : Append(T, l)[k] = T[k]
        /\ Append(T, l)[Len(T) + 1] = l
        /\ \A k \in 1..Len(T) + 1 : k \in 1..Len(T) \/ k = Len(T) + 1
    BY <1>2, Extended
  <2>2. \A k \in 1..Len(T) : T[k].op \in A!Instructions \cup {A!DEFINITION}
    BY <1>1 DEF Read
  <2> QED BY <2>1, <2>2 DEF Read
<1> QED BY <1>3, <1>4, <1>5, <1>6, <1>7 DEF Translated

\* A word of the code is patched; P is the size of the code.
LEMMA TranslatedLabel ==
  ASSUME NEW S, NEW T, NEW P, NEW M, NEW L, NEW R, NEW F, Translated(S, T, P, M, L, R, F),
         IsSeq(R), IsSeq(F), R # <<>>, Head(R).name \in DOMAIN L, ~(L[Head(R).name] >= P)
  PROVE  /\ Head(R).insno \in Nat /\ Head(R).insno < P
         /\ \A N : (/\ \A k \in 1..P : k # Head(R).insno + 1 => N[k] = M[k]
                    /\ N[Head(R).insno + 1] = A!relative(L[Head(R).name], Head(R).insno))
                   => Translated(S, T, P, N, L, Tail(R), F)
<1>1. /\ Read(T) /\ LaidOut(S, T, P, M) /\ Labelled(S, T, L)
      /\ Referred(S, T, R, F) /\ Jumps(S, T, R, L, P, M)
  BY DEF Translated
<1>2. /\ T \in Seq(TextLines) /\ P \in Nat
      /\ \A name \in DOMAIN L : L[name] \in Nat
  BY TranslatedAre
<1>3. PICK at \in 1..Len(T) : T[at].op = A!JMP /\ Head(R) = A!Ref(Name(T[at]), Place(S, T, at))
  BY <1>1, ReferredLess
<1>4. Referred(S, T, Tail(R), F)
  BY <1>1, ReferredLess
<1>5. Head(R).name = Name(T[at]) /\ Head(R).insno = Place(S, T, at)
  BY <1>3 DEF A!Ref
<1>6. T[at].op \in {A!JMP, A!LITTOREG}
  BY <1>3
<1>7. Place(S, T, at) \in Nat /\ Place(S, T, at) < P
  BY <1>1, <1>2, <1>6, LaidOutPatch
<1>8. Name(T[at]) \in DOMAIN L /\ L[Name(T[at])] \in Nat /\ L[Name(T[at])] < P
  <2>1. Name(T[at]) \in DOMAIN L /\ L[Name(T[at])] \in Nat /\ ~(L[Name(T[at])] >= P)
    BY <1>2, <1>5
  <2> QED BY <1>2, <2>1
<1>9. ASSUME NEW N, \A k \in 1..P : k # Head(R).insno + 1 => N[k] = M[k],
             N[Head(R).insno + 1] = A!relative(L[Head(R).name], Head(R).insno)
      PROVE  Translated(S, T, P, N, L, Tail(R), F)
  <2>1. /\ \A k \in 1..P : k # Place(S, T, at) + 1 => N[k] = M[k]
        /\ N[Place(S, T, at) + 1] = A!relative(L[Name(T[at])], Place(S, T, at))
    BY <1>5, <1>9
  <2>2. LaidOut(S, T, P, N)
    BY <1>1, <1>2, <1>6, <2>1, LaidOutPatch
  <2>3. Jumps(S, T, Tail(R), L, P, N)
    BY <1>1, <1>2, <1>3, <1>8, <2>1, JumpsPatch
  <2> QED BY <1>1, <1>4, <2>2, <2>3 DEF Translated
<1> QED BY <1>5, <1>7, <1>9

LEMMA TranslatedFunction ==
  ASSUME NEW S, NEW T, NEW P, NEW M, NEW L, NEW R, NEW F, Translated(S, T, P, M, L, R, F),
         IsSeq(R), IsSeq(F), F # <<>>
  PROVE  /\ Head(F).insno \in Nat /\ Head(F).insno < P
         /\ \A N : (\A k \in 1..P : k # Head(F).insno + 1 => N[k] = M[k])
                   => Translated(S, T, P, N, L, R, Tail(F))
<1>1. /\ Read(T) /\ LaidOut(S, T, P, M) /\ Labelled(S, T, L)
      /\ Referred(S, T, R, F) /\ Jumps(S, T, R, L, P, M)
  BY DEF Translated
<1>2. T \in Seq(TextLines)
  BY TranslatedAre
<1>3. PICK at \in 1..Len(T) : T[at].op = A!LITTOREG /\ Head(F).insno = Place(S, T, at)
  BY <1>1, ReferredLess, ZenonT(60)
<1>4. Referred(S, T, R, Tail(F))
  BY <1>1, ReferredLess
<1>5. T[at].op \in {A!JMP, A!LITTOREG} /\ T[at].op # A!JMP
  BY <1>3, Codes
<1>6. Place(S, T, at) \in Nat /\ Place(S, T, at) < P
  BY <1>1, <1>2, <1>5, LaidOutPatch
<1>7. ASSUME NEW N, \A k \in 1..P : k # Head(F).insno + 1 => N[k] = M[k]
      PROVE  Translated(S, T, P, N, L, R, Tail(F))
  <2>1. \A k \in 1..P : k # Place(S, T, at) + 1 => N[k] = M[k]
    BY <1>3, <1>7
  <2>2. /\ LaidOut(S, T, P, N)
        /\ \A k \in 1..Len(T) : T[k].op = A!JMP /\ k # at =>
              /\ Place(S, T, k) # Place(S, T, at)
              /\ N[Place(S, T, k) + 1] = M[Place(S, T, k) + 1]
    BY <1>1, <1>2, <1>5, <2>1, LaidOutPatch
  <2>3. Jumps(S, T, R, L, P, N)
    <3> SUFFICES ASSUME NEW k \in 1..Len(T), T[k].op = A!JMP
                 PROVE  Waits(S, T, R, k) \/ Lands(S, T, L, P, N, k)
      BY DEF Jumps
    <3>1. Waits(S, T, R, k) \/ Lands(S, T, L, P, M, k)
      BY <1>1 DEF Jumps
    <3>2. N[Place(S, T, k) + 1] = M[Place(S, T, k) + 1]
      BY <1>5, <2>2
    <3> QED BY <3>1, <3>2 DEF Lands
  <2> QED BY <1>1, <1>4, <2>2, <2>3 DEF Translated
<1> QED BY <1>3, <1>6, <1>7

-----------------------------------------------------------------------------
(* Assembling                                                              *)

LEMMA StartTranslated == Translated(<<>>, <<>>, 0, <<>>, <<>>, <<>>, <<>>)
<1>1. <<>> \in Seq(TextLines) /\ <<>> \in Seq(Nat) /\ Len(<<>>) = 0 /\ DOMAIN <<>> = {}
  BY EmptySeq
<1>2. PICK e : e = <<>>
  OBVIOUS
<1>3. \A k \in 1..Len(e) : FALSE
  BY <1>1, <1>2
<1>4. Read(e)
  BY <1>1, <1>2, <1>3 DEF Read
<1>5. LaidOut(e, e, 0, e)
  <2>1. Begin(e, 0, 1) = 0
    BY <1>1, <1>2 DEF Begin
  <2> QED BY <1>1, <1>2, <1>3, <2>1 DEF LaidOut
<1>6. Labelled(e, e, e)
  BY <1>1, <1>2, <1>3 DEF Labelled
<1>7. Referred(e, e, e, e) /\ Jumps(e, e, e, e, 0, e)
  BY <1>3 DEF Referred, Jumps
<1> QED BY <1>2, <1>4, <1>5, <1>6, <1>7 DEF Translated

LEMMA AssemblingStart == Init => Assembling
<1> SUFFICES ASSUME Init PROVE Assembling
  OBVIOUS
<1>1. as = A!Empty /\ pc = "data" /\ source = NoText /\ starts = <<>>
  BY DEF Init, A!AsmInit
<1>2. /\ as.code.size = 0 /\ as.label_map = <<>> /\ as.label_refs = <<>> /\ as.function_refs = <<>>
      /\ source.text = <<>>
  BY <1>1, EmptyArrays DEF NoText
<1>3. as.code.mem = <<>>
  BY <1>1 DEF A!Empty, A!ByteArray_open_mem
<1>4. Translated(starts, source.text, as.code.size, as.code.mem, as.label_map, as.label_refs,
                 as.function_refs)
  BY <1>1, <1>2, <1>3, StartTranslated
<1> QED BY <1>1, <1>4 DEF Assembling

\* A line of the text.
LEMMA TextTranslated ==
  ASSUME ArraysKept, Assembling, NEW l \in TextLines, A!TextLine(l), pc' # "abort",
         starts' = Append(starts, A!pos), source'.text = Append(source.text, l)
  PROVE  Assembling'
<1>1. /\ AsStruct /\ Array(as.code) /\ IsSeq(as.label_refs) /\ IsSeq(as.function_refs)
  BY DEF ArraysKept, Structs, Arrays, Places
<1>2. pc = "text" /\ AtEnd(as.code)
  <2>1. pc = "text"
    BY ReadLine
  <2> QED BY <2>1 DEF ArraysKept, Arrays
<1>3. LineRead(l)
  BY <1>1, <1>2, TextLineRead
<1>4. pc' = pc /\ l.op \in A!Instructions \cup {A!DEFINITION} /\ Code(l) /\ Tables(l)
  BY <1>3, Zenon DEF LineRead
<1>5. PICK S, T, P, M, L, R, F :
        /\ S = starts /\ T = source.text /\ P = as.code.size /\ M = as.code.mem
        /\ L = as.label_map /\ R = as.label_refs /\ F = as.function_refs
  OBVIOUS
<1>6. Translated(S, T, P, M, L, R, F) /\ IsSeq(R) /\ IsSeq(F)
  BY <1>1, <1>5 DEF Assembling
<1>7. PICK S2, T2, P2, N, L2, R2, F2 :
        /\ S2 = starts' /\ T2 = source'.text /\ P2 = as'.code.size /\ N = as'.code.mem
        /\ L2 = as'.label_map /\ R2 = as'.label_refs /\ F2 = as'.function_refs
  OBVIOUS
<1>8. S2 = Append(S, P) /\ T2 = Append(T, l)
  BY <1>5, <1>7 DEF A!pos
<1>9. /\ P2 = P + width(l) /\ \A k \in 1..P : N[k] = M[k]
      /\ width(l) > 0 => N[P + 1] = opcode(l)
  BY <1>4, <1>5, <1>7 DEF Code
<1>10. PICK ref : ref = A!Ref(Name(l), P + A!argcount(l.op))
  OBVIOUS
<1>11. RefTo(l) = ref
  BY <1>5, <1>10, LastSame DEF RefTo, Name, A!pos
<1>12. NewLabel(l) <=> NewOf(l, L)
  BY <1>5 DEF NewLabel, NewOf
<1>13. L2 = WithLabel(l, L, P)
  <2>1. L2 = IF NewLabel(l)
             THEN [k \in DOMAIN as.label_map \cup {A!NameOf(l.args[1])} |->
                     IF k = A!NameOf(l.args[1]) THEN A!pos ELSE as.label_map[k]]
             ELSE as.label_map
    BY <1>4, <1>7, Zenon DEF Tables
  <2>2. A!pos = P /\ as.label_map = L
    BY <1>5 DEF A!pos
  <2>3. L2 = IF NewOf(l, L)
             THEN [k \in DOMAIN L \cup {A!NameOf(l.args[1])} |->
                     IF k = A!NameOf(l.args[1]) THEN P ELSE L[k]]
             ELSE L
    BY <1>12, <2>1, <2>2
  <2> QED BY <2>3, Zenon DEF WithLabel
<1>14. R2 = IF l.op = A!JMP THEN Append(R, ref) ELSE R
  BY <1>4, <1>5, <1>7, <1>11, Zenon DEF Tables
<1>15. F2 = F \/ (l.op = A!LITTOREG /\ F2 = Append(F, ref))
  <2>1. \/ as'.function_refs = as.function_refs
        \/ l.op = A!LITTOREG /\ as'.function_refs = Append(as.function_refs, RefTo(l))
    BY <1>4, Zenon DEF Tables
  <2> QED BY <1>5, <1>7, <1>11, <2>1
<1>16. Translated(S2, T2, P2, N, L2, R2, F2)
  <2>1. Translated(Append(S, P), Append(T, l), P + width(l), N, L2, R2, F2)
    BY <1>4, <1>6, <1>9, <1>10, <1>13, <1>14, <1>15, TranslatedAppend
  <2> QED BY <1>8, <1>9, <2>1
<1>17. pc' = "text"
  BY <1>2, <1>4
<1> QED BY <1>7, <1>16, <1>17 DEF Assembling

\* The data leave the text as it is.
LEMMA DataTranslated ==
  ASSUME ArraysKept, Assembling, NEW l, l.size \in Nat, A!DataLine(l), pc' # "abort",
         starts' = starts, source'.text = source.text
  PROVE  Assembling'
<1>1. AsStruct /\ Array(as.data) /\ AtEnd(as.data)
  BY DEF ArraysKept, Structs, Arrays
<1>2. /\ as'.code = as.code /\ as'.label_map = as.label_map /\ as'.label_refs = as.label_refs
      /\ as'.function_refs = as.function_refs
      /\ pc' = pc /\ obj' = obj
  BY <1>1, DataRead
<1> QED BY <1>2 DEF Assembling

\* The text has been read: the references are patched, and the object is written.
LEMMA FinishTranslated ==
  ASSUME ArraysKept, Assembling, A!Finish, pc' # "abort", UNCHANGED <<source, starts>>
  PROVE  Assembling'
<1>1. /\ AsStruct /\ Array(as.code) /\ IsSeq(as.label_refs) /\ IsSeq(as.function_refs)
  BY DEF ArraysKept, Structs, Arrays, Places
<1>2. PICK S, T, P, M, L, R, F :
        /\ S = starts /\ T = source.text /\ P = as.code.size /\ M = as.code.mem
        /\ L = as.label_map /\ R = as.label_refs /\ F = as.function_refs
  OBVIOUS
<1>3. /\ Translated(S, T, P, M, L, R, F) /\ IsSeq(R) /\ IsSeq(F)
      /\ pc \in {"functions", "done"} => R = <<>>
  BY <1>1, <1>2 DEF Assembling
<1>4. S = starts' /\ T = source'.text
  BY <1>2
<1>5. CASE A!EndData \/ A!EndText
  <2>1. as' = as /\ pc' \in {"text", "labels"}
    BY <1>5 DEF A!EndData, A!EndText
  <2> QED BY <2>1 DEF Assembling
<1>6. CASE A!PatchLabel
  <2>1. PICK p, x, c : /\ p = Head(R).insno /\ x = A!relative(L[Head(R).name], p)
                       /\ c = A!PutWord(p, x)
    OBVIOUS
  <2>2. /\ pc = "labels" /\ pc' = pc /\ R # <<>> /\ Head(R).name \in DOMAIN L
        /\ ~(L[Head(R).name] >= P)
        /\ as'.code = c /\ as'.label_refs = Tail(R) /\ as'.label_map = L /\ as'.function_refs = F
    BY <1>1, <1>2, <1>6, <2>1, LabelPatched DEF A!pos
  <2>3. /\ Head(R).insno \in Nat /\ Head(R).insno < P
        /\ \A N : (/\ \A k \in 1..P : k # Head(R).insno + 1 => N[k] = M[k]
                   /\ N[Head(R).insno + 1] = A!relative(L[Head(R).name], Head(R).insno))
                  => Translated(S, T, P, N, L, Tail(R), F)
    BY <1>3, <2>2, TranslatedLabel
  <2>4. p \in Nat /\ p < as.code.size
    BY <1>2, <2>1, <2>3
  <2>5. /\ c.size = as.code.size /\ c.mem[p + 1] = x
        /\ \A k \in 1..as.code.size : k # p + 1 => c.mem[k] = as.code.mem[k]
    <3>1. c = A!PutWord(p, x) /\ Array(as.code) /\ p \in Nat
      BY <1>1, <2>1, <2>4
    <3>2. c.size = as.code.size /\ c.mem[p + 1] = x /\ SameBut(c, as.code, p)
      BY <2>4, <3>1, Put
    <3> QED BY <3>2 DEF SameBut
  <2>6. Translated(S, T, P, c.mem, L, Tail(R), F)
    <3>1. PICK N : N = c.mem
      BY Zenon
    <3>2. /\ \A k \in 1..P : k # Head(R).insno + 1 => N[k] = M[k]
          /\ N[Head(R).insno + 1] = A!relative(L[Head(R).name], Head(R).insno)
      BY <1>2, <2>1, <2>5, <3>1, ZenonT(30)
    <3> QED BY <2>3, <3>1, <3>2
  <2>7. as'.code.size = P /\ as'.code.mem = c.mem
    BY <1>2, <2>2, <2>5
  <2> QED BY <1>4, <2>2, <2>6, <2>7 DEF Assembling
<1>7. CASE A!generate_import_table
  <2>1. /\ as.label_refs = <<>> /\ pc' = "functions"
        /\ as'.code = as.code /\ as'.label_map = as.label_map
        /\ as'.label_refs = as.label_refs /\ as'.function_refs = as.function_refs
    BY <1>1, <1>7, ImportsGenerated
  <2> QED BY <2>1 DEF Assembling
<1>8. CASE A!PatchFunction
  <2>1. PICK x : as'.code = A!PutWord(Head(F).insno, x)
    BY <1>1, <1>2, <1>8, FunctionPatched
  <2>2. PICK p, c : p = Head(F).insno /\ c = A!PutWord(p, x)
    OBVIOUS
  <2>3. /\ pc = "functions" /\ pc' = pc /\ F # <<>> /\ as'.code = c
        /\ as'.function_refs = Tail(F) /\ as'.label_map = L /\ as'.label_refs = R
    BY <1>1, <1>2, <1>8, <2>1, <2>2, FunctionPatched
  <2>4. /\ Head(F).insno \in Nat /\ Head(F).insno < P
        /\ \A N : (\A k \in 1..P : k # Head(F).insno + 1 => N[k] = M[k])
                  => Translated(S, T, P, N, L, R, Tail(F))
    BY <1>3, <2>3, TranslatedFunction
  <2>5. p \in Nat /\ p < as.code.size
    BY <1>2, <2>2, <2>4
  <2>6. /\ c.size = as.code.size
        /\ \A k \in 1..as.code.size : k # p + 1 => c.mem[k] = as.code.mem[k]
    <3>1. c = A!PutWord(p, x) /\ Array(as.code) /\ p \in Nat
      BY <1>1, <2>2, <2>5
    <3>2. c.size = as.code.size /\ c.mem[p + 1] = x /\ SameBut(c, as.code, p)
      BY <2>5, <3>1, Put
    <3> QED BY <3>2 DEF SameBut
  <2>7. Translated(S, T, P, c.mem, L, R, Tail(F))
    <3>1. PICK N : N = c.mem
      OBVIOUS
    <3>2. \A k \in 1..P : k # Head(F).insno + 1 => N[k] = M[k]
      BY <1>2, <2>2, <2>6, <3>1
    <3> QED BY <2>4, <3>1, <3>2
  <2>8. as'.code.size = P /\ as'.code.mem = c.mem /\ R = <<>>
    BY <1>2, <1>3, <2>3, <2>6
  <2> QED BY <1>4, <2>3, <2>7, <2>8 DEF Assembling
<1>9. CASE A!write_object
  <2>1. pc = "functions" /\ pc' = "done" /\ as' = as /\ obj'.code = A!Whole(as.code)
    BY <1>9, ObjectWritten
  <2>2. obj'.code = as'.code.mem
    BY <1>1, <2>1, WholeIs
  <2> QED BY <2>1, <2>2 DEF Assembling
<1> QED BY <1>5, <1>6, <1>7, <1>8, <1>9 DEF A!Finish

\* What is read is the source.
LEMMA FileKept == A!Finish => file' = file
BY DEF A!Finish, A!EndData, A!EndText, A!PatchLabel, A!generate_import_table, A!PatchFunction,
       A!write_object

LEMMA IInvStart == Init => IInv
BY ArraysStart, AssemblingStart DEF IInv, Init, A!AsmInit, NoText

LEMMA IInvStep == IInv /\ [Next]_vars => IInv'
<1> SUFFICES ASSUME IInv, [Next]_vars PROVE IInv'
  OBVIOUS
<1>1. ArraysKept'
  BY ArraysStep DEF IInv
<1>2. ArraysKept /\ (pass = 1 => source = file) /\ ((pass = 1 /\ pc # "abort") => Assembling)
  BY DEF IInv
<1>3. CASE AssembleSource
  <2>1. pass = 1 /\ pass' = pass /\ source' = file' /\ source = file /\ DOMAIN file = {"data", "text"}
    BY <1>2, <1>3 DEF AssembleSource, ArraysKept, Structs
  <2>2. ASSUME pc' # "abort" PROVE Assembling'
    <3>1. CASE \E l \in DataLines : A!DataLine(l) /\ UNCHANGED starts
      <4>1. PICK l \in DataLines : A!DataLine(l) /\ UNCHANGED starts
        BY <3>1
      <4>2. l.size \in Nat
        BY LinesAssumption
      <4>3. pc = "data" /\ file' = [file EXCEPT !.data = Append(@, l)]
        BY <4>1, ReadLine
      <4>4. source'.text = source.text
        BY <2>1, <4>3
      <4> QED BY <1>2, <2>1, <2>2, <4>1, <4>2, <4>3, <4>4, DataTranslated
    <3>2. CASE \E l \in TextLines : A!TextLine(l) /\ starts' = Append(starts, A!pos)
      <4>1. PICK l \in TextLines : A!TextLine(l) /\ starts' = Append(starts, A!pos)
        BY <3>2
      <4>2. pc = "text" /\ file' = [file EXCEPT !.text = Append(@, l)]
        BY <4>1, ReadLine
      <4>3. source'.text = Append(source.text, l)
        BY <2>1, <4>2
      <4> QED BY <1>2, <2>1, <2>2, <4>1, <4>2, <4>3, TextTranslated
    <3> QED BY <1>3, <3>1, <3>2 DEF AssembleSource
  <2> QED BY <1>1, <2>1, <2>2 DEF IInv
<1>4. CASE AssembleListing
  BY <1>1, <1>4 DEF AssembleListing, IInv
<1>5. CASE Finish
  <2>1. A!Finish /\ UNCHANGED <<pass, source, starts>> /\ file' = file
    BY <1>5, FileKept DEF Finish
  <2>2. ASSUME pass = 1, pc' # "abort" PROVE Assembling'
    <3>1. pc # "abort"
      BY <2>1 DEF A!Finish, A!EndData, A!EndText, A!PatchLabel, A!generate_import_table,
                  A!PatchFunction, A!write_object
    <3> QED BY <1>2, <2>1, <2>2, <3>1, FinishTranslated
  <2> QED BY <1>1, <1>2, <2>1, <2>2 DEF IInv
<1>6. CASE OpenObject \/ Disassemble
  <2>1. UNCHANGED <<as, pc, file, pass, source, starts>> /\ obj' = obj
    <3>1. CASE OpenObject
      BY <3>1 DEF OpenObject, D!Start
    <3>2. CASE Disassemble
      BY <1>2, <3>2, ListingArrays DEF Disassemble
    <3> QED BY <1>6, <3>1, <3>2
  <2> QED BY <1>1, <1>2, <2>1 DEF IInv, Assembling
<1>7. CASE OpenListing
  BY <1>1, <1>7 DEF OpenListing, IInv
<1>8. CASE UNCHANGED vars
  BY <1>1, <1>2, <1>8 DEF vars, IInv, Assembling
<1> QED BY <1>3, <1>4, <1>5, <1>6, <1>7, <1>8 DEF Next

\* The first definition that is found is the one the labels have.
LEMMA FirstIs ==
  ASSUME NEW T, T = source.text, T \in Seq(TextLines), NEW name, NEW k \in 1..Len(T),
         T[k].op = A!DEFINITION, Name(T[k]) = name,
         \A j \in 1..Len(T) : T[j].op = A!DEFINITION /\ Name(T[j]) = name => k <= j
  PROVE  FirstDefinition(name) = k
<1> DEFINE found == {j \in WithOperand(A!DEFINITION) : A!NameOf(OperandOf(j)) = name}
<1>1. found = {j \in 1..Len(T) : T[j].op = A!DEFINITION /\ Name(T[j]) = name}
  <2>1. DOMAIN source.text = 1..Len(T)
    BY LenProperties
  <2> QED BY <2>1 DEF WithOperand, OperandOf, Name
<1> HIDE DEF found
<1>2. k \in found /\ \A j \in found : k <= j
  BY <1>1
<1>3. \A m \in found : (\A j \in found : m <= j) => m = k
  <2>1. found \subseteq Nat
    BY <1>1
  <2>2. \A m, n \in Nat : m <= n /\ n <= m => m = n
    OBVIOUS
  <2> QED BY <1>2, <2>1, <2>2
<1>4. (CHOOSE m \in found : \A j \in found : m <= j) = k
  BY <1>2, <1>3
<1> QED BY <1>4 DEF FirstDefinition, found

LEMMA LandsThere == IInv => JumpsLand
<1> SUFFICES ASSUME IInv, assembled, NEW k \in WithOperand(A!JMP)
             PROVE  LET target == PlaceOf(k) + 1 + A!At(obj.code, PlaceOf(k))
                    IN /\ target = starts[FirstDefinition(A!NameOf(OperandOf(k)))]
                       /\ target \in A!InstructionStarts(obj.code)
  BY DEF JumpsLand
<1>1. PICK S, T, P, M, L, R, F :
        /\ S = starts /\ T = source.text /\ P = as.code.size /\ M = as.code.mem
        /\ L = as.label_map /\ R = as.label_refs /\ F = as.function_refs
  OBVIOUS
<1>2. Translated(S, T, P, M, L, R, F) /\ R = <<>> /\ obj.code = M /\ Array(as.code)
  BY <1>1 DEF IInv, assembled, Assembling, ArraysKept, Arrays
<1>3. Len(M) = P
  <2>1. as.code.mem = [i \in 1..as.code.size |-> as.code.mem[i]]
    BY <1>2 DEF Array
  <2>2. as.code.size \in Nat
    BY <1>2, SizeIs
  <2> QED BY <1>1, <2>1, <2>2, Length
<1>4. T \in Seq(TextLines) /\ LaidOut(S, T, P, M) /\ Labelled(S, T, L) /\ Jumps(S, T, R, L, P, M)
  BY <1>2 DEF Translated, Read
<1>5. k \in 1..Len(T) /\ T[k].op = A!JMP
  BY <1>1, <1>4, LenProperties DEF WithOperand
<1>6. PICK name, p : name = Name(T[k]) /\ p = Place(S, T, k)
  OBVIOUS
<1>7. name \in DOMAIN L /\ L[name] < P /\ p + 1 + M[p + 1] = L[name]
  <2>1. ~Waits(S, T, R, k)
    BY <1>2, EmptyList DEF Waits
  <2> QED BY <1>4, <1>5, <1>6, <2>1 DEF Jumps, Lands
<1>8. PICK at \in 1..Len(T) :
        /\ T[at].op = A!DEFINITION /\ Name(T[at]) = name /\ L[name] = S[at]
        /\ \A j \in 1..Len(T) : T[j].op = A!DEFINITION /\ Name(T[j]) = name => at <= j
  BY <1>4, <1>7 DEF Labelled, FirstAt
<1>9. FirstDefinition(name) = at
  BY <1>1, <1>4, <1>8, FirstIs
<1>10. S[at] \in A!InstructionStarts(M)
  BY <1>3, <1>4, <1>7, <1>8, Reached
<1>11. A!NameOf(OperandOf(k)) = name /\ PlaceOf(k) = p /\ A!At(obj.code, PlaceOf(k)) = M[p + 1]
  BY <1>1, <1>2, <1>6 DEF OperandOf, PlaceOf, Name, Place, A!At
<1> QED BY <1>1, <1>2, <1>7, <1>8, <1>9, <1>10, <1>11

\* In an object, a jump leads to the first definition of its label, before it or
\* behind it, and to the beginning of an instruction there (asm_text).
THEOREM JumpsReachLabels == Spec => []JumpsLand
BY IInvStart, IInvStep, LandsThere, PTL DEF Spec

-----------------------------------------------------------------------------
(* The growing array alone, written and positioned in any way              *)

CONSTANT Cells

VARIABLE stream

StreamInit == stream = ByteArray_open_mem

StreamNext ==
  \/ \E data \in Seq(Cells) : stream' = ByteArray_writeMem(stream, data)
  \/ \E pos \in Nat : stream' = ByteArray_set_position(stream, pos)

StreamSpec == StreamInit /\ [][StreamNext]_stream

\* The array with what it holds, whatever is allocated behind it.
File == INSTANCE GrowingFile WITH file <- Contents(stream), at <- stream.pos

Streams == [mem : Seq(Cells), capa : Nat, size : Nat, pos : Nat, inside : BOOLEAN]

StreamInv == stream \in Streams /\ StreamInside(stream)

-----------------------------------------------------------------------------
(* A write to it                                                           *)

\* What memcpy leaves, cell by cell.
LEMMA Copied ==
  ASSUME NEW mem \in Seq(Cells), NEW data \in Seq(Cells), NEW offset \in 0..Len(mem)
  PROVE  /\ memcpy(mem, offset, data) \in Seq(Cells)
         /\ Len(memcpy(mem, offset, data)) = longer(Len(mem), offset + Len(data))
         /\ memcpy(mem, offset, data)
              = SubSeq(mem, 1, offset) \o data
                \o SubSeq(mem, offset + Len(data) + 1, Len(mem))
<1> DEFINE n == longer(Len(mem), offset + Len(data))
           new == memcpy(mem, offset, data)
           before == SubSeq(mem, 1, offset)
           behind == SubSeq(mem, offset + Len(data) + 1, Len(mem))
           whole == before \o data \o behind
<1>1. Len(mem) \in Nat /\ Len(data) \in Nat /\ offset \in Nat
  BY LenProperties
<1>2. n \in Nat
  BY <1>1 DEF longer
<1>3. \A k \in 1..n : new[k] = IF k \in offset + 1..offset + Len(data)
                               THEN data[k - offset] ELSE mem[k]
  BY DEF memcpy
<1>4. \A k \in 1..n : new[k] \in Cells
  <2> SUFFICES ASSUME NEW k \in 1..n PROVE new[k] \in Cells
    OBVIOUS
  <2>1. CASE k \in offset + 1..offset + Len(data)
    <3>1. k - offset \in 1..Len(data)
      BY <1>1, <2>1
    <3>2. data[k - offset] \in Cells
      BY <3>1, ElementOfSeq
    <3> QED BY <1>3, <2>1, <3>2
  <2>2. CASE k \notin offset + 1..offset + Len(data)
    <3>1. k \in 1..Len(mem)
      BY <1>1, <2>2 DEF longer
    <3>2. mem[k] \in Cells
      BY <3>1, ElementOfSeq
    <3> QED BY <1>3, <2>2, <3>2
  <2> QED BY <2>1, <2>2
<1>5. new = [k \in 1..n |-> new[k]]
  BY DEF memcpy
<1>6. new \in Seq(Cells) /\ Len(new) = n
  BY <1>2, <1>4, <1>5, IsASeq
<1>7. /\ before \in Seq(Cells) /\ Len(before) = offset
      /\ \A k \in 1..offset : before[k] = mem[k]
  BY <1>1, SubSeqProperties
<1>8. /\ behind \in Seq(Cells)
      /\ Len(behind) = n - (offset + Len(data))
      /\ \A k \in 1..Len(behind) : behind[k] = mem[offset + Len(data) + k]
  <2>1. CASE offset + Len(data) + 1 <= Len(mem)
    BY <1>1, <2>1, SubSeqProperties DEF longer
  <2>2. CASE ~(offset + Len(data) + 1 <= Len(mem))
    BY <1>1, <2>2, SubSeqProperties DEF longer
  <2> QED BY <2>1, <2>2
<1>9. /\ before \o data \in Seq(Cells) /\ Len(before \o data) = offset + Len(data)
      /\ \A k \in 1..offset + Len(data) :
           (before \o data)[k] = IF k <= offset THEN before[k] ELSE data[k - offset]
  BY <1>1, <1>7, ConcatProperties
<1>10. /\ whole \in Seq(Cells) /\ Len(whole) = n
       /\ \A k \in 1..n : whole[k] = IF k <= offset + Len(data) THEN (before \o data)[k]
                                    ELSE behind[k - (offset + Len(data))]
  <2> HIDE DEF before, behind
  <2>1. Len(whole) = Len(before \o data) + Len(behind)
    BY <1>8, <1>9, ConcatProperties
  <2>2. Len(whole) = n
    BY <1>1, <1>2, <1>8, <1>9, <2>1
  <2>3. whole \in Seq(Cells)
    BY <1>8, <1>9, ConcatProperties
  <2>4. \A k \in 1..Len(before \o data) + Len(behind) :
           whole[k] = IF k <= Len(before \o data) THEN (before \o data)[k]
                     ELSE behind[k - Len(before \o data)]
    BY <1>8, <1>9, ConcatProperties
  <2> QED BY <1>9, <2>1, <2>2, <2>3, <2>4
<1>11. \A k \in 1..n : whole[k] = new[k]
  <2> HIDE DEF before, behind, whole, new, n
  <2> SUFFICES ASSUME NEW k \in 1..n PROVE whole[k] = new[k]
    OBVIOUS
  <2>1. CASE k <= offset
    <3>1. k \in 1..offset /\ k \in 1..offset + Len(data) /\ k \notin offset + 1..offset + Len(data)
      BY <1>1, <1>2, <2>1
    <3> QED BY <1>3, <1>7, <1>9, <1>10, <2>1, <3>1
  <2>2. CASE k > offset /\ k <= offset + Len(data)
    <3>1. k \in 1..offset + Len(data) /\ k \in offset + 1..offset + Len(data) /\ ~(k <= offset)
      BY <1>1, <1>2, <2>2
    <3> QED BY <1>3, <1>9, <1>10, <2>2, <3>1
  <2>3. CASE k > offset + Len(data)
    <3> DEFINE j == k - (offset + Len(data))
    <3>1. j \in 1..Len(behind) /\ offset + Len(data) + j = k
      BY <1>1, <1>2, <1>8, <2>3
    <3>2. k \notin offset + 1..offset + Len(data) /\ ~(k <= offset + Len(data))
      BY <1>1, <1>2, <2>3
    <3>3. behind[j] = mem[k]
      BY <1>8, <3>1
    <3> QED BY <1>3, <1>10, <3>2, <3>3
  <2> QED BY <1>1, <1>2, <2>1, <2>2, <2>3
<1>12. whole = new
  <2> HIDE DEF whole, new, n
  <2> QED BY <1>6, <1>10, <1>11, SeqEqual
<1> QED BY <1>6, <1>12

-----------------------------------------------------------------------------
(* Its invariant                                                           *)

LEMMA StreamStarts == StreamInit => StreamInv
<1>1. <<>> \in Seq(Cells) /\ Len(<<>>) = 0
  OBVIOUS
<1> QED BY <1>1 DEF StreamInit, StreamInv, Streams, StreamInside, ByteArray_open_mem

LEMMA WriteStays ==
  ASSUME StreamInv, NEW data \in Seq(Cells), stream' = ByteArray_writeMem(stream, data)
  PROVE  StreamInv'
<1> DEFINE needed == stream.pos + Len(data)
           grown == mem_grow_if_needed(stream.capa, needed)
           mem == memcpy(stream.mem, stream.pos, data)
<1>1. /\ stream.mem \in Seq(Cells) /\ stream.capa \in Nat /\ stream.size \in Nat /\ stream.pos \in Nat
      /\ stream.inside /\ Len(stream.mem) <= stream.capa /\ stream.size = Len(stream.mem) /\ stream.pos <= stream.size
  BY DEF StreamInv, Streams, StreamInside
<1>2. needed \in Nat
  BY <1>1, LenProperties
<1>3. grown \in Nat /\ needed <= grown /\ stream.capa <= grown
  <2>1. grown = A!mem_grow_if_needed(stream.capa, needed)
    BY DEF mem_grow_if_needed, A!mem_grow_if_needed, pages, A!pages, round_up, A!round_up
  <2> QED BY <1>1, <1>2, <2>1, GrowsEnough
<1>4. mem \in Seq(Cells) /\ Len(mem) = longer(stream.size, needed)
  <2>1. stream.pos \in 0..Len(stream.mem)
    BY <1>1
  <2>2. /\ memcpy(stream.mem, stream.pos, data) \in Seq(Cells)
        /\ Len(memcpy(stream.mem, stream.pos, data)) = longer(Len(stream.mem), stream.pos + Len(data))
    <3> HIDE DEF grown, mem, needed
    <3> QED BY <1>1, <2>1, Copied
  <2> QED BY <1>1, <2>2
<1> HIDE DEF grown, mem
<1>5. stream' = [mem |-> mem, capa |-> grown, size |-> longer(stream.size, needed),
             pos |-> needed, inside |-> stream.inside /\ needed <= grown]
  BY DEF ByteArray_writeMem, grown, mem
<1> HIDE DEF needed
<1>6. /\ stream'.mem = mem /\ stream'.capa = grown /\ stream'.size = longer(stream.size, needed)
      /\ stream'.pos = needed /\ stream'.inside = (stream.inside /\ needed <= grown)
  BY <1>5
<1>7. longer(stream.size, needed) \in Nat /\ longer(stream.size, needed) <= grown
      /\ needed <= longer(stream.size, needed)
  BY <1>1, <1>2, <1>3 DEF longer
<1>8. (stream.inside /\ needed <= grown) = TRUE
  BY <1>1, <1>3
<1>9. stream' \in Streams
  BY <1>2, <1>3, <1>4, <1>5, <1>7, <1>8 DEF Streams
<1>10. StreamInside(stream)'
  BY <1>3, <1>4, <1>6, <1>7, <1>8 DEF StreamInside
<1> QED BY <1>9, <1>10 DEF StreamInv

LEMMA SeekStays ==
  ASSUME StreamInv, NEW pos \in Nat, stream' = ByteArray_set_position(stream, pos)
  PROVE  StreamInv'
<1>1. CASE pos > stream.size
  BY <1>1 DEF StreamInv, ByteArray_set_position
<1>2. CASE ~(pos > stream.size)
  <2>1. stream' = [stream EXCEPT !.pos = pos]
    BY <1>2 DEF ByteArray_set_position
  <2> QED BY <1>2, <2>1 DEF StreamInv, Streams, StreamInside
<1> QED BY <1>1, <1>2

LEMMA StepStays == StreamInv /\ [StreamNext]_stream => StreamInv'
<1> SUFFICES ASSUME StreamInv, [StreamNext]_stream PROVE StreamInv'
  OBVIOUS
<1>1. CASE \E data \in Seq(Cells) : stream' = ByteArray_writeMem(stream, data)
  BY <1>1, WriteStays
<1>2. CASE \E pos \in Nat : stream' = ByteArray_set_position(stream, pos)
  BY <1>2, SeekStays
<1>3. CASE UNCHANGED stream
  BY <1>3 DEF StreamInv
<1> QED BY <1>1, <1>2, <1>3 DEF StreamNext

\* Whatever is written where, no write passes the block and the two lengths of
\* the array agree (mem_write, ByteArray_writeMem).
THEOREM StreamNeverPasses == StreamSpec => []StreamInside(stream)
<1>1. StreamInv => StreamInside(stream)
  BY DEF StreamInv
<1> QED BY <1>1, StreamStarts, StepStays, PTL DEF StreamSpec

\* ByteArray_get_mem hands out the whole of an array that holds something: the
\* assertions of write_object hold.
THEOREM WholeIsHandedOut == StreamInv /\ stream.size > 0 => has_mem(stream, 0, stream.size)
BY LenProperties DEF StreamInv, Streams, StreamInside, has_mem

-----------------------------------------------------------------------------
(* It implements a file                                                    *)

LEMMA ContentsAreMem ==
  ASSUME NEW b \in Streams, StreamInside(b)
  PROVE  Contents(b) = b.mem
<1>1. b.mem \in Seq(Cells) /\ b.size = Len(b.mem) /\ b.size \in Nat
  BY DEF Streams, StreamInside
<1>2. \A k \in 1..b.size : b.mem[k] \in Cells
  BY <1>1, ElementOfSeq
<1>3. Contents(b) \in Seq(Cells) /\ Len(Contents(b)) = b.size
  BY <1>1, <1>2, IsASeq DEF Contents
<1>4. \A k \in 1..Len(b.mem) : Contents(b)[k] = b.mem[k]
  BY <1>1 DEF Contents
<1> QED BY <1>1, <1>3, <1>4, SeqEqual

LEMMA StepIsFileStep ==
  StreamInv /\ StreamInv' /\ [StreamNext]_stream => [File!FileNext]_<<Contents(stream), stream.pos>>
<1> SUFFICES ASSUME StreamInv, StreamInv', [StreamNext]_stream
             PROVE  [File!FileNext]_<<Contents(stream), stream.pos>>
  OBVIOUS
<1>1. Contents(stream) = stream.mem /\ Contents(stream)' = stream'.mem
  <2>1. Contents(stream) = stream.mem
    BY ContentsAreMem DEF StreamInv
  <2>2. Contents(stream') = stream'.mem
    BY ContentsAreMem DEF StreamInv
  <2>3. Contents(stream)' = Contents(stream')
    BY DEF Contents
  <2> QED BY <2>1, <2>2, <2>3
<1>2. stream.mem \in Seq(Cells) /\ stream.size = Len(stream.mem) /\ stream.pos \in 0..Len(stream.mem)
  BY DEF StreamInv, Streams, StreamInside
<1>3. CASE \E data \in Seq(Cells) : stream' = ByteArray_writeMem(stream, data)
  <2>1. PICK data \in Seq(Cells) : stream' = ByteArray_writeMem(stream, data)
    BY <1>3
  <2>2. stream'.mem = memcpy(stream.mem, stream.pos, data) /\ stream'.pos = stream.pos + Len(data)
    BY <2>1 DEF ByteArray_writeMem
  <2>3. stream'.mem = SubSeq(stream.mem, 1, stream.pos) \o data
                  \o SubSeq(stream.mem, stream.pos + Len(data) + 1, Len(stream.mem))
    BY <1>2, <2>2, Copied
  <2>4. File!WriteAt(data)
    BY <1>1, <2>2, <2>3 DEF File!WriteAt
  <2> QED BY <2>4 DEF File!FileNext
<1>4. CASE \E pos \in Nat : stream' = ByteArray_set_position(stream, pos)
  <2>1. PICK pos \in Nat : stream' = ByteArray_set_position(stream, pos)
    BY <1>4
  <2>2. CASE pos > stream.size
    <3>1. stream' = stream
      BY <2>1, <2>2 DEF ByteArray_set_position
    <3> QED BY <1>1, <3>1
  <2>3. CASE ~(pos > stream.size)
    <3>1. stream' = [stream EXCEPT !.pos = pos]
      BY <2>1, <2>3 DEF ByteArray_set_position
    <3>2. stream'.mem = stream.mem /\ stream'.pos = pos
      BY <3>1 DEF StreamInv, Streams
    <3>3. pos <= Len(stream.mem)
      BY <1>2, <2>3, LenProperties
    <3>4. File!SeekTo(pos)
      BY <1>1, <3>2, <3>3 DEF File!SeekTo
    <3> QED BY <3>4 DEF File!FileNext
  <2> QED BY <2>2, <2>3
<1>5. CASE UNCHANGED stream
  BY <1>1, <1>5
<1> QED BY <1>3, <1>4, <1>5 DEF StreamNext

\* A growing array is a file in memory: allocation and the two lengths do not show
\* (ByteArray_writeMem, ByteArray_set_position).
THEOREM StreamImplementsFile == StreamSpec => File!FileSpec
<1>1. StreamInit => File!FileInit
  <2>1. Contents(ByteArray_open_mem) = <<>>
    BY DEF Contents, ByteArray_open_mem
  <2> QED BY <2>1 DEF StreamInit, ByteArray_open_mem, File!FileInit
<1> QED BY <1>1, StreamStarts, StepStays, StepIsFileStep, PTL DEF StreamSpec, File!FileSpec
=============================================================================
