---------------------------- MODULE AgsSimProofs ----------------------------
(***************************************************************************)
(* In a session that agssim copes with, whatever its lines and commands,   *)
(* what runs is the program that was typed.  The invariant says what the   *)
(* text holds, how its instructions follow each other, where operands may  *)
(* wait for a label and where the two pointers of the machine stand.       *)
(***************************************************************************)
EXTENDS AgsSim, SequenceTheorems, WellFoundedInduction, TLAPS

Opcodes == {RET, LITTOREG, CALL, PUSHREG, POPREG, JMP, CALLEXT, LINENUM}

Words == [v : Int, bp : BOOLEAN, once : BOOLEAN]

\* Where an instruction begins, or the program ends.
Targets == starts \cup {ltext}

Machine == [mem : [0..capa-1 -> Words], EIP : Nat, SP : Int, AX : Words,
            vm_return : {0, 1}, lost : BOOLEAN]

Types ==
  /\ vm \in Machine
  /\ capa \in Nat /\ ltext \in Nat /\ base \in Nat /\ lstack \in {0, StackWords}
  /\ prog \in Seq(Int)
  /\ pc \in {"input", "run", "exit"}

\* The memory without the stack is whole pages, the text with room for an
\* instruction behind it; nothing runs, and nothing is marked, without a stack.
Room ==
  /\ \E k \in Nat : capa - lstack = k * Page
  /\ ltext + 5 <= capa - lstack
  /\ capa + StackWords - lstack <= MaxMem
  /\ ready => base = capa - lstack
  /\ ~ready => bps = {} /\ pc = "input" /\ vm.SP = -1

\* The text is the program, with a NULL instruction behind it.
Text(c) ==
  /\ \A w \in 0..ltext-1 : c.mem[w].v = prog[w + 1]
  /\ c.mem[ltext].v = 0

\* An instruction ends where another or the program does; a jump leads to one,
\* or waits for its label.
InstructionAt(a) ==
  /\ prog[a + 1] \in Opcodes /\ a + 1 + argcount(prog[a + 1]) <= ltext
  /\ IF prog[a + 1] = JMP THEN prog[a + 2] \in Targets \cup {Unresolved}
     ELSE a + 1 + argcount(prog[a + 1]) \in Targets

Program ==
  /\ ltext = Len(prog)
  /\ starts \subseteq 0..ltext-1
  /\ \A a \in starts : InstructionAt(a)
  /\ 0 \in Targets

References ==
  /\ label_refs \subseteq [name : Labels, off : Nat]
  /\ \A l \in DOMAIN label_map : label_map[l] \in Targets
  /\ \A r \in label_refs : r.off < ltext /\ r.name \notin DOMAIN label_map
  /\ {w \in 0..ltext-1 : prog[w + 1] = Unresolved} = {r.off : r \in label_refs}
  /\ \A r, q \in label_refs : r.off = q.off => r = q

\* The instruction pointer is at an instruction; the stack pointer is where
\* reset left it or at a word of the stack behind the arguments.
Pointers(c) ==
  /\ c.EIP \in Targets
  /\ \/ c.SP = -1
     \/ /\ c.SP % 4 = 0
        /\ StackStart <= c.SP /\ c.SP < 4 * capa

Marked == bps \subseteq starts /\ \A b \in bps : vm.mem[b].bp

Good == Types /\ Room /\ Program /\ References /\ Text(vm) /\ Pointers(vm) /\ Marked

\* What the sessions of agssim keep: the misuses are those it does not cope with.
IInv == misuse = {} => Good

-----------------------------------------------------------------------------
(* Pages                                                                   *)

\* Rounding up gives whole pages, no more than any pages that hold the number.
LEMMA AlignUp ==
  ASSUME NEW x \in Nat
  PROVE  /\ ALIGN(x) \in Nat /\ x <= ALIGN(x)
         /\ \E k \in Nat : ALIGN(x) = k * Page
         /\ \A k \in Nat : x <= k * Page => ALIGN(x) <= k * Page
<1> DEFINE q == (x + Page - 1) \div Page
<1>1. Page \in Nat \ {0}
  BY SizesAssumption
<1>2. q \in Nat /\ x + Page - 1 < Page * q + Page /\ Page * q <= x + Page - 1
  <2>1. \A a \in Nat, d \in Nat \ {0} :
          a \div d \in Nat /\ a < d * (a \div d) + d /\ d * (a \div d) <= a
    OBVIOUS
  <2>2. x + Page - 1 \in Nat
    BY <1>1
  <2> QED BY <1>1, <2>1, <2>2
<1>3. ALIGN(x) = q * Page
  BY DEF ALIGN
<1> HIDE DEF q
<1>4. q * Page = Page * q /\ q * Page \in Nat
  BY <1>1, <1>2
<1>5. ASSUME NEW k \in Nat, x <= k * Page PROVE q * Page <= k * Page
  <2>1. CASE q <= k
    <3>1. PICK d \in Nat : k = q + d
      <4>1. k - q \in Nat /\ k = q + (k - q)
        BY <1>2, <2>1
      <4> QED BY <4>1
    <3>2. k * Page = q * Page + d * Page /\ d * Page \in Nat
      BY <1>1, <1>2, <3>1
    <3> QED BY <1>4, <3>2
  <2>2. CASE k + 1 <= q
    <3>1. PICK d \in Nat : q = k + 1 + d
      <4>1. q - (k + 1) \in Nat /\ q = k + 1 + (q - (k + 1))
        BY <1>2, <2>2
      <4> QED BY <4>1
    <3>2. q * Page = k * Page + Page + d * Page /\ d * Page \in Nat /\ k * Page \in Nat
      BY <1>1, <1>2, <3>1
    <3> QED BY <1>1, <1>2, <1>4, <1>5, <3>2
  <2> QED BY <1>2, <2>1, <2>2
<1> QED BY <1>1, <1>2, <1>3, <1>4, <1>5

-----------------------------------------------------------------------------
(* Lines                                                                   *)

\* Induction for a set of numbers.
LEMMA Induction ==
  ASSUME NEW S \in SUBSET Nat, 0 \in S, \A n \in S : n + 1 \in S
  PROVE  S = Nat
<1> DEFINE R == OpToRel(<, Nat)
           Rest == Nat \ S
<1>1. IsWellFoundedOn(R, Nat)
  BY NatLessThanWellFounded
<1>2. ASSUME Rest # {} PROVE FALSE
  <2>1. PICK x \in Rest : \A y \in Rest : ~ (<<y, x>> \in R)
    <3> HIDE DEF R
    <3> QED BY <1>1, <1>2, WFMin
  <2>2. x \in Nat /\ x # 0 /\ x - 1 \in Nat /\ (x - 1) + 1 = x
    OBVIOUS
  <2>3. x - 1 \in Rest
    BY <2>2
  <2>4. ~(x - 1 < x)
    <3>1. ~ (<<x - 1, x>> \in R)
      BY <2>1, <2>3
    <3> QED BY <2>2, <3>1 DEF OpToRel
  <2> QED BY <2>2, <2>4
<1> QED BY <1>2

NoParts == [ok |-> TRUE, capa |-> capa, mem |-> vm.mem, ltext |-> ltext, prog |-> prog]

\* The function that lists what there is after each part exists for k parts.
PartsListed(parts, k) ==
  \E g : g = [n \in 0..k |-> IF n = 0 THEN NoParts ELSE Append1(g[n - 1], parts[n])]

LEMMA AppendsExist ==
  ASSUME NEW parts, NEW k \in Nat
  PROVE  PartsListed(parts, k)
<1>1. PartsListed(parts, 0)
  <2> DEFINE g == [n \in 0..0 |-> NoParts]
  <2>1. g = [n \in 0..0 |-> IF n = 0 THEN NoParts ELSE Append1(g[n - 1], parts[n])]
    OBVIOUS
  <2> QED BY <2>1 DEF PartsListed
<1>2. ASSUME NEW j \in Nat, PartsListed(parts, j) PROVE PartsListed(parts, j + 1)
  <2>1. PICK h : h = [n \in 0..j |-> IF n = 0 THEN NoParts ELSE Append1(h[n - 1], parts[n])]
    BY <1>2 DEF PartsListed
  <2> DEFINE g == [n \in 0..j + 1 |-> IF n = j + 1 THEN Append1(h[j], parts[j + 1]) ELSE h[n]]
  <2>2. ASSUME NEW n \in 0..j + 1
        PROVE  g[n] = IF n = 0 THEN NoParts ELSE Append1(g[n - 1], parts[n])
    <3>1. CASE n = j + 1
      <4>1. g[n] = Append1(h[j], parts[j + 1]) /\ n - 1 = j /\ n # 0
        BY <3>1
      <4>2. g[n - 1] = h[j]
        BY <3>1
      <4> QED BY <3>1, <4>1, <4>2
    <3>2. CASE n # j + 1
      <4>1. n \in 0..j /\ g[n] = h[n]
        BY <3>2
      <4>2. h[n] = IF n = 0 THEN NoParts ELSE Append1(h[n - 1], parts[n])
        BY <2>1, <4>1
      <4>3. n # 0 => g[n - 1] = h[n - 1]
        BY <4>1
      <4> HIDE DEF g
      <4> QED BY <4>1, <4>2, <4>3
    <3> QED BY <3>1, <3>2
  <2>3. g = [n \in 0..j + 1 |-> g[n]]
    OBVIOUS
  <2> HIDE DEF g
  <2>4. [n \in 0..j + 1 |-> g[n]]
          = [n \in 0..j + 1 |-> IF n = 0 THEN NoParts ELSE Append1(g[n - 1], parts[n])]
    BY <2>2
  <2> QED BY <2>3, <2>4 DEF PartsListed
<1> DEFINE Listed == {j \in Nat : PartsListed(parts, j)}
<1>3. Listed = Nat
  <2>1. 0 \in Listed /\ \A j \in Listed : j + 1 \in Listed
    BY <1>1, <1>2
  <2> HIDE DEF Listed
  <2>2. Listed \in SUBSET Nat
    BY DEF Listed
  <2> QED BY <2>1, <2>2, Induction
<1> QED BY <1>3

\* What there is before the first part of a line, and after one more.
LEMMA AppendsDef ==
  ASSUME NEW parts, Len(parts) \in Nat
  PROVE  /\ Appends(parts)[0] = NoParts
         /\ \A n \in 1..Len(parts) :
              Appends(parts)[n] = Append1(Appends(parts)[n - 1], parts[n])
<1>1. PartsListed(parts, Len(parts))
  BY AppendsExist
<1>2. Appends(parts) = [n \in 0..Len(parts) |->
        IF n = 0 THEN NoParts ELSE Append1(Appends(parts)[n - 1], parts[n])]
  BY <1>1 DEF PartsListed, Appends, NoParts
<1> QED BY <1>2

\* Size, memory and program as they are between the parts of a line.
Kept(size, m, p) ==
  /\ size \in Nat /\ m \in [0..size-1 -> Words] /\ p \in Seq(Int)
  /\ \E k \in Nat : size - lstack = k * Page
  /\ Len(p) + 5 <= size - lstack
  /\ ready => size = capa
  /\ \A w \in 0..Len(p)-1 : m[w].v = p[w + 1]
  /\ m[Len(p)].v = 0
  /\ ltext <= Len(p)
  /\ \A w \in 0..ltext-1 : m[w] = vm.mem[w] /\ p[w + 1] = prog[w + 1]

Buffer(s) == s.ltext = Len(s.prog) /\ Kept(s.capa, s.mem, s.prog)

LEMMA StackSize == StackWords \in Nat /\ StackWords > 0 /\ EnvWords \in Nat /\ Page \in Nat \ {0}
BY SizesAssumption

\* A larger block begins with what was there.
LEMMA Reallocated ==
  ASSUME NEW n \in Nat, NEW m \in [0..n-1 -> Words], NEW size \in Nat, n <= size
  PROVE  /\ realloc(m, size) \in [0..size-1 -> Words]
         /\ \A w \in 0..n-1 : realloc(m, size)[w] = m[w]
<1>1. Plain(Garbage) \in Words
  BY DEF Plain, Words, Garbage
<1>2. \A w \in 0..n-1 : w \in 0..size-1
  OBVIOUS
<1> QED BY <1>1, <1>2 DEF realloc

\* The words are where they were appended, a NULL instruction behind them, and
\* what was in front is as it was.
LEMMA Appended ==
  ASSUME NEW size \in Nat, NEW m \in [0..size-1 -> Words], NEW at \in Nat,
         NEW code \in Seq(Int), at + Len(code) < size
  PROVE  /\ appended(m, at, code) \in [0..size-1 -> Words]
         /\ \A w \in 0..at-1 : appended(m, at, code)[w] = m[w]
         /\ \A i \in 1..Len(code) : appended(m, at, code)[at + i - 1] = Plain(code[i])
         /\ appended(m, at, code)[at + Len(code)] = Plain(0)
<1>1. Len(code) \in Nat
  BY LenProperties
<1> DEFINE word(w) == IF w \in at..(at + Len(code) - 1) THEN Plain(code[w - at + 1])
                      ELSE IF w = at + Len(code) THEN Plain(0) ELSE m[w]
<1>2. appended(m, at, code) = [w \in 0..size-1 |-> word(w)]
  BY DEF appended
<1>3. \A n \in Int : Plain(n) \in Words
  BY DEF Plain, Words
<1>4. ASSUME NEW w \in 0..size-1 PROVE word(w) \in Words
  <2>1. CASE w \in at..(at + Len(code) - 1)
    <3>1. w - at + 1 \in 1..Len(code)
      BY <1>1, <2>1
    <3>2. code[w - at + 1] \in Int
      BY <3>1, ElementOfSeq
    <3> QED BY <1>3, <2>1, <3>2
  <2>2. CASE w \notin at..(at + Len(code) - 1)
    BY <1>3, <2>2
  <2> QED BY <2>1, <2>2
<1>5. \A w \in 0..at-1 : w \in 0..size-1 /\ word(w) = m[w]
  BY <1>1
<1>6. ASSUME NEW i \in 1..Len(code)
      PROVE  at + i - 1 \in 0..size-1 /\ word(at + i - 1) = Plain(code[i])
  <2>1. at + i - 1 \in at..(at + Len(code) - 1) /\ (at + i - 1) - at + 1 = i
    BY <1>1
  <2> QED BY <1>1, <2>1
<1>7. at + Len(code) \in 0..size-1 /\ word(at + Len(code)) = Plain(0)
  BY <1>1
<1> HIDE DEF word
<1> QED BY <1>2, <1>4, <1>5, <1>6, <1>7

\* Words that are appended leave what was there.
LEMMA AppendKeeps ==
  ASSUME Types, NEW n, NEW m, NEW p, Kept(n, m, p), NEW code \in Seq(Int),
         NEW size \in Nat, n <= size, Len(p) + Len(code) + 5 <= size - lstack,
         \E k \in Nat : size - lstack = k * Page,
         ready => size = capa
  PROVE  Kept(size, appended(realloc(m, size), Len(p), code), p \o code)
<1> DEFINE old == realloc(m, size)
           new == appended(old, Len(p), code)
           q == p \o code
<1>1. n \in Nat /\ m \in [0..n-1 -> Words] /\ p \in Seq(Int)
  BY DEF Kept
<1>2. /\ Len(code) \in Nat /\ Len(p) \in Nat /\ lstack \in Nat /\ ltext \in Nat
      /\ ltext <= Len(p) /\ Len(p) <= n
  BY <1>1, LenProperties, StackSize DEF Kept, Types
<1>3. /\ old \in [0..size-1 -> Words]
      /\ \A w \in 0..n-1 : old[w] = m[w]
  BY <1>1, Reallocated
<1> HIDE DEF old
<1>4. /\ new \in [0..size-1 -> Words]
      /\ \A w \in 0..Len(p)-1 : new[w] = old[w]
      /\ \A i \in 1..Len(code) : new[Len(p) + i - 1] = Plain(code[i])
      /\ new[Len(p) + Len(code)] = Plain(0)
  <2>1. Len(p) + Len(code) < size
    BY <1>2
  <2> QED BY <1>2, <1>3, <2>1, Appended
<1> HIDE DEF new
<1>5. /\ q \in Seq(Int) /\ Len(q) = Len(p) + Len(code)
      /\ \A i \in 1..Len(p) + Len(code) :
           q[i] = IF i <= Len(p) THEN p[i] ELSE code[i - Len(p)]
  BY <1>1, ConcatProperties
<1> HIDE DEF q
<1>6. ASSUME NEW w \in 0..Len(p)-1
      PROVE  new[w] = m[w] /\ q[w + 1] = p[w + 1] /\ m[w].v = p[w + 1]
  <2>1. w \in 0..n-1 /\ w + 1 \in 1..Len(p) + Len(code) /\ w + 1 <= Len(p)
    BY <1>1, <1>2
  <2>2. m[w].v = p[w + 1]
    BY DEF Kept
  <2>3. new[w] = m[w]
    BY <1>3, <1>4, <2>1
  <2>4. q[w + 1] = p[w + 1]
    BY <1>5, <2>1
  <2> QED BY <2>2, <2>3, <2>4
<1>7. ASSUME NEW w \in 0..Len(q)-1 PROVE new[w].v = q[w + 1]
  <2>1. CASE w < Len(p)
    <3>1. w \in 0..Len(p)-1
      BY <1>2, <2>1
    <3> QED BY <1>6, <3>1
  <2>0. w \in Nat /\ w + 1 <= Len(p) + Len(code)
    BY <1>2, <1>5
  <2>2. CASE Len(p) <= w
    <3>1. /\ w + 1 - Len(p) \in 1..Len(code) /\ w = Len(p) + (w + 1 - Len(p)) - 1
          /\ w + 1 \in 1..Len(p) + Len(code) /\ ~(w + 1 <= Len(p))
      BY <1>2, <2>0, <2>2
    <3>2. new[w] = Plain(code[w + 1 - Len(p)])
      BY <1>4, <3>1
    <3>3. q[w + 1] = code[w + 1 - Len(p)]
      BY <1>5, <3>1
    <3> QED BY <3>2, <3>3 DEF Plain
  <2> QED BY <1>2, <2>0, <2>1, <2>2
<1>8. new[Len(q)].v = 0
  BY <1>4, <1>5 DEF Plain
<1>9. ASSUME NEW w \in 0..ltext-1 PROVE new[w] = vm.mem[w] /\ q[w + 1] = prog[w + 1]
  <2>1. w \in 0..Len(p)-1
    BY <1>2
  <2>2. m[w] = vm.mem[w] /\ p[w + 1] = prog[w + 1]
    BY DEF Kept
  <2> QED BY <1>6, <2>1, <2>2
<1>10. Len(q) + 5 <= size - lstack /\ ltext <= Len(q)
  BY <1>2, <1>5
<1>11. Kept(size, new, q)
  BY <1>4, <1>5, <1>7, <1>8, <1>9, <1>10 DEF Kept
<1> QED BY <1>11 DEF new, old, q

\* A part that reaches append_code leaves what was there and puts its words
\* behind it.
LEMMA AppendOne ==
  ASSUME Types, NEW s, Buffer(s), NEW code \in Seq(Int), Append1(s, code).ok
  PROVE  /\ s.ok /\ Buffer(Append1(s, code))
         /\ Append1(s, code).prog = s.prog \o code
         /\ Append1(s, code).ltext = s.ltext + Len(code)
<1> DEFINE need == s.ltext + Len(code) + 1 + 4
           size == IF need <= s.capa - lstack THEN s.capa ELSE ALIGN(need)
           t == [ok |-> TRUE, capa |-> size,
                 mem |-> appended(realloc(s.mem, size), s.ltext, code),
                 ltext |-> s.ltext + Len(code), prog |-> s.prog \o code]
<1>1. Append1(s, code) = t /\ s.ok /\ (need <= s.capa - lstack \/ ~(lstack > 0))
  <2>1. CASE ~s.ok \/ (~(need <= s.capa - lstack) /\ lstack > 0)
    <3>1. Append1(s, code) = [s EXCEPT !.ok = FALSE]
      BY <2>1 DEF Append1
    <3>2. ~[s EXCEPT !.ok = FALSE].ok
      OBVIOUS
    <3> QED BY <3>1, <3>2
  <2>2. CASE ~(~s.ok \/ (~(need <= s.capa - lstack) /\ lstack > 0))
    BY <2>2 DEF Append1
  <2> QED BY <2>1, <2>2
<1>2. /\ s.prog \in Seq(Int) /\ s.ltext = Len(s.prog) /\ s.capa \in Nat
      /\ \E k \in Nat : s.capa - lstack = k * Page
      /\ ready => s.capa = capa
  BY DEF Buffer, Kept
<1>3. /\ Len(code) \in Nat /\ s.ltext \in Nat /\ lstack \in Nat /\ need \in Nat
  BY <1>2, LenProperties, StackSize DEF Types
<1>4. /\ size \in Nat /\ need <= size - lstack /\ s.capa <= size
      /\ \E k \in Nat : size - lstack = k * Page
      /\ ready => size = capa
  <2>1. CASE need <= s.capa - lstack
    BY <1>2, <1>3, <2>1
  <2>2. CASE ~(need <= s.capa - lstack)
    <3>1. lstack = 0 /\ size = ALIGN(need)
      BY <1>1, <1>3, <2>2
    <3>2. size \in Nat /\ need <= size /\ \E k \in Nat : size = k * Page
      BY <1>3, <3>1, AlignUp
    <3> HIDE DEF size
    <3> QED BY <1>2, <1>3, <2>2, <3>1, <3>2 DEF ready
  <2> QED BY <2>1, <2>2
<1> HIDE DEF size
<1>5. Kept(size, appended(realloc(s.mem, size), Len(s.prog), code), s.prog \o code)
  <2>1. Len(s.prog) + Len(code) + 5 <= size - lstack
    BY <1>2, <1>3, <1>4
  <2>2. Kept(s.capa, s.mem, s.prog)
    BY DEF Buffer
  <2> HIDE DEF need, t
  <2> QED BY <1>4, <2>1, <2>2, AppendKeeps
<1>6. Len(s.prog \o code) = s.ltext + Len(code)
  BY <1>2, ConcatProperties
<1> QED BY <1>1, <1>2, <1>5, <1>6 DEF Buffer

\* When the last part of a line is there, all of them are.
LEMMA LineFits ==
  ASSUME Good, NEW parts \in Seq(Seq(Int)), Appends(parts)[Len(parts)].ok
  PROVE  /\ Appends(parts)[0] = NoParts
         /\ \A n \in 0..Len(parts) : Buffer(Appends(parts)[n])
         /\ \A n \in 1..Len(parts) :
              /\ Appends(parts)[n].prog = Appends(parts)[n - 1].prog \o parts[n]
              /\ Appends(parts)[n].ltext = Appends(parts)[n - 1].ltext + Len(parts[n])
<1> DEFINE N == Len(parts)
           A == Appends(parts)
<1>1. N \in Nat
  BY LenProperties
<1>2. /\ A[0] = NoParts
      /\ \A n \in 1..N : A[n] = Append1(A[n - 1], parts[n])
  BY <1>1, AppendsDef
<1>3. \A n \in 1..N : parts[n] \in Seq(Int)
  BY ElementOfSeq
<1> HIDE DEF A
<1>4. ASSUME NEW n \in 1..N, A[n].ok PROVE A[n - 1].ok
  <2>1. ASSUME ~A[n - 1].ok PROVE FALSE
    <3>1. A[n] = [A[n - 1] EXCEPT !.ok = FALSE]
      BY <1>2, <2>1 DEF Append1
    <3>2. ~[A[n - 1] EXCEPT !.ok = FALSE].ok
      OBVIOUS
    <3> QED BY <1>4, <3>1, <3>2
  <2> QED BY <2>1
<1>5. \A n \in 0..N : A[n].ok
  <2> DEFINE S == {d \in Nat : d <= N => A[N - d].ok}
  <2>1. 0 \in S
    BY <1>1 DEF A
  <2>2. ASSUME NEW d \in S PROVE d + 1 \in S
    <3>1. CASE d + 1 <= N
      <4>1. d \in Nat /\ N - d \in 1..N /\ N - (d + 1) = (N - d) - 1
        BY <1>1, <3>1
      <4>2. A[N - d].ok
        BY <3>1, <4>1
      <4> QED BY <1>4, <4>1, <4>2
    <3> QED BY <3>1
  <2>3. S = Nat
    <3> HIDE DEF S
    <3>1. S \in SUBSET Nat
      BY DEF S
    <3> QED BY <2>1, <2>2, <3>1, Induction
  <2>4. ASSUME NEW n \in 0..N PROVE A[n].ok
    <3>1. N - n \in Nat /\ N - n <= N /\ N - (N - n) = n
      BY <1>1
    <3> QED BY <2>3, <3>1
  <2> QED BY <2>4
<1>6. Buffer(A[0])
  <2>1. Kept(capa, vm.mem, prog)
    BY DEF Good, Types, Room, Program, Text, Machine, Kept
  <2> QED BY <1>2, <2>1 DEF NoParts, Buffer, Good, Program
<1>7. ASSUME NEW n \in 1..N, Buffer(A[n - 1])
      PROVE  /\ Buffer(A[n]) /\ A[n].prog = A[n - 1].prog \o parts[n]
             /\ A[n].ltext = A[n - 1].ltext + Len(parts[n])
  <2>1. A[n] = Append1(A[n - 1], parts[n]) /\ A[n].ok
    BY <1>1, <1>2, <1>5
  <2>2. parts[n] \in Seq(Int) /\ Types /\ Buffer(A[n - 1])
    BY <1>3, <1>7 DEF Good
  <2>3. Append1(A[n - 1], parts[n]).ok
    BY <2>1
  <2>4. /\ Buffer(Append1(A[n - 1], parts[n]))
        /\ Append1(A[n - 1], parts[n]).prog = A[n - 1].prog \o parts[n]
        /\ Append1(A[n - 1], parts[n]).ltext = A[n - 1].ltext + Len(parts[n])
    BY <2>2, <2>3, AppendOne
  <2> QED BY <2>1, <2>4
<1>8. \A n \in 0..N : Buffer(A[n])
  <2> DEFINE S == {n \in Nat : n <= N => Buffer(A[n])}
  <2>1. 0 \in S
    BY <1>6
  <2>2. ASSUME NEW n \in S PROVE n + 1 \in S
    <3>1. CASE n + 1 <= N
      <4>1. n \in Nat /\ n + 1 \in 1..N /\ (n + 1) - 1 = n
        BY <1>1, <3>1
      <4>2. Buffer(A[n])
        BY <1>1, <3>1, <4>1
      <4>3. Buffer(A[(n + 1) - 1])
        BY <4>1, <4>2
      <4>4. Buffer(A[n + 1])
        BY <1>7, <4>1, <4>3
      <4> QED BY <4>1, <4>4
    <3> QED BY <3>1
  <2>3. S = Nat
    <3> HIDE DEF S
    <3>1. S \in SUBSET Nat
      BY DEF S
    <3> QED BY <2>1, <2>2, <3>1, Induction
  <2> QED BY <1>1, <2>3
<1>9. \A n \in 1..N : n - 1 \in 0..N
  BY <1>1
<1> QED BY <1>2, <1>7, <1>8, <1>9 DEF A

\* What a line that fits leaves as it was, whatever its parts are.
LEMMA LineStep ==
  ASSUME Good, ReadLine, NEW parts \in Seq(Seq(Int)), NEW at, 0 \in at,
         Enter(parts, at), misuse' = {}
  PROVE  /\ Appends(parts)[Len(parts)].ok
         /\ Types' /\ Room' /\ Text(vm)' /\ Pointers(vm)' /\ Marked'
         /\ ltext' = Len(prog') /\ ltext <= ltext' /\ Targets \subseteq Targets'
         /\ \A i \in 1..ltext : prog'[i] = prog[i]
         /\ prog' = Appends(parts)[Len(parts)].prog
         /\ starts' = starts \cup {ltext + a : a \in {a \in at : ltext + a < ltext'}}
<1>1. PICK s : s = Appends(parts)[Len(parts)]
  OBVIOUS
<1>2. /\ s.capa + StackWords - lstack <= MaxMem
      /\ vm' = [vm EXCEPT !.mem = s.mem]
      /\ ltext' = s.ltext /\ capa' = s.capa /\ prog' = s.prog
      /\ starts' = starts \cup {ltext + a : a \in {a \in at : ltext + a < s.ltext}}
      /\ s.ok
  BY <1>1 DEF Enter
<1>3. s.ltext = Len(s.prog) /\ Kept(s.capa, s.mem, s.prog)
  <2>1. Appends(parts)[Len(parts)].ok /\ Len(parts) \in 0..Len(parts)
    BY <1>1, <1>2, LenProperties
  <2>2. Buffer(Appends(parts)[Len(parts)])
    BY <2>1, LineFits
  <2> QED BY <1>1, <2>2 DEF Buffer
<1>4. /\ ltext \in Nat /\ ltext' \in Nat /\ ltext <= ltext' /\ capa \in Nat /\ capa' \in Nat
      /\ lstack \in Nat
  BY <1>2, <1>3, LenProperties, StackSize DEF Kept, Good, Types
<1>5. UNCHANGED <<pc, bps, lstack, base>> /\ pc = "input"
  BY DEF ReadLine
<1>6. /\ vm \in Machine /\ vm'.mem = s.mem /\ vm'.EIP = vm.EIP /\ vm'.SP = vm.SP
      /\ vm' \in Machine'
  <2>1. vm \in Machine
    BY DEF Good, Types
  <2>2. s.mem \in [0..capa'-1 -> Words]
    BY <1>2, <1>3 DEF Kept
  <2> QED BY <1>2, <2>1, <2>2 DEF Machine, Words
<1>7. Types'
  BY <1>2, <1>3, <1>4, <1>5, <1>6 DEF Good, Types, Kept
<1>8. Room'
  BY <1>2, <1>3, <1>5, <1>6 DEF Good, Room, Kept, ready
<1>9. Text(vm)'
  BY <1>2, <1>3, <1>6 DEF Text, Kept
<1>10. Targets \subseteq Targets'
  <2>1. ltext \in Targets'
    <3>1. CASE ltext < ltext'
      <4>1. ltext + 0 \in {ltext + a : a \in {a \in at : ltext + a < s.ltext}}
        BY <1>2, <1>4, <3>1
      <4> QED BY <1>2, <1>4, <4>1 DEF Targets
    <3>2. CASE ltext = ltext'
      BY <3>2 DEF Targets
    <3> QED BY <1>4, <3>1, <3>2
  <2> QED BY <1>2, <2>1 DEF Targets
<1>11. Pointers(vm)'
  <2>1. CASE ready
    <3>1. capa' = capa
      BY <1>2, <1>3, <2>1 DEF Kept
    <3> QED BY <1>5, <1>6, <1>10, <3>1 DEF Good, Pointers, StackStart
  <2>2. CASE ~ready
    <3>1. vm'.SP = -1
      BY <1>6, <2>2 DEF Good, Room
    <3> QED BY <1>6, <1>10, <3>1 DEF Good, Pointers
  <2> QED BY <2>1, <2>2
<1>12. Marked'
  <2>1. bps \subseteq starts /\ starts \subseteq 0..ltext-1 /\ \A b \in bps : vm.mem[b].bp
    BY DEF Good, Marked, Program
  <2>2. \A w \in 0..ltext-1 : s.mem[w] = vm.mem[w]
    BY <1>3 DEF Kept
  <2> QED BY <1>2, <1>5, <1>6, <2>1, <2>2 DEF Marked
<1>13. \A i \in 1..ltext : prog'[i] = prog[i]
  <2> SUFFICES ASSUME NEW i \in 1..ltext PROVE prog'[i] = prog[i]
    OBVIOUS
  <2>1. i - 1 \in 0..ltext-1 /\ (i - 1) + 1 = i
    BY <1>4
  <2>2. s.prog[(i - 1) + 1] = prog[(i - 1) + 1]
    BY <1>3, <2>1 DEF Kept
  <2> QED BY <1>2, <2>1, <2>2
<1> QED BY <1>1, <1>2, <1>3, <1>4, <1>7, <1>8, <1>9, <1>10, <1>11, <1>12, <1>13

LEMMA Counts ==
  /\ argcount(RET) = 0 /\ argcount(LITTOREG) = 2 /\ argcount(0) = 0
  /\ \A op \in {CALL, PUSHREG, POPREG, JMP, CALLEXT, LINENUM} : argcount(op) = 1
  /\ \A op \in Opcodes : op \in 1..SCMD_MAX-1
BY DEF argcount, Opcodes, RET, LITTOREG, CALL, PUSHREG, POPREG, JMP, CALLEXT, LINENUM, SCMD_MAX

\* A program that only grows, by instructions, stays one.
LEMMA ProgramGrows ==
  ASSUME Good, Targets \subseteq Targets', ltext' = Len(prog'), ltext' \in Nat, ltext <= ltext',
         \A i \in 1..ltext : prog'[i] = prog[i],
         NEW new \in SUBSET (0..ltext'-1), starts' = starts \cup new,
         \A a \in new : InstructionAt(a)'
  PROVE  Program'
<1>1. ltext \in Nat /\ starts \subseteq 0..ltext-1 /\ \A a \in starts : InstructionAt(a)
  BY DEF Good, Types, Program
<1>2. ASSUME NEW a \in starts PROVE InstructionAt(a)'
  <2>1. a + 1 \in 1..ltext /\ a \in Nat
    BY <1>1
  <2>2. prog'[a + 1] = prog[a + 1]
    BY <2>1
  <2>3. argcount(prog[a + 1]) \in 0..2 /\ (prog[a + 1] = JMP => argcount(prog[a + 1]) = 1)
    <3>1. prog[a + 1] \in Opcodes
      BY <1>1 DEF InstructionAt
    <3> QED BY <3>1, Counts DEF Opcodes
  <2>4. prog[a + 1] = JMP => prog'[a + 2] = prog[a + 2]
    <3>1. ASSUME prog[a + 1] = JMP PROVE a + 2 \in 1..ltext
      <4>1. a + 1 + argcount(prog[a + 1]) <= ltext
        BY <1>1 DEF InstructionAt
      <4> QED BY <1>1, <2>1, <2>3, <3>1, <4>1
    <3> QED BY <3>1
  <2>5. a + 1 + argcount(prog[a + 1]) <= ltext'
    <3>1. a + 1 + argcount(prog[a + 1]) <= ltext
      BY <1>1 DEF InstructionAt
    <3> QED BY <1>1, <2>1, <2>3, <3>1
  <2> QED BY <1>1, <2>2, <2>4, <2>5 DEF InstructionAt
<1>3. starts' \subseteq 0..ltext'-1 /\ 0 \in Targets'
  BY <1>1 DEF Good, Program
<1> QED BY <1>2, <1>3 DEF Program

\* The operands that wait stay on the list, and those of the line join them.
LEMMA ReferencesGrow ==
  ASSUME Good, Targets \subseteq Targets', ltext' \in Nat, ltext <= ltext',
         \A i \in 1..ltext : prog'[i] = prog[i],
         label_map' = label_map,
         NEW new \in SUBSET [name : Labels, off : Nat], label_refs' = label_refs \cup new,
         \A r \in new : r.name \notin DOMAIN label_map,
         \A r, q \in new : r.off = q.off => r = q,
         {w \in ltext..ltext'-1 : prog'[w + 1] = Unresolved} = {r.off : r \in new}
  PROVE  References'
<1>1. ltext \in Nat /\ References
  BY DEF Good, Types
<1>2. \A r \in new : r.off < ltext' /\ ltext <= r.off
  <2> SUFFICES ASSUME NEW r \in new PROVE r.off < ltext' /\ ltext <= r.off
    OBVIOUS
  <2>1. r.off \in {w \in ltext..ltext'-1 : prog'[w + 1] = Unresolved}
    OBVIOUS
  <2> QED BY <1>1, <2>1
<1>3. \A r \in label_refs' : r.off < ltext' /\ r.name \notin DOMAIN label_map'
  <2>1. \A r \in label_refs : r.off \in Nat /\ r.off < ltext /\ r.name \notin DOMAIN label_map
    BY <1>1 DEF References
  <2> QED BY <1>1, <1>2, <2>1
<1>4. {w \in 0..ltext'-1 : prog'[w + 1] = Unresolved} = {r.off : r \in label_refs'}
  <2>1. {w \in 0..ltext-1 : prog[w + 1] = Unresolved} = {r.off : r \in label_refs}
    BY <1>1 DEF References
  <2>2. \A w \in 0..ltext-1 : prog'[w + 1] = prog[w + 1]
    BY <1>1
  <2>3. \A w : w \in 0..ltext'-1 <=> w \in 0..ltext-1 \/ w \in ltext..ltext'-1
    BY <1>1
  <2>4. {r.off : r \in label_refs'} = {r.off : r \in label_refs} \cup {r.off : r \in new}
    OBVIOUS
  <2>5. {w \in 0..ltext'-1 : prog'[w + 1] = Unresolved}
          = {w \in 0..ltext-1 : prog[w + 1] = Unresolved}
            \cup {w \in ltext..ltext'-1 : prog'[w + 1] = Unresolved}
    BY <2>2, <2>3
  <2> QED BY <2>1, <2>4, <2>5
<1>5. \A l \in DOMAIN label_map' : label_map'[l] \in Targets'
  BY <1>1 DEF References
<1>6. \A r, q \in label_refs' : r.off = q.off => r = q
  <2>1. \A r \in label_refs, q \in new : r.off # q.off
    <3>1. \A r \in label_refs : r.off \in Nat /\ r.off < ltext
      BY <1>1 DEF References
    <3> QED BY <1>1, <1>2, <3>1
  <2>2. \A r, q \in label_refs : r.off = q.off => r = q
    BY <1>1 DEF References
  <2> QED BY <2>1, <2>2
<1> QED BY <1>1, <1>3, <1>4, <1>5, <1>6 DEF References

\* A line of one instruction.
LEMMA OneInstruction ==
  ASSUME Good, ReadLine, NEW code \in Seq(Int), Enter(<<code>>, {0}), misuse' = {},
         code[1] \in Opcodes, Len(code) = 1 + argcount(code[1]),
         code[1] = JMP => code[2] \in Targets \cup {Unresolved}
  PROVE  /\ Types' /\ Room' /\ Text(vm)' /\ Pointers(vm)' /\ Marked' /\ Program'
         /\ Targets \subseteq Targets' /\ ltext' = ltext + Len(code)
         /\ \A i \in 1..ltext : prog'[i] = prog[i]
         /\ \A i \in 1..Len(code) : prog'[ltext + i] = code[i]
<1> DEFINE parts == <<code>>
           A == Appends(parts)
<1>1. parts \in Seq(Seq(Int)) /\ Len(parts) = 1 /\ parts[1] = code
  OBVIOUS
<1>2. 0 \in {0} /\ Enter(parts, {0})
  OBVIOUS
<1> HIDE DEF parts
<1>3. /\ A[1].ok /\ prog' = A[1].prog
      /\ Types' /\ Room' /\ Text(vm)' /\ Pointers(vm)' /\ Marked'
      /\ ltext' = Len(prog') /\ ltext <= ltext' /\ Targets \subseteq Targets'
      /\ \A i \in 1..ltext : prog'[i] = prog[i]
      /\ starts' = starts \cup {ltext + a : a \in {a \in {0} : ltext + a < ltext'}}
  BY <1>1, <1>2, LineStep
<1>4. A[0] = NoParts /\ A[1].prog = A[0].prog \o code
  <2>1. 1 \in 1..Len(parts) /\ 1 - 1 = 0
    BY <1>1
  <2> QED BY <1>1, <1>3, <2>1, LineFits
<1> HIDE DEF A
<1>5. prog' = prog \o code
  BY <1>3, <1>4 DEF NoParts
<1>6. /\ prog \in Seq(Int) /\ ltext = Len(prog) /\ ltext \in Nat /\ Len(code) \in Nat \ {0}
      /\ code[1] \in 1..SCMD_MAX-1 /\ argcount(code[1]) \in 0..2
  BY Counts DEF Good, Types, Program, Opcodes
<1>7. ltext' = ltext + Len(code)
  BY <1>3, <1>5, <1>6, ConcatProperties
<1>8. \A i \in 1..Len(code) : prog'[ltext + i] = code[i]
  <2> SUFFICES ASSUME NEW i \in 1..Len(code) PROVE prog'[ltext + i] = code[i]
    OBVIOUS
  <2>1. ltext + i \in 1..(Len(prog) + Len(code)) /\ ~(ltext + i <= Len(prog))
        /\ (ltext + i) - Len(prog) = i
    BY <1>6
  <2> QED BY <1>5, <1>6, <2>1, ConcatProperties
<1>9. PICK at : at = ltext
  OBVIOUS
<1>10. InstructionAt(at)'
  <2>1. prog'[at + 1] = code[1]
    BY <1>6, <1>8, <1>9
  <2>2. at + 1 + argcount(code[1]) = ltext' /\ at + 1 + argcount(code[1]) <= ltext'
    BY <1>6, <1>7, <1>9
  <2>3. code[1] = JMP => prog'[at + 2] = code[2]
    <3>1. code[1] = JMP => 2 \in 1..Len(code)
      BY Counts
    <3> QED BY <1>8, <1>9, <3>1
  <2>4. ltext' \in Targets'
    BY DEF Targets
  <2> QED BY <1>3, <2>1, <2>2, <2>3, <2>4 DEF InstructionAt
<1>11. Program'
  <2>1. starts' = starts \cup {at}
    BY <1>3, <1>6, <1>7, <1>9
  <2>2. ltext' \in Nat /\ {at} \in SUBSET (0..ltext'-1)
    BY <1>6, <1>7, <1>9
  <2>3. \A a \in {at} : InstructionAt(a)'
    BY <1>10
  <2> QED BY <1>3, <2>1, <2>2, <2>3, ProgramGrows
<1> QED BY <1>3, <1>7, <1>8, <1>11

LEMMA TargetsNat ==
  ASSUME Good
  PROVE  /\ ltext \in Nat /\ Targets \subseteq 0..ltext /\ capa \in Nat /\ ltext + 5 <= capa
         /\ lstack \in Nat
<1>1. ltext \in Nat /\ starts \subseteq 0..ltext-1
  BY DEF Good, Types, Program
<1>2. capa \in Nat /\ lstack \in Nat /\ ltext + 5 <= capa - lstack
  BY StackSize DEF Good, Types, Room
<1> QED BY <1>1, <1>2 DEF Targets

\* Of a line of one instruction, the operands without an address.
LEMMA Waiting ==
  ASSUME Good, NEW code \in Seq(Int), ltext' = ltext + Len(code),
         \A i \in 1..Len(code) : prog'[ltext + i] = code[i]
  PROVE  {w \in ltext..ltext'-1 : prog'[w + 1] = Unresolved}
           = {ltext + i - 1 : i \in {i \in 1..Len(code) : code[i] = Unresolved}}
<1>1. ltext \in Nat /\ Len(code) \in Nat
  BY TargetsNat, LenProperties
<1>2. ASSUME NEW w \in ltext..ltext'-1, prog'[w + 1] = Unresolved
      PROVE  \E i \in 1..Len(code) : code[i] = Unresolved /\ w = ltext + i - 1
  <2>1. w - ltext + 1 \in 1..Len(code) /\ ltext + (w - ltext + 1) = w + 1
        /\ w = ltext + (w - ltext + 1) - 1
    BY <1>1
  <2>2. code[w - ltext + 1] = Unresolved
    BY <1>2, <2>1
  <2> QED BY <2>1, <2>2
<1>3. ASSUME NEW i \in 1..Len(code), code[i] = Unresolved
      PROVE  ltext + i - 1 \in ltext..ltext'-1 /\ prog'[(ltext + i - 1) + 1] = Unresolved
  <2>1. (ltext + i - 1) + 1 = ltext + i
    BY <1>1
  <2> QED BY <1>1, <1>3, <2>1
<1> DEFINE There == {w \in ltext..ltext'-1 : prog'[w + 1] = Unresolved}
           Here == {ltext + i - 1 : i \in {i \in 1..Len(code) : code[i] = Unresolved}}
<1>4. There \subseteq Here
  BY <1>2
<1>5. Here \subseteq There
  BY <1>3
<1> QED BY <1>4, <1>5

LEMMA InstructionStep ==
  ASSUME Good, Instruction, misuse' = {}
  PROVE  Good'
<1>1. PICK code \in {<<LINENUM, 1>>, <<PUSHREG, AR_AX>>, <<POPREG, AR_AX>>,
                     <<CALL, AR_AX>>, <<RET>>, <<CALLEXT, AR_AX>>} :
        Enter(<<code>>, {0})
  BY DEF Instruction
<1>2. ReadLine /\ UNCHANGED <<label_map, label_refs>>
  BY DEF Instruction
<1>3. /\ code \in Seq(Int) /\ code[1] \in Opcodes /\ Len(code) = 1 + argcount(code[1])
      /\ code[1] # JMP /\ \A i \in 1..Len(code) : code[i] # Unresolved
  <2>1. CASE code = <<RET>>
    BY <2>1, Counts DEF Opcodes, RET, JMP, Unresolved
  <2>2. ASSUME NEW op \in {LINENUM, PUSHREG, POPREG, CALL, CALLEXT}, NEW n \in {1, AR_AX},
               code = <<op, n>>
        PROVE  <1>3!:
    <3>1. argcount(op) = 1 /\ op \in Opcodes /\ op \in Nat /\ op # JMP /\ n \in Nat
      BY Counts DEF Opcodes, LINENUM, PUSHREG, POPREG, CALL, CALLEXT, JMP, AR_AX
    <3>2. code \in Seq(Int) /\ Len(code) = 2 /\ code[1] = op /\ code[2] = n
      BY <2>2, <3>1
    <3>3. \A i \in 1..Len(code) : code[i] \in Nat
      BY <3>1, <3>2
    <3> QED BY <3>1, <3>2, <3>3 DEF Unresolved
  <2> QED BY <2>1, <2>2
<1>4. /\ Types' /\ Room' /\ Text(vm)' /\ Pointers(vm)' /\ Marked' /\ Program'
      /\ Targets \subseteq Targets' /\ ltext' = ltext + Len(code)
      /\ \A i \in 1..ltext : prog'[i] = prog[i]
      /\ \A i \in 1..Len(code) : prog'[ltext + i] = code[i]
  BY <1>1, <1>2, <1>3, OneInstruction
<1>5. {w \in ltext..ltext'-1 : prog'[w + 1] = Unresolved} = {r.off : r \in {}}
  <2>1. {i \in 1..Len(code) : code[i] = Unresolved} = {}
    BY <1>3
  <2>2. {w \in ltext..ltext'-1 : prog'[w + 1] = Unresolved}
          = {ltext + i - 1 : i \in {i \in 1..Len(code) : code[i] = Unresolved}}
    BY <1>3, <1>4, Waiting
  <2>3. {w \in ltext..ltext'-1 : prog'[w + 1] = Unresolved} = {ltext + i - 1 : i \in {}}
    BY <2>1, <2>2
  <2> QED BY <2>3
<1>6. ltext' \in Nat /\ ltext <= ltext'
  BY <1>3, <1>4, TargetsNat, LenProperties
<1>7. References'
  <2>1. {} \in SUBSET [name : Labels, off : Nat] /\ label_refs' = label_refs \cup {}
    BY <1>2
  <2> QED BY <1>2, <1>4, <1>5, <1>6, <2>1, ReferencesGrow
<1> QED BY <1>4, <1>7 DEF Good

LEMMA LabelInstructionStep ==
  ASSUME Good, NEW l \in Labels, LabelInstruction(l), misuse' = {}
  PROVE  Good'
<1> DEFINE known == l \in DOMAIN label_map
           x == IF known THEN label_map[l] ELSE Unresolved
<1>1. PICK head \in {<<JMP>>, <<LITTOREG, AR_AX>>} :
        /\ Enter(<<Append(head, x)>>, {0})
        /\ label_refs' = IF known THEN label_refs
                         ELSE label_refs \cup {[name |-> l, off |-> ltext + Len(head)]}
  BY DEF LabelInstruction
<1>2. ReadLine /\ label_map' = label_map
  BY DEF LabelInstruction
<1> DEFINE code == Append(head, x)
           new == IF known THEN {} ELSE {[name |-> l, off |-> ltext + Len(head)]}
<1>3. x \in Targets \cup {Unresolved} /\ x \in Int /\ (x = Unresolved <=> ~known)
  BY TargetsNat DEF Good, References, Unresolved
<1> HIDE DEF x
<1>4. /\ head \in Seq(Int) /\ Len(head) \in Nat
      /\ \A i \in 1..Len(head) : head[i] \in Nat
      /\ head[1] \in {JMP, LITTOREG} /\ Len(head) = argcount(head[1])
      /\ Len(head) >= 1 /\ (head[1] = JMP => Len(head) = 1)
  <2>1. CASE head = <<JMP>>
    BY <2>1, Counts DEF JMP
  <2>2. CASE head = <<LITTOREG, AR_AX>>
    BY <2>2, Counts DEF JMP, LITTOREG, AR_AX
  <2> QED BY <1>1, <2>1, <2>2
<1>5. /\ code \in Seq(Int) /\ Len(code) = Len(head) + 1
      /\ \A i \in 1..Len(head) : code[i] = head[i]
      /\ code[Len(head) + 1] = x
  BY <1>3, <1>4
<1> HIDE DEF code
<1>6. /\ code[1] \in Opcodes /\ Len(code) = 1 + argcount(code[1])
      /\ (code[1] = JMP => code[2] \in Targets \cup {Unresolved})
  <2>1. code[1] = head[1]
    BY <1>4, <1>5
  <2>2. code[1] = JMP => code[2] = x
    BY <1>4, <1>5, <2>1
  <2> QED BY <1>3, <1>4, <1>5, <2>1, <2>2 DEF Opcodes
<1>7. Enter(<<code>>, {0})
  BY <1>1 DEF code
<1>8. /\ Types' /\ Room' /\ Text(vm)' /\ Pointers(vm)' /\ Marked' /\ Program'
      /\ Targets \subseteq Targets' /\ ltext' = ltext + Len(code)
      /\ \A i \in 1..ltext : prog'[i] = prog[i]
      /\ \A i \in 1..Len(code) : prog'[ltext + i] = code[i]
  BY <1>2, <1>5, <1>6, <1>7, OneInstruction
<1>9. {w \in ltext..ltext'-1 : prog'[w + 1] = Unresolved} = {r.off : r \in new}
  <2>1. {i \in 1..Len(code) : code[i] = Unresolved} = IF known THEN {} ELSE {Len(code)}
    <3>1. \A i \in 1..Len(head) : code[i] # Unresolved
      BY <1>4, <1>5 DEF Unresolved
    <3>2. \A i \in 1..Len(code) : i \in 1..Len(head) \/ i = Len(head) + 1
      BY <1>4, <1>5
    <3> QED BY <1>3, <1>4, <1>5, <3>1, <3>2
  <2>2. {ltext + i - 1 : i \in {i \in 1..Len(code) : code[i] = Unresolved}} = {r.off : r \in new}
    <3>1. CASE known
      BY <2>1, <3>1
    <3>2. CASE ~known
      <4>1. ltext + Len(code) - 1 = ltext + Len(head)
        BY <1>4, <1>5, TargetsNat
      <4> QED BY <2>1, <3>2, <4>1
    <3> QED BY <3>1, <3>2
  <2> QED BY <1>5, <1>8, <2>2, Waiting
<1>10. ltext' \in Nat /\ ltext <= ltext'
  <2>1. Len(code) \in Nat /\ ltext \in Nat /\ ltext' = ltext + Len(code)
    BY <1>5, <1>8, TargetsNat, LenProperties
  <2> QED BY <2>1
<1>11. References'
  <2>1. new \in SUBSET [name : Labels, off : Nat]
    BY <1>4, TargetsNat
  <2>2. label_refs' = label_refs \cup new
    BY <1>1
  <2>3. /\ \A r \in new : r.name \notin DOMAIN label_map
        /\ \A r, q \in new : r.off = q.off => r = q
    OBVIOUS
  <2> HIDE DEF new
  <2> QED BY <1>2, <1>8, <1>9, <1>10, <2>1, <2>2, <2>3, ReferencesGrow
<1> QED BY <1>8, <1>11 DEF Good

\* A string: while its words are appended, the jump in front of them stands.
LEMMA StringStep ==
  ASSUME Good, NEW n \in Nat \ {0}, StringInstruction(n), misuse' = {}
  PROVE  Good'
<1> DEFINE first == <<JMP, ltext + 2 + n>>
           middle == [k \in 1..n |-> <<Garbage>>]
           last == <<LITTOREG, AR_AX, ltext + 2>>
           parts == <<first>> \o middle \o <<last>>
           A == Appends(parts)
<1>1. ReadLine /\ Enter(parts, {0, 2 + n}) /\ UNCHANGED <<label_map, label_refs>>
  BY DEF StringInstruction
<1>2. /\ ltext \in Nat /\ prog \in Seq(Int) /\ Len(prog) = ltext
  BY TargetsNat DEF Good, Types, Program
<1>3. /\ parts \in Seq(Seq(Int)) /\ Len(parts) = n + 2
      /\ parts[1] = first /\ parts[n + 2] = last
      /\ \A k \in 1..n : parts[k + 1] = <<Garbage>>
  <2>1. first \in Seq(Int) /\ last \in Seq(Int) /\ <<Garbage>> \in Seq(Int)
    BY <1>2 DEF JMP, LITTOREG, AR_AX, Garbage
  <2> HIDE DEF first, last
  <2>2. middle \in Seq(Seq(Int)) /\ Len(middle) = n /\ \A k \in 1..n : middle[k] = <<Garbage>>
    BY <2>1, IsASeq
  <2> HIDE DEF middle
  <2>3. /\ <<first>> \in Seq(Seq(Int)) /\ Len(<<first>>) = 1 /\ <<first>>[1] = first
        /\ <<last>> \in Seq(Seq(Int)) /\ Len(<<last>>) = 1 /\ <<last>>[1] = last
    BY <2>1
  <2> DEFINE front == <<first>> \o middle
  <2>4. /\ front \in Seq(Seq(Int)) /\ Len(front) = n + 1
        /\ \A i \in 1..n + 1 : front[i] = IF i <= 1 THEN <<first>>[i] ELSE middle[i - 1]
    BY <2>2, <2>3, ConcatProperties
  <2>5. parts = front \o <<last>>
    OBVIOUS
  <2> HIDE DEF front, parts
  <2>6. /\ parts \in Seq(Seq(Int)) /\ Len(parts) = n + 2
        /\ \A i \in 1..n + 2 : parts[i] = IF i <= n + 1 THEN front[i] ELSE <<last>>[i - (n + 1)]
    BY <2>3, <2>4, <2>5, ConcatProperties
  <2>7. parts[1] = first
    BY <2>3, <2>4, <2>6
  <2>8. parts[n + 2] = last
    BY <2>3, <2>6
  <2>9. ASSUME NEW k \in 1..n PROVE parts[k + 1] = <<Garbage>>
    <3>1. k + 1 \in 1..n + 2 /\ k + 1 <= n + 1 /\ k + 1 \in 1..n + 1 /\ ~(k + 1 <= 1)
          /\ (k + 1) - 1 = k
      OBVIOUS
    <3> QED BY <2>2, <2>4, <2>6, <3>1
  <2> QED BY <2>6, <2>7, <2>8, <2>9
<1> HIDE DEF parts
<1>4. /\ A[n + 2].ok /\ prog' = A[n + 2].prog
      /\ Types' /\ Room' /\ Text(vm)' /\ Pointers(vm)' /\ Marked'
      /\ ltext' = Len(prog') /\ ltext <= ltext' /\ Targets \subseteq Targets'
      /\ \A i \in 1..ltext : prog'[i] = prog[i]
      /\ starts' = starts \cup {ltext + a : a \in {a \in {0, 2 + n} : ltext + a < ltext'}}
  <2>1. 0 \in {0, 2 + n}
    OBVIOUS
  <2> QED BY <1>1, <1>3, <2>1, LineStep
<1>5. /\ A[0] = NoParts
      /\ \A k \in 0..n + 2 : Buffer(A[k])
      /\ \A k \in 1..n + 2 : A[k].prog = A[k - 1].prog \o parts[k]
  BY <1>3, <1>4, LineFits
<1> HIDE DEF A
<1>6. \A k \in 0..n + 2 : A[k].prog \in Seq(Int)
  BY <1>5 DEF Buffer, Kept
<1> DEFINE Jumps(p, k) ==
             /\ Len(p) = ltext + 2 + k
             /\ p[ltext + 1] = JMP /\ p[ltext + 2] = ltext + 2 + n
             /\ \A i \in ltext + 3..ltext + 2 + k : p[i] = Garbage
<1>7. Jumps(A[1].prog, 0)
  <2>1. A[1].prog = prog \o first
    <3>1. 1 \in 1..n + 2 /\ 1 - 1 = 0
      OBVIOUS
    <3>2. A[1].prog = A[0].prog \o parts[1]
      BY <1>5, <3>1
    <3>3. A[0].prog = prog
      BY <1>5 DEF NoParts
    <3> HIDE DEF first
    <3> QED BY <1>3, <3>2, <3>3
  <2>2. first \in Seq(Int) /\ Len(first) = 2 /\ first[1] = JMP /\ first[2] = ltext + 2 + n
    BY <1>2 DEF JMP
  <2> HIDE DEF first
  <2>3. /\ Len(prog \o first) = ltext + 2
        /\ \A i \in 1..ltext + 2 :
             (prog \o first)[i] = IF i <= ltext THEN prog[i] ELSE first[i - ltext]
    <3>1. /\ Len(prog \o first) = Len(prog) + Len(first)
          /\ \A i \in 1..Len(prog) + Len(first) :
               (prog \o first)[i] = IF i <= Len(prog) THEN prog[i] ELSE first[i - Len(prog)]
      BY <1>2, <2>2, ConcatProperties
    <3> QED BY <1>2, <2>2, <3>1
  <2>4. (prog \o first)[ltext + 1] = first[1] /\ (prog \o first)[ltext + 2] = first[2]
    <3>1. (ltext + 1) - ltext = 1 /\ (ltext + 2) - ltext = 2
      BY <1>2
    <3> QED BY <1>2, <2>3, <3>1
  <2> QED BY <1>2, <2>1, <2>2, <2>3, <2>4
<1>8. ASSUME NEW k \in 1..n, Jumps(A[k].prog, k - 1) PROVE Jumps(A[k + 1].prog, k)
  <2>1. PICK p : p = A[k].prog
    OBVIOUS
  <2>2. A[k + 1].prog = p \o <<Garbage>>
    <3>1. k + 1 \in 1..n + 2 /\ (k + 1) - 1 = k
      OBVIOUS
    <3> QED BY <1>3, <1>5, <2>1, <3>1
  <2>3. p \in Seq(Int) /\ Len(p) = ltext + 1 + k /\ Jumps(p, k - 1)
    <3>1. k \in 0..n + 2 /\ ltext + 2 + (k - 1) = ltext + 1 + k
      BY <1>2
    <3> QED BY <1>6, <1>8, <2>1, <3>1
  <2>4. <<Garbage>> \in Seq(Int) /\ Len(<<Garbage>>) = 1 /\ <<Garbage>>[1] = Garbage
    BY DEF Garbage
  <2> DEFINE q == p \o <<Garbage>>
  <2>5. /\ Len(q) = ltext + 2 + k
        /\ \A i \in 1..ltext + 2 + k :
             q[i] = IF i <= ltext + 1 + k THEN p[i] ELSE <<Garbage>>[i - (ltext + 1 + k)]
    <3>1. Len(p) + 1 = ltext + 2 + k
      BY <1>2, <2>3
    <3>2. /\ Len(q) = Len(p) + Len(<<Garbage>>)
          /\ \A i \in 1..Len(p) + Len(<<Garbage>>) :
               q[i] = IF i <= Len(p) THEN p[i] ELSE <<Garbage>>[i - Len(p)]
      BY <2>3, <2>4, ConcatProperties
    <3> HIDE DEF q
    <3> QED BY <2>3, <2>4, <3>1, <3>2
  <2> HIDE DEF q
  <2>6. q[ltext + 1] = JMP /\ q[ltext + 2] = ltext + 2 + n
    <3>1. /\ ltext + 1 \in 1..ltext + 2 + k /\ ltext + 1 <= ltext + 1 + k
          /\ ltext + 2 \in 1..ltext + 2 + k /\ ltext + 2 <= ltext + 1 + k
      BY <1>2
    <3> QED BY <2>3, <2>5, <3>1
  <2>7. ASSUME NEW i \in ltext + 3..ltext + 2 + k PROVE q[i] = Garbage
    <3>0. i \in 1..ltext + 2 + k /\ i \in Nat
      BY <1>2
    <3>1. CASE i <= ltext + 1 + k
      <4>1. i \in ltext + 3..ltext + 2 + (k - 1)
        BY <1>2, <3>1
      <4>2. p[i] = Garbage
        BY <2>3, <4>1
      <4> QED BY <2>5, <3>0, <3>1, <4>2
    <3>2. CASE ~(i <= ltext + 1 + k)
      <4>1. i - (ltext + 1 + k) = 1
        BY <1>2, <3>0, <3>2
      <4> QED BY <2>4, <2>5, <3>0, <3>2, <4>1
    <3> QED BY <3>1, <3>2
  <2> QED BY <2>2, <2>5, <2>6, <2>7 DEF q
<1>9. Jumps(A[n + 1].prog, n)
  <2> DEFINE S == {k \in Nat : k <= n => Jumps(A[k + 1].prog, k)}
  <2> HIDE DEF Jumps
  <2>1. 0 \in S
    BY <1>7
  <2>2. ASSUME NEW k \in S PROVE k + 1 \in S
    <3>1. CASE k + 1 <= n
      <4>1. k + 1 \in 1..n /\ (k + 1) - 1 = k /\ k <= n
        BY <3>1
      <4>2. Jumps(A[k + 1].prog, (k + 1) - 1)
        BY <4>1
      <4>3. Jumps(A[(k + 1) + 1].prog, k + 1)
        BY <1>8, <4>1, <4>2
      <4> QED BY <4>3
    <3> QED BY <3>1
  <2>3. S = Nat
    <3> HIDE DEF S
    <3>1. S \in SUBSET Nat
      BY DEF S
    <3> QED BY <2>1, <2>2, <3>1, Induction
  <2> QED BY <2>3
<1>10. PICK p, at : p = A[n + 1].prog /\ at = ltext
  OBVIOUS
<1>11. /\ p \in Seq(Int) /\ Jumps(p, n) /\ prog' = p \o last
  <2>1. n + 1 \in 0..n + 2 /\ n + 2 \in 1..n + 2 /\ (n + 2) - 1 = n + 1
    OBVIOUS
  <2>2. A[n + 2].prog = A[n + 1].prog \o parts[n + 2]
    BY <1>5, <2>1
  <2> HIDE DEF last, Jumps
  <2> QED BY <1>3, <1>4, <1>6, <1>9, <1>10, <2>1, <2>2
<1>12. /\ last \in Seq(Int) /\ Len(last) = 3
       /\ last[1] = LITTOREG /\ last[2] = AR_AX /\ last[3] = ltext + 2
  BY <1>2 DEF LITTOREG, AR_AX
<1> HIDE DEF last, first
<1>13. /\ ltext' = ltext + 5 + n
       /\ \A i \in 1..ltext + 2 + n : prog'[i] = p[i]
       /\ \A i \in 1..3 : prog'[ltext + 2 + n + i] = last[i]
  <2>1. /\ Len(prog') = Len(p) + Len(last)
        /\ \A i \in 1..Len(p) + Len(last) :
             prog'[i] = IF i <= Len(p) THEN p[i] ELSE last[i - Len(p)]
    BY <1>11, <1>12, ConcatProperties
  <2>2. Len(p) = ltext + 2 + n
    BY <1>11
  <2> HIDE DEF Jumps
  <2>3. ltext' = ltext + 5 + n
    BY <1>2, <1>4, <1>12, <2>1, <2>2
  <2>4. ASSUME NEW i \in 1..ltext + 2 + n PROVE prog'[i] = p[i]
    <3>1. i \in 1..Len(p) + Len(last) /\ i <= Len(p)
      BY <1>2, <1>12, <2>2
    <3> QED BY <2>1, <3>1
  <2>5. ASSUME NEW i \in 1..3 PROVE prog'[ltext + 2 + n + i] = last[i]
    <3>1. /\ ltext + 2 + n + i \in 1..Len(p) + Len(last) /\ ~(ltext + 2 + n + i <= Len(p))
          /\ (ltext + 2 + n + i) - Len(p) = i
      BY <1>2, <1>12, <2>2
    <3> QED BY <2>1, <3>1
  <2> QED BY <2>3, <2>4, <2>5
<1>14. /\ prog'[at + 1] = JMP /\ prog'[at + 2] = at + 2 + n
       /\ \A i \in at + 3..at + 2 + n : prog'[i] = Garbage
       /\ prog'[at + 3 + n] = LITTOREG /\ prog'[at + 4 + n] = AR_AX /\ prog'[at + 5 + n] = at + 2
  <2>1. /\ at + 1 \in 1..at + 2 + n /\ at + 2 \in 1..at + 2 + n
        /\ \A i \in at + 3..at + 2 + n : i \in 1..at + 2 + n
        /\ at + 2 + n + 1 = at + 3 + n /\ at + 2 + n + 2 = at + 4 + n /\ at + 2 + n + 3 = at + 5 + n
        /\ 1 \in 1..3 /\ 2 \in 1..3 /\ 3 \in 1..3
    BY <1>2, <1>10
  <2>2. /\ p[at + 1] = JMP /\ p[at + 2] = at + 2 + n
        /\ \A i \in at + 3..at + 2 + n : p[i] = Garbage
    BY <1>10, <1>11
  <2>3. /\ \A i \in 1..at + 2 + n : prog'[i] = p[i]
        /\ \A i \in 1..3 : prog'[at + 2 + n + i] = last[i]
    BY <1>10, <1>13
  <2>4. prog'[at + 2 + n + 1] = last[1] /\ prog'[at + 2 + n + 2] = last[2]
        /\ prog'[at + 2 + n + 3] = last[3]
    BY <2>1, <2>3
  <2> QED BY <1>10, <1>12, <2>1, <2>2, <2>3, <2>4
<1> HIDE DEF Jumps
<1>15. starts' = starts \cup {at, at + 2 + n}
  <2>1. ltext + 0 < ltext' /\ ltext + (2 + n) < ltext' /\ ltext + 0 = at /\ ltext + (2 + n) = at + 2 + n
    BY <1>2, <1>10, <1>13
  <2>2. {ltext + a : a \in {a \in {0, 2 + n} : ltext + a < ltext'}} = {at, at + 2 + n}
    BY <2>1
  <2> QED BY <1>4, <2>2
<1>16. at \in Nat /\ ltext' = at + 5 + n /\ ltext' \in Nat /\ ltext <= ltext'
  BY <1>2, <1>10, <1>13
<1>17. InstructionAt(at)'
  <2>1. at + 2 + n \in Targets'
    BY <1>15 DEF Targets
  <2> QED BY <1>14, <1>16, <2>1, Counts DEF InstructionAt, Opcodes
<1>18. InstructionAt(at + 2 + n)'
  <2>1. (at + 2 + n) + 1 = at + 3 + n /\ (at + 2 + n) + 1 + argcount(LITTOREG) = ltext'
    BY <1>16, Counts
  <2>2. ltext' \in Targets' /\ ltext' <= ltext' /\ LITTOREG # JMP /\ LITTOREG \in Opcodes
    BY <1>16 DEF Targets, LITTOREG, JMP, Opcodes
  <2> QED BY <1>14, <2>1, <2>2 DEF InstructionAt
<1>19. Program'
  <2>1. {at, at + 2 + n} \in SUBSET (0..ltext'-1)
    BY <1>16
  <2>2. \A a \in {at, at + 2 + n} : InstructionAt(a)'
    BY <1>17, <1>18
  <2> QED BY <1>4, <1>15, <1>16, <2>1, <2>2, ProgramGrows
<1>20. {w \in ltext..ltext'-1 : prog'[w + 1] = Unresolved} = {r.off : r \in {}}
  <2>1. ASSUME NEW w \in ltext..ltext'-1 PROVE prog'[w + 1] # Unresolved
    <3>1. w = at \/ w = at + 1 \/ w + 1 \in at + 3..at + 2 + n
          \/ w = at + 2 + n \/ w = at + 3 + n \/ w = at + 4 + n
      BY <1>10, <1>16
    <3> QED BY <1>14, <1>16, <3>1 DEF Unresolved, Garbage, JMP, LITTOREG, AR_AX
  <2> QED BY <2>1
<1>21. References'
  <2>1. {} \in SUBSET [name : Labels, off : Nat] /\ label_refs' = label_refs \cup {}
        /\ label_map' = label_map
    BY <1>1
  <2> QED BY <1>4, <1>16, <1>20, <2>1, ReferencesGrow
<1> QED BY <1>4, <1>19, <1>21 DEF Good

\* A label: its operands get its offset and no other word changes.
LEMMA LabelStep ==
  ASSUME Good, NEW l \in Labels, Label(l), misuse' = {}
  PROVE  Good'
<1> DEFINE patched(w) == [name |-> l, off |-> w] \in label_refs
<1>1. /\ UNCHANGED <<pc, bps, lstack, base, capa, ltext, starts>>
      /\ label_refs' = {r \in label_refs : r.name # l}
      /\ label_map' = [k \in DOMAIN label_map \cup {l} |-> IF k = l THEN ltext ELSE label_map[k]]
  BY DEF Label, ReadLine, Remaining, LeftRefs
<1>2. /\ vm \in Machine /\ vm.mem \in [0..capa-1 -> Words] /\ ltext \in Nat /\ ltext + 5 <= capa
      /\ capa \in Nat /\ prog \in Seq(Int) /\ Len(prog) = ltext
  BY TargetsNat DEF Good, Types, Machine, Program
<1>3. /\ vm' = [vm EXCEPT !.mem = vm'.mem]
      /\ vm'.mem \in [0..capa-1 -> Words]
      /\ \A w \in 0..capa-1 : vm'.mem[w] = IF patched(w) THEN Plain(ltext) ELSE vm.mem[w]
  <2>1. vm' = [vm EXCEPT !.mem = resolve_label(vm.mem, l)]
    BY DEF Label, Resolved
  <2>2. vm'.mem = resolve_label(vm.mem, l) /\ DOMAIN vm.mem = 0..capa-1
    BY <1>2, <2>1 DEF Machine
  <2>3. Plain(ltext) \in Words
    BY <1>2 DEF Plain, Words
  <2>4. resolve_label(vm.mem, l)
          = [w \in 0..capa-1 |-> IF patched(w) THEN Plain(ltext) ELSE vm.mem[w]]
    BY <2>2 DEF resolve_label
  <2> HIDE DEF patched
  <2>5. resolve_label(vm.mem, l) \in [0..capa-1 -> Words]
    BY <1>2, <2>3, <2>4
  <2> QED BY <2>1, <2>2, <2>4, <2>5
<1>4. /\ prog' \in Seq(Int) /\ Len(prog') = ltext
      /\ \A w \in 0..ltext-1 : prog'[w + 1] = IF patched(w) THEN ltext ELSE prog[w + 1]
  <2> DEFINE e(w) == IF patched(w - 1) THEN ltext ELSE prog[w]
  <2>1. prog' = [w \in 1..ltext |-> e(w)]
    BY <1>2 DEF Label
  <2>2. \A w \in 1..ltext : e(w) \in Int
    <3>1. \A w \in 1..ltext : prog[w] \in Int
      BY <1>2, ElementOfSeq
    <3> HIDE DEF patched
    <3> QED BY <1>2, <3>1
  <2>3. \A w \in 0..ltext-1 : w + 1 \in 1..ltext /\ (w + 1) - 1 = w
    BY <1>2
  <2>4. \A w \in 0..ltext-1 : e(w + 1) = IF patched(w) THEN ltext ELSE prog[w + 1]
    BY <2>3
  <2> HIDE DEF e
  <2>5. prog' \in Seq(Int)
    BY <1>2, <2>1, <2>2, IsASeq
  <2>6. Len(prog') = ltext
    BY <1>2, <2>1, <2>5, LenProperties
  <2> QED BY <2>1, <2>3, <2>4, <2>5, <2>6
<1> HIDE DEF patched
<1>5. ASSUME NEW w, patched(w) PROVE w \in 0..ltext-1 /\ prog[w + 1] = Unresolved
  <2>1. [name |-> l, off |-> w] \in label_refs
    BY <1>5 DEF patched
  <2>2. w \in {r.off : r \in label_refs}
    BY <2>1
  <2> QED BY <2>2 DEF Good, References
<1>6. ASSUME NEW a \in starts PROVE ~patched(a) /\ a \in 0..ltext-1 /\ prog'[a + 1] = prog[a + 1]
  <2>1. a \in 0..ltext-1 /\ prog[a + 1] \in Opcodes
    BY DEF Good, Program, InstructionAt
  <2>2. prog[a + 1] # Unresolved
    BY <2>1, Counts DEF Unresolved, SCMD_MAX
  <2> QED BY <1>4, <1>5, <2>1, <2>2
<1>7. Types'
  <2>1. vm' \in Machine'
    <3>1. vm'.mem \in [0..capa'-1 -> Words]
      BY <1>1, <1>3
    <3> QED BY <1>2, <1>3, <3>1 DEF Machine
  <2> QED BY <1>1, <1>4, <2>1 DEF Good, Types
<1>8. vm'.SP = vm.SP /\ vm'.EIP = vm.EIP
  BY <1>2, <1>3 DEF Machine
<1>9. Room' /\ Pointers(vm)'
  BY <1>1, <1>8 DEF Good, Room, ready, Pointers, StackStart, Targets
<1>10. Text(vm)'
  <2>1. \A w \in 0..ltext-1 : vm'.mem[w].v = prog'[w + 1]
    <3> SUFFICES ASSUME NEW w \in 0..ltext-1 PROVE vm'.mem[w].v = prog'[w + 1]
      OBVIOUS
    <3>1. w \in 0..capa-1 /\ vm.mem[w].v = prog[w + 1]
      BY <1>2 DEF Good, Text
    <3> QED BY <1>3, <1>4, <3>1 DEF Plain
  <2>2. vm'.mem[ltext].v = 0
    <3>1. ~patched(ltext) /\ ltext \in 0..capa-1
      BY <1>2, <1>5
    <3> QED BY <1>3, <3>1 DEF Good, Text
  <2> QED BY <1>1, <2>1, <2>2 DEF Text
<1>11. Marked'
  <2>1. \A b \in bps : b \in starts /\ vm.mem[b].bp
    BY DEF Good, Marked
  <2>2. \A b \in starts : vm'.mem[b] = vm.mem[b]
    <3>1. \A b \in 0..ltext-1 : b \in 0..capa-1
      BY <1>2
    <3> QED BY <1>3, <1>6, <3>1
  <2> QED BY <1>1, <2>1, <2>2 DEF Marked
<1>12. Program'
  <2>1. ASSUME NEW a \in starts PROVE InstructionAt(a)'
    <3>1. InstructionAt(a) /\ prog'[a + 1] = prog[a + 1]
      BY <1>6 DEF Good, Program
    <3>2. prog[a + 1] = JMP => prog'[a + 2] \in {prog[a + 2], ltext}
      <4>1. ASSUME prog[a + 1] = JMP PROVE a + 1 \in 0..ltext-1 /\ (a + 1) + 1 = a + 2
        <5>1. a + 1 + argcount(prog[a + 1]) <= ltext
          BY <3>1 DEF InstructionAt
        <5> QED BY <1>2, <1>6, <4>1, <5>1, Counts
      <4> QED BY <1>4, <4>1
    <3>3. Targets' = Targets /\ ltext \in Targets
      BY <1>1 DEF Targets
    <3> QED BY <1>1, <3>1, <3>2, <3>3 DEF InstructionAt
  <2>2. 0 \in Targets'
    BY <1>1 DEF Good, Program, Targets
  <2> QED BY <1>1, <1>4, <2>1, <2>2 DEF Good, Program
<1>13. References'
  <2>1. References
    BY DEF Good
  <2>2. \A k \in DOMAIN label_map' : label_map'[k] \in Targets'
    BY <1>1, <2>1 DEF References, Targets
  <2>3. \A r \in label_refs' : r.off < ltext' /\ r.name \notin DOMAIN label_map'
    BY <1>1, <2>1 DEF References
  <2>4. ASSUME NEW w \in 0..ltext-1, prog'[w + 1] = Unresolved
        PROVE  \E r \in label_refs' : r.off = w
    <3>1. ~patched(w) /\ prog[w + 1] = Unresolved
      <4>1. prog'[w + 1] # ltext
        BY <1>2, <2>4 DEF Unresolved
      <4>2. prog'[w + 1] = IF patched(w) THEN ltext ELSE prog[w + 1]
        BY <1>4
      <4> QED BY <2>4, <4>1, <4>2
    <3>2. w \in {r.off : r \in label_refs}
      BY <2>1, <3>1 DEF References
    <3>3. PICK r \in label_refs : r.off = w
      BY <3>2
    <3>4. r = [name |-> r.name, off |-> r.off]
      BY <2>1 DEF References
    <3>5. r.name # l
      BY <3>1, <3>3, <3>4 DEF patched
    <3> QED BY <1>1, <3>3, <3>5
  <2>5. ASSUME NEW r \in label_refs'
        PROVE  r.off \in 0..ltext-1 /\ prog'[r.off + 1] = Unresolved
    <3>1. r \in label_refs /\ r.name # l
      BY <1>1
    <3>2. r.off \in 0..ltext-1 /\ prog[r.off + 1] = Unresolved
      <4>1. r.off \in {w \in 0..ltext-1 : prog[w + 1] = Unresolved}
        BY <2>1, <3>1 DEF References
      <4> QED BY <4>1
    <3>3. ~patched(r.off)
      <4>1. ASSUME patched(r.off) PROVE FALSE
        <5>1. [name |-> l, off |-> r.off] = r
          BY <2>1, <3>1, <4>1 DEF References, patched
        <5> QED BY <3>1, <5>1
      <4> QED BY <4>1
    <3> QED BY <1>4, <3>2, <3>3
  <2>6. {w \in 0..ltext'-1 : prog'[w + 1] = Unresolved} = {r.off : r \in label_refs'}
    BY <1>1, <2>4, <2>5
  <2> QED BY <1>1, <2>1, <2>2, <2>3, <2>6 DEF References
<1> QED BY <1>7, <1>9, <1>10, <1>11, <1>12, <1>13 DEF Good

-----------------------------------------------------------------------------
(* The machine                                                             *)

\* A machine whose text is the program, at an instruction of it.
Runs(c) == c \in Machine /\ Text(c) /\ Pointers(c)

SameMarks(c, d) == \A w \in 0..ltext : d.mem[w].bp = c.mem[w].bp

\* The step of c is none that agssim does not cope with.
Copes(c) ==
  /\ c.mem[c.EIP].v \notin NotImplemented
  /\ c.mem[c.EIP].v \in {PUSHREG, CALL} => c.SP >= 0
  /\ c.mem[c.EIP].v = CALL => as_int(c.AX) \in Targets
  /\ c.mem[c.EIP].v = RET /\ c.SP >= StackStart + 4
       => as_int(c.mem[(c.SP - 4) \div 4]) \in Targets

LEMMA NoMisuse ==
  ASSUME NEW c, c.SP \in Int, Misuses(c) = {}
  PROVE  misuse = {} /\ Copes(c)
<1> DEFINE op == c.mem[c.EIP].v
           top == c.mem[(c.SP - 4) \div 4]
           Is(what) ==
             \/ what = "unimplemented" /\ op \in NotImplemented
             \/ what = "reset" /\ op \in {PUSHREG, CALL} /\ c.SP < 0
             \/ what = "wild" /\ op = CALL /\ as_int(c.AX) \notin starts \cup {ltext}
             \/ what = "wild" /\ op = RET /\ c.SP >= StackStart + 4
                  /\ as_int(top) \notin starts \cup {ltext}
<1>1. Misuses(c) = misuse \cup {what \in {"unimplemented", "reset", "wild"} : Is(what)}
  BY DEF Misuses
<1>2. misuse = {} /\ ~Is("unimplemented") /\ ~Is("reset") /\ ~Is("wild")
  <2> HIDE DEF Is
  <2> QED BY <1>1
<1>3. op \in {PUSHREG, CALL} => c.SP >= 0
  BY <1>2
<1> QED BY <1>2, <1>3 DEF Copes, Targets

\* Where the text and the stack are, once there is a stack.
LEMMA Layout ==
  ASSUME Good, ready
  PROVE  /\ ltext \in Nat /\ capa \in Nat /\ base \in Nat /\ EnvWords \in Nat
         /\ ltext + 5 <= base /\ base < capa
         /\ StackStart = 4 * (base + EnvWords) /\ Targets \subseteq 0..ltext
<1>1. base = capa - lstack /\ lstack = StackWords /\ ltext + 5 <= capa - lstack /\ base \in Nat
  BY StackSize DEF Good, Room, Types, ready
<1>2. ltext \in Nat /\ capa \in Nat /\ Targets \subseteq 0..ltext
  BY TargetsNat
<1>3. base < capa /\ ltext + 5 <= base
  BY <1>1, <1>2, StackSize
<1> QED BY <1>1, <1>2, <1>3, StackSize DEF StackStart

\* The word at the instruction pointer is an opcode, or the NULL at the end.
LEMMA Fetched ==
  ASSUME Good, NEW c, Runs(c)
  PROVE  /\ c.EIP \in 0..ltext /\ c.EIP \in 0..capa-1
         /\ \/ c.EIP \in starts /\ c.mem[c.EIP].v = prog[c.EIP + 1] /\ InstructionAt(c.EIP)
            \/ c.EIP = ltext /\ c.mem[c.EIP].v = 0
<1>1. c.EIP \in Targets /\ Text(c)
  BY DEF Runs, Pointers
<1>2. c.EIP \in 0..ltext /\ c.EIP \in 0..capa-1
  BY <1>1, TargetsNat
<1>3. CASE c.EIP \in starts
  <2>1. c.EIP \in 0..ltext-1 /\ InstructionAt(c.EIP)
    BY <1>3 DEF Good, Program
  <2> QED BY <1>1, <1>2, <1>3, <2>1 DEF Text
<1>4. CASE c.EIP = ltext
  BY <1>1, <1>2, <1>4 DEF Text
<1> QED BY <1>1, <1>3, <1>4 DEF Targets

\* Setting or clearing a flag of a word changes nothing else.
LEMMA Flagged ==
  ASSUME Good, NEW c, Runs(c), NEW w \in 0..capa-1, NEW b \in BOOLEAN
  PROVE  /\ Runs([c EXCEPT !.mem[w].bp = b]) /\ Runs([c EXCEPT !.mem[w].once = b])
         /\ [c EXCEPT !.mem[w].bp = b].mem[w].bp = b
         /\ \A x \in 0..capa-1 : x # w => [c EXCEPT !.mem[w].bp = b].mem[x] = c.mem[x]
         /\ SameMarks(c, [c EXCEPT !.mem[w].once = b])
<1>1. PICK m : m = c.mem
  OBVIOUS
<1>2. c \in Machine /\ m \in [0..capa-1 -> Words] /\ ltext \in Nat /\ capa \in Nat
      /\ ltext + 5 <= capa /\ Text(c) /\ Pointers(c)
  BY <1>1, TargetsNat DEF Runs, Machine
<1> DEFINE d == [c EXCEPT !.mem = [m EXCEPT ![w].bp = b]]
           e == [c EXCEPT !.mem = [m EXCEPT ![w].once = b]]
<1>3. d = [c EXCEPT !.mem[w].bp = b] /\ e = [c EXCEPT !.mem[w].once = b]
  BY <1>1
<1>4. /\ [m EXCEPT ![w].bp = b] \in [0..capa-1 -> Words]
      /\ [m EXCEPT ![w].once = b] \in [0..capa-1 -> Words]
      /\ \A x \in 0..capa-1 :
           /\ [m EXCEPT ![w].bp = b][x].v = m[x].v /\ [m EXCEPT ![w].once = b][x].v = m[x].v
           /\ [m EXCEPT ![w].once = b][x].bp = m[x].bp
           /\ x # w => [m EXCEPT ![w].bp = b][x] = m[x]
      /\ [m EXCEPT ![w].bp = b][w].bp = b
  BY <1>2 DEF Words
<1>5. /\ d \in Machine /\ d.mem = [m EXCEPT ![w].bp = b] /\ d.EIP = c.EIP /\ d.SP = c.SP
      /\ e \in Machine /\ e.mem = [m EXCEPT ![w].once = b] /\ e.EIP = c.EIP /\ e.SP = c.SP
  BY <1>2, <1>4 DEF Machine
<1> HIDE DEF d, e
<1>6. \A x \in 0..ltext : x \in 0..capa-1
  BY <1>2
<1>7. Text(d) /\ Text(e)
  BY <1>1, <1>2, <1>4, <1>5, <1>6 DEF Text
<1>8. Pointers(d) /\ Pointers(e)
  BY <1>2, <1>5 DEF Pointers
<1>9. SameMarks(c, e)
  BY <1>1, <1>4, <1>5, <1>6 DEF SameMarks
<1> QED BY <1>1, <1>3, <1>4, <1>5, <1>7, <1>8, <1>9 DEF Runs

LEMMA SignalRuns ==
  ASSUME NEW c, Runs(c)
  PROVE  Runs(vm_signal(c)) /\ SameMarks(c, vm_signal(c))
BY DEF vm_signal, Runs, Machine, Text, Pointers, SameMarks

\* A jump goes to an instruction or to the end of the program, or stops.
LEMMA JumpRuns ==
  ASSUME Good, NEW c, Runs(c), NEW word, as_int(word) \in Targets \cup {Unresolved, Garbage}
  PROVE  Runs(jump(c, word).c) /\ SameMarks(c, jump(c, word).c)
<1>1. CASE as_int(word) \in 0..text_end-1
  <2>1. as_int(word) \in Targets
    <3>1. as_int(word) # Unresolved /\ as_int(word) # Garbage
      BY <1>1 DEF Unresolved, Garbage
    <3> QED BY <3>1
  <2>2. jump(c, word).c = [c EXCEPT !.EIP = as_int(word)]
    BY <1>1 DEF jump
  <2>3. as_int(word) \in Nat
    BY <2>1, TargetsNat
  <2> HIDE DEF as_int
  <2> QED BY <2>1, <2>2, <2>3 DEF Runs, Machine, Text, Pointers, SameMarks
<1>2. CASE as_int(word) \notin 0..text_end-1
  <2>1. jump(c, word).c = vm_signal(c)
    BY <1>2 DEF jump, Stop
  <2> QED BY <2>1, SignalRuns
<1> QED BY <1>1, <1>2

\* An instruction that does not jump goes to the next.
LEMMA AdvanceRuns ==
  ASSUME Good, NEW c, Runs(c), c.EIP \in starts, NEW op, op = prog[c.EIP + 1], op # JMP
  PROVE  Runs(Advance(c, op).c) /\ SameMarks(c, Advance(c, op).c)
<1>1. c.EIP + 1 + argcount(op) \in Targets
  BY DEF Good, Program, InstructionAt
<1>2. c.EIP + 1 + argcount(op) \in Nat
  BY <1>1, TargetsNat
<1>3. Advance(c, op).c = [c EXCEPT !.EIP = c.EIP + 1 + argcount(op)]
  BY DEF Advance
<1> QED BY <1>1, <1>2, <1>3 DEF Runs, Machine, Text, Pointers, SameMarks

\* A push changes a word of the stack, which is behind the text.
LEMMA PushRuns ==
  ASSUME Good, ready, NEW c, Runs(c), c.SP >= 0, canwrite(c.SP), NEW word \in Words
  PROVE  /\ Runs(vm_push(c, word)) /\ SameMarks(c, vm_push(c, word))
         /\ vm_push(c, word).EIP = c.EIP
<1>1. /\ c \in Machine /\ c.mem \in [0..capa-1 -> Words] /\ c.SP \in Int
      /\ c.SP % 4 = 0 /\ StackStart <= c.SP
  BY DEF Runs, Machine, Pointers
<1>2. c.SP + 4 < 4 * capa
  BY DEF canwrite
<1>3. PICK at : at = c.SP \div 4
  OBVIOUS
<1>4. at \in 0..capa-1 /\ at > ltext /\ (c.SP + 4) % 4 = 0 /\ StackStart <= c.SP + 4
      /\ c.SP + 4 \in Int
  <2>1. /\ ltext \in Nat /\ capa \in Nat /\ base \in Nat /\ EnvWords \in Nat
        /\ ltext + 5 <= base /\ StackStart = 4 * (base + EnvWords)
    BY Layout
  <2>2. PICK sp \in Int : sp = c.SP
    BY <1>1
  <2>3. sp % 4 = 0 /\ 4 * (base + EnvWords) <= sp /\ sp + 4 < 4 * capa /\ at = sp \div 4
    BY <1>1, <1>2, <1>3, <2>1, <2>2
  <2>4. sp = 4 * at /\ at \in Int
    BY <2>2, <2>3
  <2>5. at \in 0..capa-1 /\ at > ltext
    BY <2>1, <2>3, <2>4
  <2>6. (sp + 4) % 4 = 0 /\ 4 * (base + EnvWords) <= sp + 4
    BY <2>1, <2>2, <2>3
  <2> QED BY <2>1, <2>2, <2>5, <2>6
<1>5. vm_push(c, word) = [c EXCEPT !.mem = [c.mem EXCEPT ![at] = word], !.SP = c.SP + 4]
  BY <1>1, <1>3 DEF vm_push, write_mem
<1> DEFINE d == [c EXCEPT !.mem = [c.mem EXCEPT ![at] = word], !.SP = c.SP + 4]
<1>6. /\ d \in Machine /\ d.mem = [c.mem EXCEPT ![at] = word] /\ d.EIP = c.EIP
      /\ d.SP = c.SP + 4
  BY <1>1, <1>4 DEF Machine
<1> HIDE DEF d
<1>7. \A w \in 0..ltext : d.mem[w] = c.mem[w]
  <2>1. \A w \in 0..ltext : w \in 0..capa-1 /\ w # at
    BY <1>4, TargetsNat
  <2> QED BY <1>1, <1>6, <2>1
<1>8. Text(d) /\ SameMarks(c, d)
  <2>1. ltext \in 0..ltext /\ \A w \in 0..ltext-1 : w \in 0..ltext
    BY TargetsNat
  <2> QED BY <1>7, <2>1 DEF Runs, Text, SameMarks
<1>9. Pointers(d)
  BY <1>2, <1>4, <1>6 DEF Runs, Pointers
<1> QED BY <1>5, <1>6, <1>8, <1>9 DEF d, Runs

\* A pop reads a word of the stack and leaves the rest.
LEMMA PopRuns ==
  ASSUME Good, ready, NEW c, Runs(c), c.SP % 4 = 0, c.SP - 4 >= StackStart
  PROVE  /\ c.mem[(c.SP - 4) \div 4] \in Words
         /\ \A word \in Words :
              LET d == [c EXCEPT !.SP = @ - 4, !.AX = word]
              IN Runs(d) /\ SameMarks(c, d) /\ d.EIP = c.EIP
         /\ Runs([c EXCEPT !.SP = @ - 4]) /\ SameMarks(c, [c EXCEPT !.SP = @ - 4])
<1>1. PICK sp \in Int : sp = c.SP
  BY DEF Runs, Machine
<1>2. /\ c \in Machine /\ c.mem \in [0..capa-1 -> Words] /\ Text(c) /\ c.EIP \in Targets
      /\ sp % 4 = 0 /\ sp - 4 >= StackStart
  BY <1>1 DEF Runs, Machine, Pointers
<1>3. /\ capa \in Nat /\ base \in Nat /\ EnvWords \in Nat
      /\ StackStart = 4 * (base + EnvWords) /\ base < capa
  BY Layout
<1>4. sp < 4 * capa
  BY <1>1, <1>2, <1>3 DEF Runs, Pointers
<1>5. (sp - 4) \div 4 \in 0..capa-1 /\ (sp - 4) % 4 = 0 /\ sp - 4 \in Int /\ sp - 4 < 4 * capa
  BY <1>2, <1>3, <1>4
<1>6. ASSUME NEW d, d \in Machine, d.mem = c.mem, d.EIP = c.EIP, d.SP = sp - 4
      PROVE  Runs(d) /\ SameMarks(c, d)
  BY <1>2, <1>5, <1>6 DEF Runs, Text, Pointers, SameMarks
<1>7. \A word \in Words :
        LET d == [c EXCEPT !.SP = @ - 4, !.AX = word]
        IN d \in Machine /\ d.mem = c.mem /\ d.EIP = c.EIP /\ d.SP = sp - 4
  BY <1>1, <1>2, <1>5 DEF Machine
<1>8. LET d == [c EXCEPT !.SP = @ - 4]
      IN d \in Machine /\ d.mem = c.mem /\ d.EIP = c.EIP /\ d.SP = sp - 4
  BY <1>1, <1>2, <1>5 DEF Machine
<1> QED BY <1>1, <1>2, <1>5, <1>6, <1>7, <1>8

\* Losing a program that pops below the stack changes nothing but that.
LEMMA LostRuns ==
  ASSUME NEW c, Runs(c)
  PROVE  Runs(lose(c)) /\ SameMarks(c, lose(c))
BY DEF lose, Runs, Machine, Text, Pointers, SameMarks

\* What each opcode of the program does.
LEMMA ExecuteIs ==
  ASSUME NEW c
  PROVE  /\ Execute(c, 0) = Stop(c)
         /\ Execute(c, LINENUM) = Advance(c, LINENUM)
         /\ Execute(c, LITTOREG) = litToReg(c)
         /\ Execute(c, PUSHREG) = pushReg(c)
         /\ Execute(c, POPREG) = popReg(c)
         /\ Execute(c, JMP) = jump(c, c.mem[c.EIP + 1])
         /\ Execute(c, CALL) = call(c)
         /\ Execute(c, RET) = ret(c)
BY DEF Execute, LINENUM, LITTOREG, PUSHREG, POPREG, JMP, CALL, RET, CALLEXT, PUSHREAL,
       SUBREALSTACK, NotImplemented

\* An instruction leads to an instruction and leaves the program alone.
LEMMA ExecuteRuns ==
  ASSUME Good, ready, NEW c, Runs(c), Copes(c), NEW op, op = c.mem[c.EIP].v
  PROVE  Runs(Execute(c, op).c) /\ SameMarks(c, Execute(c, op).c)
<1>1. /\ c \in Machine /\ c.mem \in [0..capa-1 -> Words] /\ c.SP \in Int /\ c.AX \in Words
      /\ c.EIP \in Nat /\ SameMarks(c, c)
  BY DEF Runs, Machine, SameMarks
<1>2. CASE op = 0
  <2>1. Execute(c, op).c = c
    BY <1>2, ExecuteIs DEF Stop
  <2> QED BY <1>1, <2>1
<1>3. CASE op # 0
  <2>1. /\ c.EIP \in starts /\ op = prog[c.EIP + 1] /\ op \in Opcodes /\ InstructionAt(c.EIP)
        /\ c.EIP \in Nat /\ c.EIP + 1 + argcount(op) <= ltext
    BY <1>1, <1>3, Fetched DEF InstructionAt
  <2>2. JMP \notin {LINENUM, LITTOREG, PUSHREG, POPREG} /\ CALLEXT \in NotImplemented
    BY DEF LINENUM, LITTOREG, PUSHREG, POPREG, JMP, CALLEXT, NotImplemented
  <2>3. CASE op = LINENUM
    <3>1. Execute(c, op).c = Advance(c, op).c
      BY <2>3, ExecuteIs
    <3> QED BY <2>1, <2>2, <2>3, <3>1, AdvanceRuns
  <2>4. CASE op = LITTOREG
    <3> DEFINE d == [c EXCEPT !.AX = c.mem[c.EIP + 2]]
    <3>1. Execute(c, op).c = Advance(d, op).c
      BY <2>4, ExecuteIs DEF litToReg
    <3>2. c.mem[c.EIP + 2] \in Words
      <4>1. c.EIP + 2 \in 0..capa-1
        BY <2>1, <2>4, Counts, TargetsNat
      <4> QED BY <1>1, <4>1
    <3>3. Runs(d) /\ SameMarks(c, d) /\ d.EIP = c.EIP
      BY <3>2 DEF Runs, Machine, Text, Pointers, SameMarks
    <3> HIDE DEF d
    <3>4. Runs(Advance(d, op).c) /\ SameMarks(d, Advance(d, op).c)
      BY <2>1, <2>2, <2>4, <3>3, AdvanceRuns
    <3> QED BY <3>1, <3>3, <3>4 DEF SameMarks
  <2>5. CASE op = PUSHREG
    <3>1. CASE canwrite(c.SP)
      <4> DEFINE d == vm_push(c, c.AX)
      <4>1. Execute(c, op).c = Advance(d, op).c
        BY <2>5, <3>1, ExecuteIs DEF pushReg
      <4>2. c.SP >= 0
        BY <2>5 DEF Copes
      <4>3. Runs(d) /\ SameMarks(c, d) /\ d.EIP = c.EIP
        BY <1>1, <3>1, <4>2, PushRuns
      <4> HIDE DEF d
      <4>4. Runs(Advance(d, op).c) /\ SameMarks(d, Advance(d, op).c)
        BY <2>1, <2>2, <2>5, <4>3, AdvanceRuns
      <4> QED BY <4>1, <4>3, <4>4 DEF SameMarks
    <3>2. CASE ~canwrite(c.SP)
      <4>1. Execute(c, op).c = vm_signal(c)
        BY <2>5, <3>2, ExecuteIs DEF pushReg, Stop
      <4> QED BY <4>1, SignalRuns
    <3> QED BY <3>1, <3>2
  <2>6. CASE op = POPREG
    <3>1. CASE c.SP < 4
      <4>1. popReg(c) = Stop(vm_signal(c))
        BY <3>1 DEF popReg
      <4>2. Execute(c, op).c = vm_signal(c)
        BY <2>6, <4>1, ExecuteIs DEF Stop
      <4> QED BY <4>2, SignalRuns
    <3>2. CASE ~(c.SP < 4) /\ strays(c)
      <4>1. popReg(c) = Stop(lose(c))
        BY <3>2 DEF popReg
      <4>2. Execute(c, op).c = lose(c)
        BY <2>6, <4>1, ExecuteIs DEF Stop
      <4> QED BY <4>2, LostRuns
    <3>3. CASE ~(c.SP < 4) /\ ~strays(c)
      <4> DEFINE top == c.mem[(c.SP - 4) \div 4]
                 d == [c EXCEPT !.SP = @ - 4, !.AX = top]
      <4>1. Execute(c, op).c = Advance(d, op).c
        BY <2>6, <3>3, ExecuteIs DEF popReg
      <4>2. c.SP % 4 = 0 /\ c.SP - 4 >= StackStart
        BY <1>1, <3>3, Layout DEF strays
      <4>3. Runs(d) /\ SameMarks(c, d) /\ d.EIP = c.EIP
        BY <4>2, PopRuns
      <4> HIDE DEF d
      <4>4. Runs(Advance(d, op).c) /\ SameMarks(d, Advance(d, op).c)
        BY <2>1, <2>2, <2>6, <4>3, AdvanceRuns
      <4> QED BY <4>1, <4>3, <4>4 DEF SameMarks
    <3> QED BY <3>1, <3>2, <3>3
  <2>7. CASE op = JMP
    <3>1. Execute(c, op).c = jump(c, c.mem[c.EIP + 1]).c
      BY <2>7, ExecuteIs
    <3>2. c.mem[c.EIP + 1].v = prog[c.EIP + 2]
      <4>1. c.EIP + 1 \in 0..ltext-1 /\ (c.EIP + 1) + 1 = c.EIP + 2
        BY <2>1, <2>7, Counts, TargetsNat
      <4>2. \A w \in 0..ltext-1 : c.mem[w].v = prog[w + 1]
        BY DEF Runs, Text
      <4>3. c.mem[c.EIP + 1].v = prog[(c.EIP + 1) + 1]
        BY <4>1, <4>2
      <4> QED BY <4>1, <4>3
    <3>3. prog[c.EIP + 2] \in Targets \cup {Unresolved}
      BY <2>1, <2>7 DEF InstructionAt
    <3>4. as_int(c.mem[c.EIP + 1]) \in Targets \cup {Unresolved, Garbage}
      BY <3>2, <3>3 DEF as_int
    <3> QED BY <3>1, <3>4, JumpRuns
  <2>8. CASE op = CALL
    <3>1. CASE canwrite(c.SP)
      <4> DEFINE d == vm_push(c, Plain(c.EIP + 2))
      <4>1. Execute(c, op).c = jump(d, c.AX).c
        BY <2>8, <3>1, ExecuteIs DEF call
      <4>2. c.SP >= 0 /\ as_int(c.AX) \in Targets
        BY <2>8 DEF Copes
      <4>3. Plain(c.EIP + 2) \in Words
        BY <2>1 DEF Plain, Words
      <4>4. Runs(d) /\ SameMarks(c, d)
        BY <3>1, <4>2, <4>3, PushRuns
      <4> HIDE DEF d
      <4>5. Runs(jump(d, c.AX).c) /\ SameMarks(d, jump(d, c.AX).c)
        BY <4>2, <4>4, JumpRuns
      <4> QED BY <4>1, <4>4, <4>5 DEF SameMarks
    <3>2. CASE ~canwrite(c.SP)
      <4>1. Execute(c, op).c = vm_signal(c)
        BY <2>8, <3>2, ExecuteIs DEF call, Stop
      <4> QED BY <4>1, SignalRuns
    <3> QED BY <3>1, <3>2
  <2>9. CASE op = RET
    <3>1. CASE strays(c)
      <4>1. ret(c) = Stop(lose(c))
        BY <3>1 DEF ret
      <4>2. Execute(c, op).c = lose(c)
        BY <2>9, <4>1, ExecuteIs DEF Stop
      <4> QED BY <4>2, LostRuns
    <3>2. CASE ~strays(c)
      <4> DEFINE top == c.mem[(c.SP - 4) \div 4]
                 d == [c EXCEPT !.SP = @ - 4]
      <4>1. Execute(c, op).c = jump(d, top).c
        BY <2>9, <3>2, ExecuteIs DEF ret
      <4>2. c.SP % 4 = 0 /\ c.SP - 4 >= StackStart /\ c.SP >= StackStart + 4
        BY <1>1, <3>2, Layout DEF strays
      <4>3. as_int(top) \in Targets
        BY <2>9, <4>2 DEF Copes
      <4>4. Runs(d) /\ SameMarks(c, d)
        BY <4>2, PopRuns
      <4> HIDE DEF d, top
      <4>5. Runs(jump(d, top).c) /\ SameMarks(d, jump(d, top).c)
        BY <4>3, <4>4, JumpRuns
      <4> QED BY <4>1, <4>4, <4>5 DEF SameMarks
    <3> QED BY <3>1, <3>2
  <2>10. op # CALLEXT
    BY <2>2 DEF Copes
  <2> QED BY <2>1, <2>3, <2>4, <2>5, <2>6, <2>7, <2>8, <2>9, <2>10 DEF Opcodes
<1> QED BY <1>2, <1>3

LEMMA VmStepRuns ==
  ASSUME Good, ready, NEW c, Runs(c), Copes(c)
  PROVE  Runs(vm_step(c).c) /\ SameMarks(c, vm_step(c).c)
<1>1. c.EIP \in 0..capa-1 /\ SameMarks(c, c)
  BY Fetched DEF SameMarks
<1>2. CASE c.mem[c.EIP].v \notin 0..SCMD_MAX-1
  <2>1. vm_step(c) = Stop(vm_signal(c))
    BY <1>2 DEF vm_step
  <2> QED BY <2>1, SignalRuns DEF Stop
<1>3. CASE c.mem[c.EIP].v \in 0..SCMD_MAX-1 /\ c.mem[c.EIP].once
  <2> DEFINE d == [c EXCEPT !.mem[c.EIP].once = FALSE]
  <2>1. vm_step(c) = Stop(d)
    BY <1>3 DEF vm_step
  <2>2. Runs(d) /\ SameMarks(c, d)
    BY <1>1, Flagged
  <2> HIDE DEF d
  <2> QED BY <2>1, <2>2 DEF Stop
<1>4. CASE c.mem[c.EIP].v \in 0..SCMD_MAX-1 /\ ~c.mem[c.EIP].once /\ c.mem[c.EIP].bp
  <2>1. vm_step(c) = Stop(c)
    BY <1>4 DEF vm_step
  <2> QED BY <1>1, <2>1 DEF Stop
<1>5. CASE c.mem[c.EIP].v \in 0..SCMD_MAX-1 /\ ~c.mem[c.EIP].once /\ ~c.mem[c.EIP].bp
  <2>1. vm_step(c) = Execute(c, c.mem[c.EIP].v)
    BY <1>5 DEF vm_step
  <2> QED BY <2>1, ExecuteRuns
<1> QED BY <1>2, <1>3, <1>4, <1>5

\* A breakpoint that is taken off for a step is where it was after it.
LEMMA ToggledRuns ==
  ASSUME Good, ready, NEW c, Runs(c), Copes(c)
  PROVE  Runs(toggled_step(c)) /\ SameMarks(c, toggled_step(c))
<1>1. PICK at : at = c.EIP
  OBVIOUS
<1> DEFINE d == [c EXCEPT !.mem[at].bp = FALSE]
           s == vm_step(d).c
           t == [s EXCEPT !.mem[at].bp = TRUE]
<1>2. /\ at \in 0..ltext /\ at \in 0..capa-1
      /\ c \in Machine /\ c.mem \in [0..capa-1 -> Words] /\ c.SP \in Int
  BY <1>1, Fetched DEF Runs, Machine
<1>3. /\ Runs(d) /\ d.mem[at].bp = FALSE
      /\ \A x \in 0..capa-1 : x # at => d.mem[x] = c.mem[x]
  BY <1>2, Flagged
<1>4. d.EIP = c.EIP /\ d.SP = c.SP /\ d.AX = c.AX /\ d.mem[at].v = c.mem[at].v
  BY <1>2 DEF Machine, Words
<1> HIDE DEF d
<1>5. Copes(d)
  <2>1. ASSUME c.SP >= StackStart + 4
        PROVE  d.mem[(c.SP - 4) \div 4] = c.mem[(c.SP - 4) \div 4]
    <3>1. (c.SP - 4) \div 4 \in 0..capa-1 /\ (c.SP - 4) \div 4 # at
      <4>1. PICK sp \in Int : sp = c.SP
        BY <1>2
      <4>2. /\ ltext \in Nat /\ capa \in Nat /\ base \in Nat /\ EnvWords \in Nat
            /\ ltext + 5 <= base /\ base < capa /\ StackStart = 4 * (base + EnvWords)
        BY Layout
      <4>3. sp >= 4 * (base + EnvWords) + 4 /\ sp < 4 * capa
        BY <2>1, <4>1, <4>2 DEF Runs, Pointers
      <4>4. (sp - 4) \div 4 \in 0..capa-1 /\ (sp - 4) \div 4 > ltext
        BY <4>1, <4>2, <4>3
      <4> QED BY <1>2, <4>1, <4>2, <4>4
    <3> QED BY <1>3, <3>1
  <2> QED BY <1>1, <1>4, <2>1 DEF Copes
<1>6. Runs(s) /\ SameMarks(d, s)
  BY <1>3, <1>5, VmStepRuns
<1> HIDE DEF s
<1>7. \A x \in 0..ltext : x \in 0..capa-1
  BY TargetsNat
<1>8. CASE c.mem[at].bp
  <2>1. toggled_step(c) = t
    BY <1>1, <1>8 DEF toggled_step, StepOverBreakpoint, s, d
  <2>2. /\ Runs(t) /\ t.mem[at].bp = TRUE
        /\ \A x \in 0..capa-1 : x # at => t.mem[x] = s.mem[x]
    BY <1>2, <1>6, Flagged
  <2> HIDE DEF t
  <2>3. c.mem[at].bp = TRUE
    <3>1. c.mem[at].bp \in BOOLEAN
      BY <1>2 DEF Words
    <3> QED BY <1>8, <3>1
  <2>4. SameMarks(c, t)
    BY <1>3, <1>6, <1>7, <2>2, <2>3 DEF SameMarks
  <2> QED BY <2>1, <2>2, <2>4
<1>9. CASE ~c.mem[at].bp
  <2>1. toggled_step(c) = s
    BY <1>1, <1>9 DEF toggled_step, StepOverBreakpoint, s, d
  <2>2. c.mem[at].bp = FALSE
    <3>1. c.mem[at].bp \in BOOLEAN
      BY <1>2 DEF Words
    <3> QED BY <1>9, <3>1
  <2>3. SameMarks(c, s)
    BY <1>3, <1>6, <1>7, <2>2 DEF SameMarks
  <2> QED BY <1>6, <2>1, <2>3
<1> QED BY <1>8, <1>9

-----------------------------------------------------------------------------
(* Commands                                                                *)

Segment == <<capa, ltext, lstack, base, label_map, label_refs, prog, starts>>

\* A command that runs the machine and marks instructions leaves the program
\* what it was.
LEMMA MachineStep ==
  ASSUME Good, ready, UNCHANGED Segment, NEW d, d = vm', Runs(d),
         pc' \in {"input", "run", "exit"}, bps' \subseteq starts, \A b \in bps' : d.mem[b].bp
  PROVE  Good'
<1>1. UNCHANGED <<capa, ltext, lstack, base, label_map, label_refs, prog, starts>>
  BY DEF Segment
<1>2. Types'
  <2>1. Machine' = Machine
    BY <1>1 DEF Machine
  <2> QED BY <1>1, <2>1 DEF Good, Types, Runs
<1>3. ready' /\ Room'
  BY <1>1 DEF Good, Room, ready
<1>4. Program' /\ References'
  BY <1>1 DEF Good, Program, InstructionAt, Targets, References
<1>5. Text(vm)'
  BY <1>1 DEF Runs, Text
<1>6. Pointers(vm)'
  BY <1>1 DEF Runs, Pointers, Targets, StackStart
<1>7. Marked'
  BY <1>1 DEF Marked
<1> QED BY <1>2, <1>3, <1>4, <1>5, <1>6, <1>7 DEF Good

LEMMA StepStep ==
  ASSUME Good, Step, misuse' = {}
  PROVE  Good'
<1>1. ready /\ UNCHANGED Segment /\ bps' = bps
  BY DEF Step, Command, Segment
<1>2. Runs(vm) /\ bps \subseteq starts /\ \A b \in bps : vm.mem[b].bp
  BY DEF Good, Types, Runs, Marked
<1>3. PICK d : d = vm'
  OBVIOUS
<1>4. CASE label_check
  <2>1. d = toggled_step(vm) /\ Misuses(vm) = {} /\ pc' \in {"input", "run", "exit"}
    BY <1>3, <1>4 DEF Step
  <2>2. vm.SP \in Int
    BY DEF Good, Types, Machine
  <2>3. Copes(vm)
    BY <2>1, <2>2, NoMisuse
  <2>4. Runs(d) /\ SameMarks(vm, d)
    BY <1>1, <1>2, <2>1, <2>3, ToggledRuns
  <2>5. \A b \in bps' : d.mem[b].bp
    BY <1>1, <1>2, <2>4, TargetsNat DEF SameMarks, Targets
  <2> QED BY <1>1, <1>2, <1>3, <2>1, <2>4, <2>5, MachineStep
<1>5. CASE ~label_check
  <2>1. d = vm /\ pc' = pc
    BY <1>3, <1>5 DEF Step
  <2>2. pc' \in {"input", "run", "exit"}
    BY <2>1 DEF Good, Types
  <2> QED BY <1>1, <1>2, <1>3, <2>1, <2>2, MachineStep
<1> QED BY <1>4, <1>5

LEMMA BreakpointStep ==
  ASSUME Good, NEW addr \in starts \cup {ltext}, Breakpoint(addr)
  PROVE  Good'
<1>1. /\ ready /\ UNCHANGED Segment /\ pc' = pc
      /\ bps' = IF addr < ltext THEN bps \cup {addr} ELSE bps
      /\ vm' = [vm EXCEPT !.mem[addr].bp = TRUE]
  BY DEF Breakpoint, Command, Segment
<1>2. Runs(vm) /\ bps \subseteq starts /\ \A b \in bps : vm.mem[b].bp
  BY DEF Good, Types, Runs, Marked
<1>3. addr \in 0..capa-1 /\ \A b \in bps : b \in 0..capa-1
  BY <1>2, TargetsNat DEF Targets
<1>4. PICK d : d = vm'
  OBVIOUS
<1>5. /\ Runs(d) /\ d.mem[addr].bp = TRUE
      /\ \A x \in 0..capa-1 : x # addr => d.mem[x] = vm.mem[x]
  <2> DEFINE e == [vm EXCEPT !.mem[addr].bp = TRUE]
  <2>1. /\ Runs(e) /\ e.mem[addr].bp = TRUE
        /\ \A x \in 0..capa-1 : x # addr => e.mem[x] = vm.mem[x]
    BY <1>2, <1>3, Flagged
  <2>2. d = e
    BY <1>1, <1>4
  <2> HIDE DEF e
  <2> QED BY <2>1, <2>2
<1>6. bps' \subseteq starts
  <2>1. addr < ltext => addr \in starts
    BY TargetsNat
  <2> QED BY <1>1, <1>2, <2>1
<1>7. \A b \in bps' : d.mem[b].bp
  <2>1. \A b \in bps' : b \in bps \cup {addr}
    BY <1>1
  <2> QED BY <1>2, <1>3, <1>5, <2>1
<1>8. pc' \in {"input", "run", "exit"}
  BY <1>1 DEF Good, Types
<1> QED BY <1>1, <1>4, <1>5, <1>6, <1>7, <1>8, MachineStep

\* Resumption: the instruction on a breakpoint goes first.
LEMMA ResumeStep ==
  ASSUME Good, ready, NEW c, Runs(c), SameMarks(vm, c), Resume(c), misuse' = {}
  PROVE  Good'
<1>1. UNCHANGED Segment /\ bps' = bps
  BY DEF Resume, Command, Segment
<1>2. bps \subseteq starts /\ \A b \in bps : c.mem[b].bp
  <2>1. bps \subseteq starts /\ \A b \in bps : vm.mem[b].bp
    BY DEF Good, Marked
  <2> QED BY <2>1, TargetsNat DEF SameMarks, Targets
<1>3. PICK d : d = vm'
  OBVIOUS
<1>4. pc' \in {"input", "run", "exit"}
  BY DEF Resume
<1>5. CASE c.mem[c.EIP].bp
  <2>1. d = toggled_step(c) /\ Misuses(c) = {}
    BY <1>3, <1>5 DEF Resume
  <2>2. c.SP \in Int
    BY DEF Runs, Machine
  <2>3. Copes(c)
    BY <2>1, <2>2, NoMisuse
  <2>4. Runs(d) /\ SameMarks(c, d)
    BY <2>1, <2>3, ToggledRuns
  <2>5. \A b \in bps' : d.mem[b].bp
    BY <1>1, <1>2, <2>4, TargetsNat DEF SameMarks, Targets
  <2> QED BY <1>1, <1>2, <1>3, <1>4, <2>4, <2>5, MachineStep
<1>6. CASE ~c.mem[c.EIP].bp
  <2>1. d = c
    BY <1>3, <1>6 DEF Resume
  <2> QED BY <1>1, <1>2, <1>3, <1>4, <2>1, MachineStep
<1> QED BY <1>5, <1>6

LEMMA RunCommandStep ==
  ASSUME Good, Run, misuse' = {}
  PROVE  Good'
<1>1. Runs(vm) /\ SameMarks(vm, vm)
  BY DEF Good, Types, Runs, SameMarks
<1> QED BY <1>1, ResumeStep DEF Run

\* A step over marks the next instruction, or the word behind the last.
LEMMA StepOverStep ==
  ASSUME Good, StepOver, misuse' = {}
  PROVE  Good'
<1>1. Runs(vm)
  BY DEF Good, Types, Runs
<1>2. get_next_ip(vm) \in 0..capa-1
  <2>1. CASE vm.EIP \in starts /\ vm.mem[vm.EIP].v = prog[vm.EIP + 1] /\ InstructionAt(vm.EIP)
    <3>1. /\ vm.EIP + 1 + argcount(prog[vm.EIP + 1]) <= ltext
          /\ prog[vm.EIP + 1] \in Opcodes
      BY <2>1 DEF InstructionAt
    <3>2. argcount(prog[vm.EIP + 1]) \in 0..2
      BY <3>1, Counts DEF Opcodes
    <3>3. vm.EIP \in Nat
      BY <1>1 DEF Runs, Machine
    <3> QED BY <2>1, <3>1, <3>2, <3>3, TargetsNat DEF get_next_ip
  <2>2. CASE vm.EIP = ltext /\ vm.mem[vm.EIP].v = 0
    BY <2>2, Counts, TargetsNat DEF get_next_ip
  <2> QED BY <1>1, <2>1, <2>2, Fetched
<1>3. PICK next : next = get_next_ip(vm)
  OBVIOUS
<1> DEFINE c == [vm EXCEPT !.mem[next].once = TRUE]
<1>4. Runs(c) /\ SameMarks(vm, c)
  BY <1>1, <1>2, <1>3, Flagged
<1>5. ready /\ Resume(c)
  BY <1>3 DEF StepOver
<1> HIDE DEF c
<1> QED BY <1>4, <1>5, ResumeStep

LEMMA RunStepStep ==
  ASSUME Good, RunStep, misuse' = {}
  PROVE  Good'
<1>1. UNCHANGED Segment /\ bps' = bps /\ pc' \in {"input", "run", "exit"} /\ Misuses(vm) = {}
  BY DEF RunStep, Segment
<1>2. ready
  BY DEF RunStep, Good, Room
<1>3. Runs(vm) /\ bps \subseteq starts /\ \A b \in bps : vm.mem[b].bp
  BY DEF Good, Types, Runs, Marked
<1>4. PICK d : d = vm'
  OBVIOUS
<1>5. Copes(vm)
  <2>1. vm.SP \in Int
    BY DEF Good, Types, Machine
  <2> QED BY <1>1, <2>1, NoMisuse
<1>6. Runs(d) /\ SameMarks(vm, d)
  BY <1>2, <1>3, <1>4, <1>5, VmStepRuns DEF RunStep
<1>7. \A b \in bps' : d.mem[b].bp
  BY <1>1, <1>3, <1>6, TargetsNat DEF SameMarks, Targets
<1> QED BY <1>1, <1>2, <1>3, <1>4, <1>6, <1>7, MachineStep

LEMMA ResetStep ==
  ASSUME Good, Reset
  PROVE  Good'
<1>1. /\ ready /\ UNCHANGED Segment /\ bps' = bps /\ pc' = pc
      /\ vm' = [vm EXCEPT !.EIP = 0, !.SP = -1, !.AX = Plain(Unresolved)]
  BY DEF Reset, Command, Segment
<1>2. vm \in Machine /\ Text(vm) /\ bps \subseteq starts /\ \A b \in bps : vm.mem[b].bp
  BY DEF Good, Types, Marked
<1>3. PICK d : d = vm'
  OBVIOUS
<1>4. PICK fresh \in Words : fresh = Plain(Unresolved)
  <2>1. Plain(Unresolved) \in Words
    BY DEF Plain, Words, Unresolved
  <2> QED BY <2>1
<1>5. d \in Machine /\ d.mem = vm.mem /\ d.EIP = 0 /\ d.SP = -1
  <2> DEFINE e == [vm EXCEPT !.EIP = 0, !.SP = -1, !.AX = fresh]
  <2>1. e \in Machine /\ e.mem = vm.mem /\ e.EIP = 0 /\ e.SP = -1
    <3>1. PICK sp \in Int : sp = -1
      OBVIOUS
    <3>2. e = [vm EXCEPT !.EIP = 0, !.SP = sp, !.AX = fresh]
      BY <3>1
    <3> HIDE DEF e
    <3> QED BY <1>2, <3>1, <3>2 DEF Machine
  <2>2. d = e
    BY <1>1, <1>3, <1>4
  <2> HIDE DEF e
  <2> QED BY <2>1, <2>2
<1>6. Runs(d)
  <2>1. 0 \in Targets
    BY DEF Good, Program
  <2> QED BY <1>2, <1>5, <2>1 DEF Runs, Text, Pointers
<1>7. pc' \in {"input", "run", "exit"}
  BY <1>1 DEF Good, Types
<1> QED BY <1>1, <1>2, <1>3, <1>5, <1>6, <1>7, MachineStep

\* The stack is allocated where the text ends: what is there moves nowhere.
LEMMA InitStackStep ==
  ASSUME Good, InitStack, misuse' = {}
  PROVE  Good'
<1>1. PICK at : at = text_end
  OBVIOUS
<1>2. /\ ~ready /\ vm' = WithStack /\ lstack' = StackWords /\ base' = at
      /\ capa' = capa + StackWords /\ capa = at
      /\ UNCHANGED <<ltext, label_map, label_refs, pc, prog, starts, bps>>
  BY <1>1 DEF InitStack
<1>3. /\ lstack = 0 /\ bps = {} /\ capa \in Nat /\ ltext \in Nat /\ ltext + 5 <= capa
      /\ \E k \in Nat : capa = k * Page
      /\ capa + StackWords <= MaxMem
      /\ vm \in Machine /\ vm.mem \in [0..capa-1 -> Words]
      /\ Text(vm) /\ vm.EIP \in Targets
  <2>1. lstack = 0
    BY <1>2, StackSize DEF Good, Types, ready
  <2>2. capa - lstack = capa /\ capa + StackWords - lstack = capa + StackWords
    BY <2>1, StackSize, TargetsNat
  <2> QED BY <1>2, <2>1, <2>2, TargetsNat DEF Good, Room, Types, Machine, Pointers
<1>4. /\ StackWords \in Nat /\ StackWords > 0 /\ EnvWords \in Nat /\ EnvWords < StackWords
  BY StackSize, SizesAssumption
<1>0. PICK size \in Nat : size = capa + StackWords
  BY <1>3, <1>4
<1> DEFINE old == realloc(vm.mem, size)
           env(w) == Plain(IF w < at + EnvWords - 2 THEN Garbage ELSE 0)
           new == [w \in 0..size-1 |->
                     IF w \in at..(at + EnvWords - 1) THEN env(w) ELSE old[w]]
<1>5. old \in [0..size-1 -> Words] /\ \A w \in 0..capa-1 : old[w] = vm.mem[w]
  <2>1. capa <= size
    BY <1>0, <1>3, <1>4
  <2> QED BY <1>3, <2>1, Reallocated
<1>6. \A w : env(w) \in Words
  BY DEF Plain, Words, Garbage
<1>7. vm' = [vm EXCEPT !.mem = new, !.SP = 4 * (at + EnvWords)]
  <2>1. DOMAIN old = 0..size-1
    BY <1>5
  <2> QED BY <1>0, <1>1, <1>2, <2>1 DEF WithStack
<1> HIDE DEF old, env
<1>8. new \in [0..size-1 -> Words] /\ \A w \in 0..capa-1 : new[w] = vm.mem[w]
  <2>1. \A w \in 0..capa-1 : w \in 0..size-1 /\ w \notin at..(at + EnvWords - 1)
    BY <1>0, <1>2, <1>3, <1>4
  <2> QED BY <1>5, <1>6, <2>1
<1> HIDE DEF new
<1>9. PICK sp \in Int : sp = 4 * (at + EnvWords)
  BY <1>2, <1>3, <1>4
<1>10. PICK d : d = vm'
  OBVIOUS
<1>11. /\ d \in [mem : [0..size-1 -> Words], EIP : Nat, SP : Int, AX : Words,
                  vm_return : {0, 1}, lost : BOOLEAN]
       /\ d.mem = new /\ d.EIP = vm.EIP /\ d.SP = sp
  <2> DEFINE e == [vm EXCEPT !.mem = new, !.SP = sp]
  <2>1. /\ e \in [mem : [0..size-1 -> Words], EIP : Nat, SP : Int, AX : Words,
                   vm_return : {0, 1}, lost : BOOLEAN]
        /\ e.mem = new /\ e.EIP = vm.EIP /\ e.SP = sp
    BY <1>3, <1>8 DEF Machine
  <2>2. d = e
    BY <1>7, <1>9, <1>10
  <2> HIDE DEF e
  <2> QED BY <2>1, <2>2
<1>12. Types'
  <2>1. vm' \in Machine'
    <3>1. capa' = size
      BY <1>0, <1>2
    <3> QED BY <1>10, <1>11, <3>1 DEF Machine
  <2> QED BY <1>2, <1>3, <1>4, <2>1 DEF Good, Types
<1>13. Room'
  <2>1. capa' - lstack' = capa /\ capa' + StackWords - lstack' = capa + StackWords
    BY <1>2, <1>3, <1>4
  <2>2. ready'
    BY <1>2, <1>4 DEF ready
  <2> QED BY <1>2, <1>3, <2>1, <2>2 DEF Room
<1>14. Program' /\ References'
  BY <1>2 DEF Good, Program, InstructionAt, Targets, References
<1>15. Text(vm)'
  <2>1. \A w \in 0..ltext : w \in 0..capa-1
    BY <1>3
  <2>2. \A w \in 0..ltext : d.mem[w] = vm.mem[w]
    BY <1>8, <1>11, <2>1
  <2>3. ltext \in 0..ltext /\ \A w \in 0..ltext-1 : w \in 0..ltext
    BY <1>3
  <2>4. Text(d)
    BY <1>3, <2>2, <2>3 DEF Text
  <2> QED BY <1>2, <1>10, <2>4 DEF Text
<1>16. Pointers(vm)'
  <2>1. StackStart' = sp /\ sp % 4 = 0 /\ sp <= sp /\ sp < 4 * capa'
    <3>1. StackStart' = 4 * (at + EnvWords)
      BY <1>2 DEF StackStart
    <3>2. PICK k \in Nat : k = at + EnvWords
      BY <1>2, <1>3, <1>4
    <3>3. sp = 4 * k /\ sp % 4 = 0
      BY <1>9, <3>2
    <3>4. sp < 4 * capa'
      <4>1. k < size /\ capa' = size
        <5>1. at \in Nat /\ size = at + StackWords /\ capa' = size
          BY <1>0, <1>2, <1>3
        <5> QED BY <1>4, <3>2, <5>1
      <4>2. 4 * k < 4 * size
        BY <3>2, <4>1
      <4> QED BY <3>3, <4>1, <4>2
    <3> QED BY <1>9, <3>1, <3>3, <3>4
  <2>2. Targets' = Targets
    BY <1>2 DEF Targets
  <2> QED BY <1>3, <1>10, <1>11, <2>1, <2>2 DEF Pointers
<1>17. Marked'
  BY <1>2, <1>3 DEF Marked
<1> QED BY <1>12, <1>13, <1>14, <1>15, <1>16, <1>17 DEF Good

-----------------------------------------------------------------------------
(* Sessions                                                                *)

LEMMA InitLemma == Init => IInv
<1> SUFFICES ASSUME Init PROVE Good
  BY DEF IInv
<1>1. /\ ltext = 0 /\ lstack = 0 /\ base = 0 /\ label_map = <<>> /\ label_refs = {}
      /\ pc = "input" /\ prog = <<>> /\ starts = {} /\ bps = {} /\ capa = ALIGN(8)
  BY DEF Init
<1>2. capa \in Nat /\ 8 <= capa /\ capa <= Page /\ \E k \in Nat : capa = k * Page
  <2>1. 8 <= 1 * Page /\ 1 * Page = Page
    BY SizesAssumption
  <2> QED BY <1>1, <2>1, AlignUp
<1> DEFINE word(w) == Plain(IF w = 0 THEN 0 ELSE Garbage)
           m == [w \in 0..capa-1 |-> word(w)]
<1>3. m \in [0..capa-1 -> Words] /\ m[0] = Plain(0)
  <2>1. word(0) = Plain(0) /\ \A w : word(w) \in Words
    BY DEF Plain, Words, Garbage
  <2> HIDE DEF word
  <2> QED BY <1>2, <2>1
<1>4. vm = [mem |-> m, EIP |-> 0, SP |-> -1, AX |-> Plain(Unresolved), vm_return |-> 0,
            lost |-> FALSE]
  BY DEF Init
<1> HIDE DEF m
<1>5. Plain(Unresolved) \in Words
  BY DEF Plain, Words, Unresolved
<1>6. vm \in Machine /\ vm.mem = m /\ vm.EIP = 0 /\ vm.SP = -1
  <2>1. PICK sp \in Int : sp = -1
    OBVIOUS
  <2>2. PICK fresh \in Words : fresh = Plain(Unresolved)
    BY <1>5
  <2>3. vm = [mem |-> m, EIP |-> 0, SP |-> sp, AX |-> fresh, vm_return |-> 0, lost |-> FALSE]
    BY <1>4, <2>1, <2>2
  <2> QED BY <1>3, <2>1, <2>3 DEF Machine
<1>7. Types
  BY <1>1, <1>2, <1>6 DEF Types
<1>8. Room
  <2>1. capa - lstack = capa /\ capa + StackWords - lstack <= MaxMem /\ ltext + 5 <= capa
    BY <1>1, <1>2, SizesAssumption
  <2>2. ~ready
    BY <1>1 DEF ready
  <2> QED BY <1>1, <1>2, <1>6, <2>1, <2>2 DEF Room
<1>9. Program
  BY <1>1 DEF Program, Targets
<1>10. References
  <2>1. DOMAIN label_map = {}
    BY <1>1
  <2>2. 0..ltext-1 = {}
    BY <1>1
  <2> QED BY <1>1, <2>1, <2>2 DEF References
<1>11. Text(vm)
  BY <1>1, <1>3, <1>6 DEF Text, Plain
<1>12. Pointers(vm) /\ Marked
  BY <1>1, <1>6 DEF Pointers, Marked, Targets
<1> QED BY <1>7, <1>8, <1>9, <1>10, <1>11, <1>12 DEF Good

\* What agssim does not cope with is not undone.
LEMMA MisuseStays ==
  ASSUME [Next]_vars
  PROVE  misuse \subseteq misuse'
<1>1. ASSUME NEW parts, NEW at, Enter(parts, at) PROVE misuse \subseteq misuse'
  BY <1>1 DEF Enter
<1>2. CASE Instruction
  BY <1>1, <1>2 DEF Instruction
<1>3. ASSUME NEW l \in Labels, LabelInstruction(l) PROVE misuse \subseteq misuse'
  BY <1>1, <1>3 DEF LabelInstruction
<1>4. ASSUME NEW l \in Labels, Label(l) PROVE misuse \subseteq misuse'
  BY <1>4 DEF Label
<1>5. CASE StringLine
  BY <1>1, <1>5 DEF StringLine, StringInstruction
<1>6. CASE InitStack
  BY <1>6 DEF InitStack
<1>7. \A c : misuse \subseteq Misuses(c)
  BY DEF Misuses
<1>8. CASE Step
  BY <1>7, <1>8 DEF Step
<1>9. ASSUME NEW c, Resume(c) PROVE misuse \subseteq misuse'
  BY <1>7, <1>9 DEF Resume
<1>10. CASE Run \/ StepOver
  BY <1>9, <1>10 DEF Run, StepOver
<1>11. CASE RunStep
  BY <1>7, <1>11 DEF RunStep
<1>12. CASE Reset
  BY <1>12 DEF Reset
<1>13. ASSUME NEW addr \in starts \cup {ltext}, Breakpoint(addr) PROVE misuse \subseteq misuse'
  BY <1>13 DEF Breakpoint
<1>14. CASE UNCHANGED vars
  BY <1>14 DEF vars
<1> QED BY <1>2, <1>3, <1>4, <1>5, <1>6, <1>8, <1>10, <1>11, <1>12, <1>13, <1>14 DEF Next

LEMMA StepLemma == IInv /\ [Next]_vars => IInv'
<1> SUFFICES ASSUME IInv, [Next]_vars, misuse' = {} PROVE Good'
  BY DEF IInv
<1>1. Good
  BY MisuseStays DEF IInv
<1>2. CASE Instruction
  BY <1>1, <1>2, InstructionStep
<1>3. ASSUME NEW l \in Labels, LabelInstruction(l) PROVE Good'
  BY <1>1, <1>3, LabelInstructionStep
<1>4. ASSUME NEW l \in Labels, Label(l) PROVE Good'
  BY <1>1, <1>4, LabelStep
<1>5. CASE StringLine
  BY <1>1, <1>5, StringStep DEF StringLine
<1>6. CASE InitStack
  BY <1>1, <1>6, InitStackStep
<1>7. CASE Step
  BY <1>1, <1>7, StepStep
<1>8. CASE Run
  BY <1>1, <1>8, RunCommandStep
<1>9. CASE StepOver
  BY <1>1, <1>9, StepOverStep
<1>10. CASE RunStep
  BY <1>1, <1>10, RunStepStep
<1>11. CASE Reset
  BY <1>1, <1>11, ResetStep
<1>12. ASSUME NEW addr \in starts \cup {ltext}, Breakpoint(addr) PROVE Good'
  BY <1>1, <1>12, BreakpointStep
<1>13. CASE UNCHANGED vars
  BY <1>1, <1>13 DEF vars, Good, Types, Machine, Room, ready, Program, InstructionAt, Targets,
                     References, Text, Pointers, StackStart, Marked
<1> QED BY <1>2, <1>3, <1>4, <1>5, <1>6, <1>7, <1>8, <1>9, <1>10, <1>11, <1>12, <1>13 DEF Next

\* A session that agssim copes with keeps the invariant.
THEOREM SessionGood == Spec => []IInv
<1> QED BY InitLemma, StepLemma, PTL DEF Spec

\* The words of the text that is run are those of the source that was typed,
\* with the labels in their place: a breakpoint set or put back (toggle_bp), a
\* mark for a step over, a patched operand and a push change none of them, and
\* neither does the memory that grows or the stack that is put behind it.
THEOREM TextIsTheProgram == Spec => []CodeKept
<1>1. IInv => CodeKept
  BY DEF IInv, Good, Program, Text, CodeKept
<1> QED BY InitLemma, StepLemma, <1>1, PTL DEF Spec

\* resolve_label finds every operand that needs the label: those without an
\* address are those on the list, under a name that is not defined yet.
THEOREM ReferencesWait == Spec => []RefsWait
<1>1. IInv => RefsWait
  <2> SUFFICES ASSUME misuse = {}, Good PROVE RefsWait
    BY DEF IInv, RefsWait
  <2>1. {w \in 0..ltext-1 : vm.mem[w].v = Unresolved}
          = {w \in 0..ltext-1 : prog[w + 1] = Unresolved}
    BY DEF Good, Text
  <2> QED BY <2>1 DEF Good, References, RefsWait
<1> QED BY InitLemma, StepLemma, <1>1, PTL DEF Spec

\* A breakpoint stays on its instruction, whatever is stepped, run, resumed,
\* reset or typed afterwards.
THEOREM BreakpointsRemain == Spec => []BreakpointsStay
<1>1. IInv => BreakpointsStay
  BY DEF IInv, Good, Marked, BreakpointsStay
<1> QED BY InitLemma, StepLemma, <1>1, PTL DEF Spec

\* Of operands, of the words of a string and of the memory behind the text none
\* is ever taken for an instruction: jumps, returns and steps lead to one.
THEOREM InstructionsRun == Spec => []RunsInstructions
<1>1. IInv => RunsInstructions
  BY DEF IInv, Good, Pointers, Targets, RunsInstructions
<1> QED BY InitLemma, StepLemma, <1>1, PTL DEF Spec

\* The registers and the memory of such a session have their types, and the
\* stack pointer is inside the memory or where a reset left it.
THEOREM SessionTyped == Spec => [](misuse = {} => TypeOK)
<1>1. IInv => (misuse = {} => TypeOK)
  <2> SUFFICES ASSUME Good PROVE TypeOK
    BY DEF IInv
  <2>1. vm \in Machine /\ vm.mem \in [0..capa-1 -> Words] /\ vm.SP \in Int
        /\ vm.vm_return \in {0, 1}
    BY DEF Good, Types, Machine
  <2>2. vm.EIP \in 0..capa-1
    BY TargetsNat DEF Good, Pointers
  <2>3. vm.SP \in -4..4 * capa - 1
    <3>1. capa \in Nat /\ 5 <= capa
      BY TargetsNat
    <3>2. CASE ready
      BY <2>1, <3>1, <3>2, Layout DEF Good, Pointers
    <3>3. CASE ~ready
      BY <3>1, <3>3 DEF Good, Room
    <3> QED BY <3>2, <3>3
  <2>4. capa \in 0..MaxMem /\ lstack \in {0, StackWords} /\ pc \in {"input", "run", "exit"}
    BY TargetsNat, StackSize, SizesAssumption DEF Good, Room, Types
  <2> QED BY <2>1, <2>2, <2>3, <2>4 DEF TypeOK, Words
<1> QED BY InitLemma, StepLemma, <1>1, PTL DEF Spec

=============================================================================
