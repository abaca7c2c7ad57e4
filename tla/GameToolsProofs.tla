-------------------------- MODULE GameToolsProofs ---------------------------
(***************************************************************************)
(* Theorems about the tools that read and change games and rooms: what     *)
(* agsinject leaves of a game and of a room, what agscriptxtract dumps and *)
(* which flags agsalphahack clears, whatever the files are, however often  *)
(* the tools are run and wherever they are killed.                         *)
(***************************************************************************)
EXTENDS GameTools, SequenceTheorems, FiniteSetTheorems, WellFoundedInduction, TLAPS

Files == Seq(CELLS)

-----------------------------------------------------------------------------
(* Numbers and sequences                                                   *)

LEMMA Induction ==
  ASSUME NEW S \in SUBSET Nat, 0 \in S, \A n \in S : n + 1 \in S
  PROVE  S = Nat
<1> DEFINE R == OpToRel(<, Nat)
           Others == Nat \ S
<1>1. IsWellFoundedOn(R, Nat)
  BY NatLessThanWellFounded
<1>2. ASSUME Others # {} PROVE FALSE
  <2>1. PICK x \in Others : \A y \in Others : ~ (<<y, x>> \in R)
    <3> HIDE DEF R
    <3> QED BY <1>1, <1>2, WFMin
  <2>2. x \in Nat /\ x # 0 /\ x - 1 \in Nat /\ (x - 1) + 1 = x
    OBVIOUS
  <2>3. x - 1 \in Others
    BY <2>2
  <2>4. ~(x - 1 < x)
    <3>1. ~ (<<x - 1, x>> \in R)
      BY <2>1, <2>3
    <3> QED BY <2>2, <3>1 DEF OpToRel
  <2> QED BY <2>2, <2>4
<1> QED BY <1>2

\* The least of some numbers.
LEMMA MinIs ==
  ASSUME NEW S \in SUBSET Nat, S # {}
  PROVE  Min(S) \in S /\ \A y \in S : Min(S) <= y
<1> DEFINE R == OpToRel(<, Nat)
<1>1. IsWellFoundedOn(R, Nat)
  BY NatLessThanWellFounded
<1>2. PICK x \in S : \A y \in S : ~ (<<y, x>> \in R)
  <2> HIDE DEF R
  <2> QED BY <1>1, WFMin
<1>3. \A y \in S : x <= y
  <2> SUFFICES ASSUME NEW y \in S PROVE ~(y < x)
    OBVIOUS
  <2>1. ~(<<y, x>> \in R)
    BY <1>2
  <2> QED BY <2>1 DEF OpToRel
<1> QED BY <1>3 DEF Min

\* The cells of a file, read by their positions; none is like the end.
LEMMA Cells ==
  ASSUME NEW f \in Files
  PROVE  /\ Len(f) \in Nat /\ DOMAIN f = 1..Len(f) /\ f \in [1..Len(f) -> CELLS]
         /\ \A p \in Int : CellAt(f, p) = IF 0 <= p /\ p < Len(f) THEN f[p + 1] ELSE <<"eof">>
         /\ \A p \in 1..Len(f) : CellAt(f, p - 1) = f[p] /\ f[p] \in CELLS
<1>1. Len(f) \in Nat /\ DOMAIN f = 1..Len(f) /\ f \in [1..Len(f) -> CELLS]
  BY LenProperties DEF Files
<1>2. \A p \in Int : CellAt(f, p) = IF 0 <= p /\ p < Len(f) THEN f[p + 1] ELSE <<"eof">>
  BY <1>1 DEF CellAt
<1>3. ASSUME NEW p \in 1..Len(f) PROVE CellAt(f, p - 1) = f[p] /\ f[p] \in CELLS
  <2>1. p - 1 \in Int /\ 0 <= p - 1 /\ p - 1 < Len(f) /\ (p - 1) + 1 = p
    BY <1>1
  <2> QED BY <1>1, <1>2, <2>1
<1> QED BY <1>1, <1>2, <1>3

\* Two files with the same cells at the same positions.
LEMMA SameFile ==
  ASSUME NEW f \in Files, NEW g \in Files, Len(f) = Len(g),
         \A p \in 0..Len(f) - 1 : CellAt(f, p) = CellAt(g, p)
  PROVE  f = g
<1>1. \A k \in 1..Len(f) : f[k] = g[k]
  <2> TAKE k \in 1..Len(f)
  <2>1. k - 1 \in 0..Len(f) - 1
    BY Cells
  <2> QED BY <2>1, Cells
<1> QED BY <1>1, Cells

\* A part of a file.
LEMMA Part ==
  ASSUME NEW f \in Files, NEW m \in Nat \ {0}, NEW n \in Nat, n <= Len(f), m <= n + 1
  PROVE  /\ SubSeq(f, m, n) \in Files /\ Len(SubSeq(f, m, n)) = n - m + 1
         /\ \A q \in Int : 0 <= q /\ q < n - m + 1 =>
               CellAt(SubSeq(f, m, n), q) = CellAt(f, m - 1 + q)
<1>1. Len(f) \in Nat
  BY Cells
<1>2. \A k \in m..n : f[k] \in CELLS
  BY <1>1, Cells
<1>3. /\ SubSeq(f, m, n) \in Files
      /\ Len(SubSeq(f, m, n)) = IF m <= n THEN n - m + 1 ELSE 0
      /\ \A k \in 1..n - m + 1 : SubSeq(f, m, n)[k] = f[m + k - 1]
  BY <1>2, SubSeqProperties DEF Files
<1>4. Len(SubSeq(f, m, n)) = n - m + 1
  BY <1>3
<1>5. ASSUME NEW q \in Int, 0 <= q, q < n - m + 1
      PROVE  CellAt(SubSeq(f, m, n), q) = CellAt(f, m - 1 + q)
  <2>1. /\ q + 1 \in 1..n - m + 1 /\ m + (q + 1) - 1 = (m - 1 + q) + 1
        /\ m - 1 + q \in Int /\ 0 <= m - 1 + q /\ m - 1 + q < Len(f)
    BY <1>1, <1>5
  <2>2. CellAt(SubSeq(f, m, n), q) = SubSeq(f, m, n)[q + 1]
    BY <1>3, <1>4, <1>5, Cells
  <2>3. SubSeq(f, m, n)[q + 1] = f[m + (q + 1) - 1]
    BY <1>3, <2>1
  <2>4. CellAt(f, m - 1 + q) = f[(m - 1 + q) + 1]
    BY <2>1, Cells
  <2> QED BY <2>1, <2>2, <2>3, <2>4
<1> QED BY <1>3, <1>4, <1>5

LEMMA Joined ==
  ASSUME NEW f \in Files, NEW g \in Files
  PROVE  /\ f \o g \in Files /\ Len(f \o g) = Len(f) + Len(g)
         /\ \A q \in Int : q < Len(f) => CellAt(f \o g, q) = CellAt(f, q)
         /\ \A q \in Int : 0 <= q => CellAt(f \o g, Len(f) + q) = CellAt(g, q)
<1>1. Len(f) \in Nat /\ Len(g) \in Nat
  BY Cells
<1>2. /\ f \o g \in Files /\ Len(f \o g) = Len(f) + Len(g)
      /\ \A k \in 1..Len(f) + Len(g) : (f \o g)[k] = IF k <= Len(f) THEN f[k] ELSE g[k - Len(f)]
  BY ConcatProperties DEF Files
<1>3. ASSUME NEW q \in Int, q < Len(f) PROVE CellAt(f \o g, q) = CellAt(f, q)
  <2>1. CASE q < 0
    BY <1>2, <2>1, Cells
  <2>2. CASE 0 <= q
    <3>1. q + 1 \in 1..Len(f) + Len(g) /\ q + 1 <= Len(f) /\ q < Len(f \o g)
      BY <1>1, <1>2, <1>3, <2>2
    <3>2. CellAt(f \o g, q) = (f \o g)[q + 1]
      BY <1>2, <2>2, <3>1, Cells
    <3>3. CellAt(f, q) = f[q + 1]
      BY <1>3, <2>2, Cells
    <3> QED BY <1>2, <3>1, <3>2, <3>3
  <2> QED BY <2>1, <2>2
<1>4. ASSUME NEW q \in Int, 0 <= q PROVE CellAt(f \o g, Len(f) + q) = CellAt(g, q)
  <2>1. PICK n \in Nat, m \in Nat : n = Len(f) /\ m = Len(g)
    BY <1>1
  <2>2. n + q \in Int /\ 0 <= n + q
    BY <1>4
  <2>3. CASE q < m
    <3>1. /\ n + q + 1 \in 1..n + m /\ ~(n + q + 1 <= n) /\ (n + q + 1) - n = q + 1
          /\ n + q < n + m
      BY <1>4, <2>3
    <3>2. CellAt(f \o g, n + q) = (f \o g)[n + q + 1]
      BY <1>2, <2>1, <2>2, <3>1, Cells
    <3>3. CellAt(g, q) = g[q + 1]
      BY <1>4, <2>1, <2>3, Cells
    <3> QED BY <1>2, <2>1, <3>1, <3>2, <3>3
  <2>4. CASE ~(q < m)
    <3>1. ~(n + q < n + m)
      BY <1>4, <2>4
    <3>2. CellAt(f \o g, n + q) = <<"eof">>
      BY <1>2, <2>1, <2>2, <3>1, Cells
    <3>3. CellAt(g, q) = <<"eof">>
      BY <1>4, <2>1, <2>4, Cells
    <3> QED BY <2>1, <3>2, <3>3
  <2> QED BY <2>3, <2>4
<1> QED BY <1>2, <1>3, <1>4

\* g is f with the n cells from p on become those of o.
SplicedAt(g, f, o, p, n) ==
  /\ g \in Files /\ Len(g) = Len(f) - n + Len(o)
  /\ \A q \in Int : q < p => CellAt(g, q) = CellAt(f, q)
  /\ \A q \in Int : 0 <= q /\ q < Len(o) => CellAt(g, p + q) = CellAt(o, q)
  /\ \A q \in Int : p + n <= q => CellAt(g, q - n + Len(o)) = CellAt(f, q)

\* A file one part of which has become another: what was before the part stays
\* where it was, what was behind it is behind the new part.
LEMMA Spliced ==
  ASSUME NEW f \in Files, NEW o \in Files, NEW p, p \in Nat, NEW n, n \in Nat, p + n <= Len(f)
  PROVE  SplicedAt(SubSeq(f, 1, p) \o o \o SubSeq(f, p + n + 1, Len(f)), f, o, p, n)
<1> DEFINE g == SubSeq(f, 1, p) \o o \o SubSeq(f, p + n + 1, Len(f))
           a == SubSeq(f, 1, p)
           r == SubSeq(f, p + n + 1, Len(f))
<1>1. PICK l \in Nat, m \in Nat : l = Len(f) /\ m = Len(o)
  BY Cells
<1>2. /\ a \in Files /\ Len(a) = p
      /\ \A q \in Int : 0 <= q /\ q < p => CellAt(a, q) = CellAt(f, q)
  <2>1. 1 \in Nat \ {0} /\ p <= Len(f) /\ 1 <= p + 1 /\ p - 1 + 1 = p
        /\ \A q \in Int : 1 - 1 + q = q
    BY <1>1
  <2> QED BY <2>1, Part
<1>3. /\ r \in Files /\ Len(r) = l - (p + n)
      /\ \A q \in Int : 0 <= q /\ q < l - (p + n) => CellAt(r, q) = CellAt(f, p + n + q)
  <2>1. /\ p + n + 1 \in Nat \ {0} /\ l <= l /\ p + n + 1 <= l + 1
        /\ l - (p + n + 1) + 1 = l - (p + n)
        /\ \A q \in Int : (p + n + 1) - 1 + q = p + n + q
    BY <1>1
  <2> QED BY <1>1, <2>1, Part
<1> HIDE DEF g, a, r
<1>4. /\ a \o o \in Files /\ Len(a \o o) = p + m
      /\ \A q \in Int : q < p => CellAt(a \o o, q) = CellAt(a, q)
      /\ \A q \in Int : 0 <= q => CellAt(a \o o, p + q) = CellAt(o, q)
  BY <1>1, <1>2, Joined
<1>5. /\ g \in Files /\ Len(g) = (p + m) + (l - (p + n))
      /\ \A q \in Int : q < p + m => CellAt(g, q) = CellAt(a \o o, q)
      /\ \A q \in Int : 0 <= q => CellAt(g, (p + m) + q) = CellAt(r, q)
  <2>1. g = (a \o o) \o r
    BY DEF g, a, r
  <2>2. PICK h \in Files : h = a \o o
    BY <1>4
  <2>3. /\ h \o r \in Files /\ Len(h \o r) = Len(h) + Len(r)
        /\ \A q \in Int : q < Len(h) => CellAt(h \o r, q) = CellAt(h, q)
        /\ \A q \in Int : 0 <= q => CellAt(h \o r, Len(h) + q) = CellAt(r, q)
    BY <1>3, Joined
  <2> QED BY <1>3, <1>4, <2>1, <2>2, <2>3
<1>6. Len(g) = l - n + m
  <2>1. (p + m) + (l - (p + n)) = l - n + m
    OBVIOUS
  <2> QED BY <1>5, <2>1
<1>7. ASSUME NEW q \in Int, q < p PROVE CellAt(g, q) = CellAt(f, q)
  <2>1. q < p + m
    BY <1>1, <1>7
  <2>2. CellAt(g, q) = CellAt(a, q)
    BY <1>4, <1>5, <1>7, <2>1
  <2>3. CASE q < 0
    <3>1. CellAt(a, q) = <<"eof">> /\ CellAt(f, q) = <<"eof">>
      BY <1>2, <2>3, Cells
    <3> QED BY <2>2, <3>1
  <2>4. CASE 0 <= q
    <3>1. CellAt(a, q) = CellAt(f, q)
      BY <1>2, <1>7, <2>4
    <3> QED BY <2>2, <3>1
  <2> QED BY <2>3, <2>4
<1>8. ASSUME NEW q \in Int, 0 <= q, q < m PROVE CellAt(g, p + q) = CellAt(o, q)
  <2>1. p + q < p + m /\ p + q \in Int
    BY <1>8
  <2> QED BY <1>4, <1>5, <1>8, <2>1
<1>9. ASSUME NEW q \in Int, p + n <= q PROVE CellAt(g, q - n + m) = CellAt(f, q)
  <2>1. PICK i \in Nat : i = q - (p + n)
    BY <1>9
  <2>2. q - n + m = (p + m) + i /\ q = p + n + i
    BY <2>1
  <2>3. CellAt(g, q - n + m) = CellAt(r, i)
    BY <1>5, <2>2
  <2>4. CASE i < l - (p + n)
    BY <1>3, <2>2, <2>3, <2>4
  <2>5. CASE ~(i < l - (p + n))
    <3>1. ~(q < l)
      BY <2>2, <2>5
    <3>2. CellAt(r, i) = <<"eof">> /\ CellAt(f, q) = <<"eof">>
      BY <1>1, <1>3, <2>5, <3>1, Cells
    <3> QED BY <2>3, <3>2
  <2> QED BY <2>4, <2>5
<1>10. SplicedAt(g, f, o, p, n)
  BY <1>1, <1>5, <1>6, <1>7, <1>8, <1>9 DEF SplicedAt
<1> QED BY <1>10 DEF g

-----------------------------------------------------------------------------
(* Signatures and the search for them                                      *)

\* The four letters at a position, and that one letter is not another.
LettersAt(f, p) ==
  /\ CellAt(f, p) = <<"S">> /\ CellAt(f, p + 1) = <<"C">>
  /\ CellAt(f, p + 2) = <<"O">> /\ CellAt(f, p + 3) = <<"M">>

LEMMA Letters ==
  /\ SCOM[1] = <<"S">> /\ SCOM[2] = <<"C">> /\ SCOM[3] = <<"O">> /\ SCOM[4] = <<"M">>
  /\ \A j, k \in 1..4 : SCOM[j] = SCOM[k] => j = k
  /\ \A k \in 1..4 : SCOM[k][1] \in {"S", "C", "O", "M"} /\ SCOM[k] # <<"eof">>
<1>1. SCOM[1] = <<"S">> /\ SCOM[2] = <<"C">> /\ SCOM[3] = <<"O">> /\ SCOM[4] = <<"M">>
  BY DEF SCOM
<1>2. \A k \in 1..4 : SCOM[k][1] = IF k = 1 THEN "S" ELSE IF k = 2 THEN "C" ELSE
                                   IF k = 3 THEN "O" ELSE "M"
  BY <1>1
<1>3. \A j, k \in 1..4 : SCOM[j] = SCOM[k] => j = k
  BY <1>2
<1>4. ASSUME NEW k \in 1..4 PROVE SCOM[k][1] \in {"S", "C", "O", "M"} /\ SCOM[k] # <<"eof">>
  <2>1. SCOM[k][1] \in {"S", "C", "O", "M"}
    BY <1>2
  <2>2. <<"eof">>[1] = "eof"
    OBVIOUS
  <2> QED BY <2>1, <2>2
<1> QED BY <1>1, <1>3, <1>4

LEMMA SignatureIs ==
  ASSUME NEW f, NEW p \in Int
  PROVE  SignatureAt(f, p) <=> LettersAt(f, p)
<1>1. SignatureAt(f, p) <=> \A k \in {1, 2, 3, 4} : CellAt(f, p + k - 1) = SCOM[k]
  <2>1. 1..4 = {1, 2, 3, 4}
    OBVIOUS
  <2> QED BY <2>1 DEF SignatureAt
<1>2. p + 1 - 1 = p /\ p + 2 - 1 = p + 1 /\ p + 3 - 1 = p + 2 /\ p + 4 - 1 = p + 3
  OBVIOUS
<1> QED BY <1>1, <1>2, Letters DEF LettersAt

LEMMA Signed ==
  ASSUME NEW f \in Files, NEW p \in Int
  PROVE  p \in Signatures(f) <=> LettersAt(f, p)
<1>1. ASSUME LettersAt(f, p) PROVE p \in 0..Len(f) - 4
  <2>1. CellAt(f, p) # <<"eof">> /\ CellAt(f, p + 3) # <<"eof">>
    BY <1>1, Letters DEF LettersAt
  <2>2. 0 <= p /\ p < Len(f) /\ p + 3 < Len(f) /\ Len(f) \in Nat
    BY <2>1, Cells
  <2> QED BY <2>2
<1> QED BY <1>1, SignatureIs DEF Signatures

LEMMA SignaturesFinite ==
  ASSUME NEW f \in Files
  PROVE  /\ Signatures(f) \in SUBSET Nat /\ IsFiniteSet(Signatures(f))
         /\ \A p \in Signatures(f) : p + 4 <= Len(f)
<1>1. Len(f) \in Nat
  BY Cells
<1>2. Signatures(f) \subseteq 0..Len(f) - 4
  BY DEF Signatures
<1>3. IsFiniteSet(0..Len(f) - 4)
  BY <1>1, FS_Interval
<1>4. IsFiniteSet(Signatures(f))
  BY <1>2, <1>3, FS_Subset
<1> QED BY <1>1, <1>2, <1>4

-----------------------------------------------------------------------------
(* Functions defined by what the one before it makes of each value          *)

IteratedBy(g, V, v0, F, N) ==
  g \in [0..N -> V] /\ g[0] = v0 /\ \A n \in 1..N : g[n] = F[n][g[n - 1]]

LEMMA Iterated ==
  ASSUME NEW V, NEW v0 \in V, NEW F \in [Nat -> [V -> V]], NEW N \in Nat
  PROVE  \E g : IteratedBy(g, V, v0, F, N)
<1> DEFINE Has(m) == \E g \in [0..m -> V] : g[0] = v0 /\ \A n \in 1..m : g[n] = F[n][g[n - 1]]
           S == {m \in Nat : Has(m)}
<1>1. Has(0)
  <2> DEFINE g == [n \in 0..0 |-> v0]
  <2>1. g \in [0..0 -> V] /\ g[0] = v0
    OBVIOUS
  <2>2. 1..0 = {}
    OBVIOUS
  <2> HIDE DEF g
  <2> QED BY <2>1, <2>2
<1>2. ASSUME NEW m \in Nat, Has(m) PROVE Has(m + 1)
  <2>1. PICK h \in [0..m -> V] : h[0] = v0 /\ \A n \in 1..m : h[n] = F[n][h[n - 1]]
    BY <1>2
  <2> DEFINE g == [n \in 0..m + 1 |-> IF n = m + 1 THEN F[m + 1][h[m]] ELSE h[n]]
  <2>2. g \in [0..m + 1 -> V]
    <3>1. F[m + 1][h[m]] \in V
      BY <2>1
    <3>2. ASSUME NEW n \in 0..m + 1 PROVE g[n] \in V
      <4>1. CASE n = m + 1
        BY <3>1, <4>1
      <4>2. CASE n # m + 1
        <5>1. n \in 0..m
          BY <4>2
        <5> QED BY <2>1, <4>2, <5>1
      <4> QED BY <4>1, <4>2
    <3> QED BY <3>2
  <2>3. g[0] = v0
    <3>1. 0 \in 0..m + 1 /\ 0 # m + 1
      OBVIOUS
    <3> QED BY <2>1, <3>1
  <2>4. ASSUME NEW n \in 1..m + 1 PROVE g[n] = F[n][g[n - 1]]
    <3>1. n - 1 \in 0..m + 1 /\ n - 1 # m + 1 /\ n \in 0..m + 1
      OBVIOUS
    <3>2. g[n - 1] = h[n - 1]
      BY <3>1
    <3>3. CASE n = m + 1
      <4>1. g[n] = F[n][h[m]] /\ n - 1 = m
        BY <3>1, <3>3
      <4> HIDE DEF g
      <4> QED BY <3>2, <4>1
    <3>4. CASE n # m + 1
      <4>1. g[n] = h[n] /\ n \in 1..m
        BY <3>1, <3>4
      <4> HIDE DEF g
      <4> QED BY <2>1, <3>2, <4>1
    <3> QED BY <3>3, <3>4
  <2> HIDE DEF g
  <2> QED BY <2>2, <2>3, <2>4
<1> HIDE DEF Has
<1>3. S = Nat
  <2>1. 0 \in S /\ \A m \in S : m + 1 \in S
    BY <1>1, <1>2
  <2>2. S \in SUBSET Nat
    OBVIOUS
  <2> HIDE DEF S
  <2> QED BY <2>1, <2>2, Induction
<1>4. Has(N)
  BY <1>3
<1> QED BY <1>4 DEF Has, IteratedBy

\* Where each value is one of V when the one before it is, all of them are.
LEMMA IteratedIn ==
  ASSUME NEW V, NEW N \in Nat, NEW g, g[0] \in V,
         \A n \in 1..N : g[n - 1] \in V => g[n] \in V
  PROVE  \A n \in 0..N : g[n] \in V
<1> DEFINE S == {m \in Nat : m <= N => g[m] \in V}
<1>1. 0 \in S
  OBVIOUS
<1>2. ASSUME NEW m \in S PROVE m + 1 \in S
  <2>1. CASE m + 1 <= N
    <3>1. m \in Nat /\ m <= N /\ m + 1 \in 1..N /\ (m + 1) - 1 = m
      BY <2>1
    <3>2. g[m] \in V
      BY <3>1
    <3>3. g[m + 1] \in V
      BY <3>1, <3>2
    <3> QED BY <3>1, <3>3
  <2>2. CASE ~(m + 1 <= N)
    BY <2>2
  <2> QED BY <2>1, <2>2
<1>3. S = Nat
  <2>1. S \in SUBSET Nat
    OBVIOUS
  <2> HIDE DEF S
  <2> QED BY <1>1, <1>2, <2>1, Induction
<1>4. ASSUME NEW n \in 0..N PROVE g[n] \in V
  <2>1. n \in S /\ n <= N
    BY <1>3
  <2> QED BY <2>1
<1> QED BY <1>4

-----------------------------------------------------------------------------
(* The search                                                              *)

MatchesOf(m, f, start) ==
  m = [n \in 0..Len(f) - start |-> IF n = 0 THEN 0 ELSE Matched(m[n - 1], f[start + n])]

LEMMA MatchedIn ==
  ASSUME NEW m \in 0..4, NEW c
  PROVE  /\ Matched(m, c) \in 0..4
         /\ Matched(4, c) = 4
         /\ m < 4 /\ c = SCOM[m + 1] => Matched(m, c) = m + 1
         /\ m < 4 /\ c # SCOM[m + 1] => Matched(m, c) = 0
         /\ m < 4 /\ Matched(m, c) # 0 => c = SCOM[m + 1] /\ Matched(m, c) = m + 1
  BY DEF Matched

LEMMA MatchesExist ==
  ASSUME NEW f, NEW start, Len(f) - start \in Nat
  PROVE  \E m : MatchesOf(m, f, start)
<1> DEFINE V == 0..4
           F == [n \in Nat |-> [v \in V |-> Matched(v, f[start + n])]]
           N == Len(f) - start
<1>1. F \in [Nat -> [V -> V]]
  BY MatchedIn
<1>2. 0 \in V /\ N \in Nat
  OBVIOUS
<1>3. \A n \in Nat, v \in V : F[n][v] = Matched(v, f[start + n])
  OBVIOUS
<1> HIDE DEF F, V, N
<1>4. PICK g : g \in [0..N -> V] /\ g[0] = 0 /\ \A n \in 1..N : g[n] = F[n][g[n - 1]]
  <2>1. \E g : IteratedBy(g, V, 0, F, N)
    BY <1>1, <1>2, Iterated
  <2> QED BY <2>1 DEF IteratedBy
<1>5. ASSUME NEW n \in 0..N, n # 0 PROVE g[n] = Matched(g[n - 1], f[start + n])
  <2>1. n \in 1..N /\ n \in Nat /\ n - 1 \in 0..N
    BY <1>2, <1>5
  <2>2. g[n - 1] \in V
    BY <1>4, <2>1
  <2>3. g[n] = F[n][g[n - 1]]
    BY <1>4, <2>1
  <2>4. F[n][g[n - 1]] = Matched(g[n - 1], f[start + n])
    BY <1>3, <2>1, <2>2
  <2> QED BY <2>3, <2>4
<1>6. \A n \in 0..N : g[n] = IF n = 0 THEN 0 ELSE Matched(g[n - 1], f[start + n])
  BY <1>4, <1>5
<1>7. g = [n \in 0..N |-> g[n]]
  BY <1>4
<1>8. g = [n \in 0..N |-> IF n = 0 THEN 0 ELSE Matched(g[n - 1], f[start + n])]
  BY <1>6, <1>7, Zenon
<1> QED BY <1>8 DEF MatchesOf, N

\* No letter stands before a signature: the search cannot trip.
Untripped(f) == \A p \in Signatures(f) : Kind(f, p - 1) \notin {"S", "C", "O", "M"}

LEMMA MatchSteps ==
  ASSUME NEW f \in Files, NEW start \in Nat, start <= Len(f), NEW m, MatchesOf(m, f, start)
  PROVE  /\ m[0] = 0 /\ \A n \in 0..Len(f) - start : m[n] \in 0..4
         /\ \A n \in 1..Len(f) - start : m[n] = Matched(m[n - 1], CellAt(f, start + n - 1))
<1> DEFINE N == Len(f) - start
<1>1. N \in Nat /\ Len(f) \in Nat
  BY Cells
<1>2. m[0] = 0 /\ \A n \in 1..N : m[n] = Matched(m[n - 1], f[start + n])
  BY <1>1 DEF MatchesOf
<1>3. \A n \in 1..N : m[n] = Matched(m[n - 1], CellAt(f, start + n - 1))
  <2> TAKE n \in 1..N
  <2>1. start + n - 1 = (start + n) - 1 /\ start + n \in 1..Len(f)
    BY <1>1
  <2> QED BY <1>2, <2>1, Cells
<1>4. \A n \in 0..N : m[n] \in 0..4
  <2>1. \A n \in 1..N : m[n - 1] \in 0..4 => m[n] \in 0..4
    BY <1>2, MatchedIn
  <2>2. m[0] \in 0..4
    BY <1>2
  <2> HIDE DEF N
  <2> QED BY <1>1, <2>1, <2>2, IteratedIn
<1> QED BY <1>2, <1>3, <1>4

\* Where the search hits first, it has read a signature ...
LEMMA HitIsSignature ==
  ASSUME NEW f \in Files, NEW start \in Nat, start <= Len(f), NEW m, MatchesOf(m, f, start),
         NEW n \in 0..Len(f) - start, m[n] = 4,
         \A j \in 0..Len(f) - start : m[j] = 4 => n <= j
  PROVE  start + n - 4 \in Signatures(f) /\ n >= 4
<1>1. /\ m[0] = 0 /\ \A j \in 0..Len(f) - start : m[j] \in 0..4
      /\ \A j \in 1..Len(f) - start : m[j] = Matched(m[j - 1], CellAt(f, start + j - 1))
  BY MatchSteps
<1>2. Len(f) \in Nat
  BY Cells
<1>3. ASSUME NEW j \in 0..n, NEW k \in 1..4, m[j] = k
      PROVE  j >= 1 /\ CellAt(f, start + j - 1) = SCOM[k] /\ m[j - 1] = k - 1
  <2>1. j >= 1 /\ j \in 1..Len(f) - start /\ j - 1 \in 0..Len(f) - start /\ ~(n <= j - 1)
    BY <1>1, <1>2, <1>3
  <2>2. m[j - 1] \in 0..4 /\ m[j - 1] # 4
    BY <1>1, <2>1
  <2>3. Matched(m[j - 1], CellAt(f, start + j - 1)) = k
    BY <1>1, <1>3, <2>1
  <2>4. PICK i \in 0..4 : i = m[j - 1]
    BY <2>2
  <2>5. i < 4 /\ Matched(i, CellAt(f, start + j - 1)) # 0
    BY <2>2, <2>3, <2>4
  <2>6. CellAt(f, start + j - 1) = SCOM[i + 1] /\ Matched(i, CellAt(f, start + j - 1)) = i + 1
    BY <2>5, MatchedIn
  <2>7. i + 1 = k /\ i = k - 1
    BY <2>3, <2>4, <2>6
  <2> QED BY <2>1, <2>4, <2>6, <2>7
<1>4. n >= 1 /\ CellAt(f, start + n - 1) = SCOM[4] /\ m[n - 1] = 3
  BY <1>2, <1>3
<1>5. n - 1 >= 1 /\ CellAt(f, start + (n - 1) - 1) = SCOM[3] /\ m[(n - 1) - 1] = 2
  <2>1. n - 1 \in 0..n
    BY <1>2, <1>4
  <2> QED BY <1>3, <1>4, <2>1
<1>6. n - 2 >= 1 /\ CellAt(f, start + (n - 2) - 1) = SCOM[2] /\ m[(n - 2) - 1] = 1
  <2>1. n - 2 \in 0..n /\ (n - 1) - 1 = n - 2
    BY <1>2, <1>5
  <2> QED BY <1>3, <1>5, <2>1
<1>7. n - 3 >= 1 /\ CellAt(f, start + (n - 3) - 1) = SCOM[1]
  <2>1. n - 3 \in 0..n /\ (n - 2) - 1 = n - 3
    BY <1>2, <1>6
  <2> QED BY <1>3, <1>6, <2>1
<1>8. PICK p \in Int : p = start + n - 4
  BY <1>2
<1>9. /\ start + (n - 3) - 1 = p /\ start + (n - 2) - 1 = p + 1
      /\ start + (n - 1) - 1 = p + 2 /\ start + n - 1 = p + 3
  BY <1>2, <1>8
<1>10. LettersAt(f, p)
  BY <1>4, <1>5, <1>6, <1>7, <1>9, Letters DEF LettersAt
<1> QED BY <1>2, <1>7, <1>8, <1>10, Signed

\* ... and it hits at every signature it comes to, or has hit before.
LEMMA SignatureHit ==
  ASSUME NEW f \in Files, NEW start \in Nat, start <= Len(f), NEW m, MatchesOf(m, f, start),
         Untripped(f), NEW p \in Signatures(f), start <= p
  PROVE  \E n \in 0..Len(f) - start : m[n] = 4 /\ n <= p - start + 4
<1>1. /\ m[0] = 0 /\ \A j \in 0..Len(f) - start : m[j] \in 0..4
      /\ \A j \in 1..Len(f) - start : m[j] = Matched(m[j - 1], CellAt(f, start + j - 1))
  BY MatchSteps
<1>2. Len(f) \in Nat /\ p \in Nat /\ p + 4 <= Len(f)
  BY Cells, SignaturesFinite
<1>3. PICK d \in Nat : d = p - start
  BY <1>2
<1>4. d + 4 \in 0..Len(f) - start /\ p = start + d
  BY <1>2, <1>3
<1>5. m[d] \in {0, 4}
  <2>1. CASE d = 0
    BY <1>1, <2>1
  <2>2. CASE d # 0
    <3>1. d \in 1..Len(f) - start /\ d - 1 \in 0..Len(f) - start /\ start + d - 1 = p - 1
      BY <1>2, <1>4, <2>2
    <3>2. Kind(f, p - 1) \notin {"S", "C", "O", "M"}
      BY DEF Untripped
    <3>3. \A k \in 1..4 : CellAt(f, p - 1) # SCOM[k]
      BY <3>2, Letters DEF Kind
    <3>4. PICK i \in 0..4 : i = m[d - 1]
      BY <1>1, <3>1
    <3>5. m[d] = Matched(i, CellAt(f, p - 1))
      BY <1>1, <3>1, <3>4
    <3>6. CASE i = 4
      BY <3>5, <3>6, MatchedIn
    <3>7. CASE i # 4
      <4>1. i < 4 /\ i + 1 \in 1..4
        BY <3>7
      <4>2. Matched(i, CellAt(f, p - 1)) = 0
        BY <3>3, <4>1, MatchedIn
      <4> QED BY <3>5, <4>2
    <3> QED BY <3>6, <3>7
  <2> QED BY <2>1, <2>2
<1>6. CASE m[d] = 4
  <2>1. d \in 0..Len(f) - start /\ d <= p - start + 4
    BY <1>2, <1>3, <1>4
  <2> QED BY <1>6, <2>1
<1>7. CASE m[d] = 0
  <2>1. LettersAt(f, start + d)
    BY <1>2, <1>4, Signed
  <2>2. ASSUME NEW k \in 1..4, m[d + k - 1] = k - 1, CellAt(f, start + d + k - 1) = SCOM[k]
        PROVE  m[d + k] = k
    <3>1. /\ d + k \in 1..Len(f) - start /\ (d + k) - 1 = d + k - 1
          /\ start + (d + k) - 1 = start + d + k - 1
      BY <1>2, <1>4
    <3>2. m[d + k] = Matched(k - 1, CellAt(f, start + d + k - 1))
      BY <1>1, <2>2, <3>1
    <3>3. k - 1 \in 0..4 /\ k - 1 < 4 /\ (k - 1) + 1 = k
      OBVIOUS
    <3> QED BY <2>2, <3>2, <3>3, MatchedIn
  <2>3. /\ start + d + 1 - 1 = start + d /\ start + d + 2 - 1 = start + d + 1
        /\ start + d + 3 - 1 = start + d + 2 /\ start + d + 4 - 1 = start + d + 3
        /\ d + 1 - 1 = d /\ d + 2 - 1 = d + 1 /\ d + 3 - 1 = d + 2 /\ d + 4 - 1 = d + 3
        /\ 1 - 1 = 0 /\ 2 - 1 = 1 /\ 3 - 1 = 2 /\ 4 - 1 = 3
    OBVIOUS
  <2>4. m[d + 1] = 1
    BY <1>7, <2>1, <2>2, <2>3, Letters, SMTT(30) DEF LettersAt
  <2>5. m[d + 2] = 2
    BY <2>1, <2>2, <2>3, <2>4, Letters DEF LettersAt
  <2>6. m[d + 3] = 3
    BY <2>1, <2>2, <2>3, <2>5, Letters DEF LettersAt
  <2>7. m[d + 4] = 4
    BY <2>1, <2>2, <2>3, <2>6, Letters, SMTT(30) DEF LettersAt
  <2>8. d + 4 <= p - start + 4
    BY <1>2, <1>3
  <2> QED BY <1>4, <2>7, <2>8
<1> QED BY <1>5, <1>6, <1>7

\* The search finds the next signature: the least one from its start on.
Behind(f, start) == {p \in Signatures(f) : start <= p}

LEMMA Searched ==
  ASSUME NEW f \in Files, NEW start \in Nat, start <= Len(f), Untripped(f)
  PROVE  LET p == ARF_find_code_start(f, start)
         IN  IF Behind(f, start) = {} THEN p = NotFound
             ELSE p \in Behind(f, start) /\ \A q \in Behind(f, start) : p <= q
<1> DEFINE m == CHOOSE m : MatchesOf(m, f, start)
           N == Len(f) - start
           hits == {n \in 0..N : m[n] = 4}
<1>1. N \in Nat /\ Len(f) \in Nat
  BY Cells
<1>2. MatchesOf(m, f, start)
  BY <1>1, MatchesExist
<1>3. ARF_find_code_start(f, start) = IF hits = {} THEN NotFound ELSE start + Min(hits) - 4
  BY DEF ARF_find_code_start, MatchesOf
<1> HIDE DEF m
<1>4. hits \in SUBSET Nat /\ hits = {n \in 0..N : m[n] = 4}
  BY <1>1
<1> HIDE DEF hits
<1>5. ASSUME hits # {}
      PROVE  /\ Min(hits) \in Nat /\ start + Min(hits) - 4 \in Behind(f, start)
             /\ \A q \in Behind(f, start) : start + Min(hits) - 4 <= q
  <2>1. PICK n \in hits : n = Min(hits) /\ \A j \in hits : n <= j
    BY <1>4, <1>5, MinIs
  <2>2. n \in 0..N /\ m[n] = 4 /\ \A j \in 0..N : m[j] = 4 => n <= j
    BY <1>4, <2>1
  <2>3. start + n - 4 \in Signatures(f) /\ n >= 4
    BY <1>2, <2>2, HitIsSignature
  <2>4. start + n - 4 \in Behind(f, start)
    BY <1>1, <2>2, <2>3 DEF Behind
  <2>5. ASSUME NEW q \in Behind(f, start) PROVE start + n - 4 <= q
    <3>1. q \in Signatures(f) /\ start <= q /\ q \in Nat
      BY SignaturesFinite DEF Behind
    <3>2. PICK j \in 0..N : m[j] = 4 /\ j <= q - start + 4
      BY <1>2, <3>1, SignatureHit
    <3>3. n <= j
      BY <2>2, <3>2
    <3> QED BY <1>1, <2>2, <3>1, <3>2, <3>3
  <2> QED BY <1>1, <2>1, <2>2, <2>4, <2>5
<1>6. ASSUME hits = {} PROVE Behind(f, start) = {}
  <2> SUFFICES ASSUME NEW q \in Behind(f, start) PROVE FALSE
    OBVIOUS
  <2>1. q \in Signatures(f) /\ start <= q
    BY DEF Behind
  <2>2. PICK j \in 0..N : m[j] = 4
    BY <1>2, <2>1, SignatureHit
  <2> QED BY <1>4, <1>6, <2>2
<1>7. CASE hits = {}
  BY <1>3, <1>6, <1>7
<1>8. CASE hits # {}
  BY <1>3, <1>5, <1>8
<1> QED BY <1>7, <1>8

-----------------------------------------------------------------------------
(* Scripts, and files in which one script has become another               *)

LEMMA ScriptIs ==
  ASSUME NEW f \in Files, NEW p \in Int, NEW n, n = ASI_read_script(f, p), n # 0
  PROVE  /\ n \in Nat /\ n >= 6 /\ p \in Signatures(f) /\ p + n <= Len(f)
         /\ LettersAt(f, p) /\ Kind(f, p + n - 1) = "end"
         /\ CellAt(f, p + 4)[1] = "size" /\ CellAt(f, p + 4)[2] = n - 6
<1> DEFINE size == CellAt(f, p + 4)
<1>1. /\ SignatureAt(f, p) /\ size[1] = "size"
      /\ Kind(f, p + 5 + size[2]) = "end" /\ n = size[2] + 6
  BY DEF ASI_read_script
<1>2. LettersAt(f, p) /\ p \in Signatures(f)
  BY <1>1, SignatureIs, Signed
<1>3. size \in CELLS
  <2>1. <<"eof">>[1] = "eof"
    OBVIOUS
  <2>2. size # <<"eof">>
    BY <1>1, <2>1
  <2> HIDE DEF size
  <2>3. size = IF 0 <= p + 4 /\ p + 4 < Len(f) THEN f[(p + 4) + 1] ELSE <<"eof">>
    BY Cells DEF size
  <2>4. 0 <= p + 4 /\ p + 4 < Len(f) /\ size = f[(p + 4) + 1]
    BY <2>2, <2>3
  <2>5. (p + 4) + 1 \in 1..Len(f)
    BY <2>4, Cells
  <2> QED BY <2>4, <2>5, Cells
<1>4. size[2] \in Nat
  BY <1>1, <1>3, CellsAssumption
<1> HIDE DEF size
<1>5. PICK k \in Nat : k = size[2]
  BY <1>4
<1>6. n = k + 6 /\ p + 5 + k = p + n - 1
  BY <1>1, <1>5
<1>7. Kind(f, p + n - 1) = "end"
  BY <1>1, <1>5, <1>6
<1>8. p + n <= Len(f)
  <2>1. <<"eof">>[1] = "eof"
    OBVIOUS
  <2>2. CellAt(f, p + n - 1) # <<"eof">>
    BY <1>7, <2>1 DEF Kind
  <2>3. p + n - 1 < Len(f) /\ Len(f) \in Nat
    BY <1>6, <2>2, Cells
  <2> QED BY <1>6, <2>3
<1>9. n \in Nat /\ n >= 6 /\ k = n - 6
  BY <1>6
<1>10. CellAt(f, p + 4)[1] = "size" /\ CellAt(f, p + 4)[2] = k
  BY <1>1, <1>5 DEF size
<1> QED BY <1>2, <1>7, <1>8, <1>9, <1>10

\* The same cells elsewhere are as long a script.
LEMMA SameScript ==
  ASSUME NEW f \in Files, NEW g \in Files, NEW p \in Int, NEW q \in Int,
         NEW n, n = ASI_read_script(f, p), n # 0,
         \A i \in Int : 0 <= i /\ i < n => CellAt(g, q + i) = CellAt(f, p + i)
  PROVE  ASI_read_script(g, q) = n
<1>1. /\ n \in Nat /\ n >= 6 /\ LettersAt(f, p) /\ Kind(f, p + n - 1) = "end"
      /\ CellAt(f, p + 4)[1] = "size" /\ CellAt(f, p + 4)[2] = n - 6
  BY ScriptIs
<1>2. /\ CellAt(g, q) = CellAt(f, p) /\ CellAt(g, q + 1) = CellAt(f, p + 1)
      /\ CellAt(g, q + 2) = CellAt(f, p + 2) /\ CellAt(g, q + 3) = CellAt(f, p + 3)
      /\ CellAt(g, q + 4) = CellAt(f, p + 4) /\ CellAt(g, q + (n - 1)) = CellAt(f, p + (n - 1))
  <2>1. q + 0 = q /\ p + 0 = p /\ n - 1 \in Int /\ 0 <= n - 1 /\ n - 1 < n
    BY <1>1
  <2>2. CellAt(g, q + 0) = CellAt(f, p + 0)
    BY <1>1
  <2>3. /\ CellAt(g, q + 1) = CellAt(f, p + 1) /\ CellAt(g, q + 2) = CellAt(f, p + 2)
        /\ CellAt(g, q + 3) = CellAt(f, p + 3) /\ CellAt(g, q + 4) = CellAt(f, p + 4)
    <3>1. 1 < n /\ 2 < n /\ 3 < n /\ 4 < n
      BY <1>1
    <3> QED BY <3>1
  <2>4. CellAt(g, q + (n - 1)) = CellAt(f, p + (n - 1))
    BY <2>1
  <2> QED BY <2>1, <2>2, <2>3, <2>4
<1>3. SignatureAt(g, q)
  BY <1>1, <1>2, SignatureIs DEF LettersAt
<1>4. CellAt(g, q + 4)[1] = "size" /\ CellAt(g, q + 4)[2] = n - 6
  BY <1>1, <1>2
<1>5. p + n - 1 = p + (n - 1) /\ q + 5 + (n - 6) = q + (n - 1) /\ (n - 6) + 6 = n
  BY <1>1
<1>6. Kind(g, q + 5 + (n - 6)) = "end"
  BY <1>1, <1>2, <1>5 DEF Kind
<1> QED BY <1>3, <1>4, <1>5, <1>6 DEF ASI_read_script

LEMMA PlainIs ==
  ASSUME NEW f \in Files, Plain(f)
  PROVE  /\ Untripped(f)
         /\ \A p \in Signatures(f) :
               /\ ASI_read_script(f, p) # 0
               /\ \A q \in Signatures(f) : p < q => p + ASI_read_script(f, p) <= q
<1>1. Untripped(f) /\ \A p \in Signatures(f) : ASI_read_script(f, p) # 0
  BY DEF Plain, Untripped
<1>2. ASSUME NEW p \in Signatures(f), NEW q \in Signatures(f), p < q
      PROVE  p + ASI_read_script(f, p) <= q
  <2>1. PICK n \in Nat : n = ASI_read_script(f, p)
    BY <1>1, ScriptIs, SignaturesFinite
  <2>2. p \in Nat /\ q \in Nat /\ ~(q \in p + 1..p + n - 1)
    BY <2>1, SignaturesFinite DEF Plain
  <2> QED BY <1>2, <2>1, <2>2
<1> QED BY <1>1, <1>2

\* An object that is one whole script.
LEMMA WholeIs ==
  ASSUME NEW o \in Files, WholeObject(o)
  PROVE  /\ Len(o) \in Nat /\ Len(o) >= 6 /\ ASI_read_script(o, 0) = Len(o)
         /\ LettersAt(o, 0) /\ Kind(o, Len(o) - 1) = "end"
         /\ \A q \in Int : LettersAt(o, q) => q = 0
<1>1. ASI_read_script(o, 0) = Len(o) /\ Len(o) \in Nat /\ Len(o) # 0
  <2>1. o # <<>> /\ ASI_read_script(o, 0) = Len(o)
    BY DEF WholeObject, Measured
  <2>2. Len(o) # 0
    BY <2>1, EmptySeq DEF Files
  <2> QED BY <2>1, <2>2, Cells
<1>2. Len(o) >= 6 /\ LettersAt(o, 0) /\ Kind(o, 0 + Len(o) - 1) = "end"
  BY <1>1, ScriptIs
<1>3. 0 + Len(o) - 1 = Len(o) - 1
  BY <1>1
<1>4. \A q \in Int : LettersAt(o, q) => q = 0
  BY Signed DEF WholeObject
<1> QED BY <1>1, <1>2, <1>3, <1>4

\* A script of a game that becomes an object.
ScriptBecomes(g, f, o, p, n) ==
  /\ f \in Files /\ Plain(f) /\ o \in Files /\ WholeObject(o)
  /\ p \in Signatures(f) /\ n = ASI_read_script(f, p)
  /\ SplicedAt(g, f, o, p, n)

Moved(q, p, d) == IF q <= p THEN q ELSE q + d

LEMMA LettersBefore ==
  ASSUME NEW g, NEW f, NEW o, NEW p, NEW n, ScriptBecomes(g, f, o, p, n),
         NEW q \in Int, q < p
  PROVE  LettersAt(g, q) <=> LettersAt(f, q)
<1>1. /\ LettersAt(f, p) /\ p \in Nat /\ Len(o) \in Nat /\ Len(o) >= 6 /\ LettersAt(o, 0)
      /\ \A i \in Int : i < p => CellAt(g, i) = CellAt(f, i)
      /\ \A i \in Int : 0 <= i /\ i < Len(o) => CellAt(g, p + i) = CellAt(o, i)
  BY WholeIs, SignaturesFinite, Signed DEF ScriptBecomes, SplicedAt
<1>2. CellAt(g, p) = <<"S">> /\ CellAt(f, p) = <<"S">>
  <2>1. 0 < Len(o) /\ p + 0 = p
    BY <1>1
  <2>2. CellAt(g, p + 0) = CellAt(o, 0)
    BY <1>1, <2>1
  <2> QED BY <1>1, <2>1, <2>2 DEF LettersAt
<1>3. <<"S">> # <<"C">> /\ <<"S">> # <<"O">> /\ <<"S">> # <<"M">>
  BY Letters
<1>4. ASSUME LettersAt(g, q) \/ LettersAt(f, q) PROVE q + 1 # p /\ q + 2 # p /\ q + 3 # p
  BY <1>2, <1>3, <1>4 DEF LettersAt
<1>5. ASSUME LettersAt(g, q) \/ LettersAt(f, q) PROVE q + 3 < p
  BY <1>1, <1>4, <1>5
<1>6. ASSUME q + 3 < p
      PROVE  /\ CellAt(g, q) = CellAt(f, q) /\ CellAt(g, q + 1) = CellAt(f, q + 1)
             /\ CellAt(g, q + 2) = CellAt(f, q + 2) /\ CellAt(g, q + 3) = CellAt(f, q + 3)
  <2>1. q < p /\ q + 1 < p /\ q + 2 < p /\ q + 3 < p
    BY <1>1, <1>6
  <2> QED BY <1>1, <2>1
<1> QED BY <1>5, <1>6 DEF LettersAt

LEMMA LettersInside ==
  ASSUME NEW g, NEW f, NEW o, NEW p, NEW n, ScriptBecomes(g, f, o, p, n),
         NEW q \in Int, 0 <= q, q < Len(o)
  PROVE  LettersAt(g, p + q) <=> q = 0
<1>1. /\ p \in Nat /\ Len(o) \in Nat /\ Len(o) >= 6 /\ LettersAt(o, 0)
      /\ Kind(o, Len(o) - 1) = "end"
      /\ \A i \in Int : LettersAt(o, i) => i = 0
      /\ \A i \in Int : 0 <= i /\ i < Len(o) => CellAt(g, p + i) = CellAt(o, i)
  BY WholeIs, SignaturesFinite DEF ScriptBecomes, SplicedAt
<1>2. /\ p + q + 1 = p + (q + 1) /\ p + q + 2 = p + (q + 2) /\ p + q + 3 = p + (q + 3)
  BY <1>1
<1>3. CASE q + 3 < Len(o)
  <2>1. /\ 0 <= q + 1 /\ q + 1 < Len(o) /\ 0 <= q + 2 /\ q + 2 < Len(o) /\ 0 <= q + 3
    BY <1>1, <1>3
  <2>2. /\ CellAt(g, p + q) = CellAt(o, q) /\ CellAt(g, p + (q + 1)) = CellAt(o, q + 1)
        /\ CellAt(g, p + (q + 2)) = CellAt(o, q + 2)
        /\ CellAt(g, p + (q + 3)) = CellAt(o, q + 3)
    BY <1>1, <1>3, <2>1
  <2>3. LettersAt(g, p + q) <=> LettersAt(o, q)
    BY <1>2, <2>2 DEF LettersAt
  <2> QED BY <1>1, <2>3
<1>4. CASE ~(q + 3 < Len(o))
  <2>1. PICK e \in Int : e = Len(o) - 1
    <3>1. Len(o) - 1 \in Int
      BY <1>1
    <3> QED BY <3>1
  <2>2. e \in {q, q + 1, q + 2, q + 3} /\ 0 <= e /\ e < Len(o) /\ q # 0
    <3>1. PICK l \in Nat : l = Len(o) /\ l >= 6
      BY <1>1
    <3>2. ~(q + 3 < l) /\ q < l /\ e = l - 1
      BY <1>4, <2>1, <3>1
    <3>3. (e = q \/ e = q + 1 \/ e = q + 2 \/ e = q + 3) /\ 0 <= e /\ e < l /\ q # 0
      BY <3>1, <3>2
    <3> QED BY <3>1, <3>3
  <2>3. CellAt(g, p + e)[1] = "end"
    BY <1>1, <2>1, <2>2 DEF Kind
  <2>4. \A k \in 1..4 : CellAt(g, p + e) # SCOM[k]
    BY <2>3, Letters
  <2>5. ~LettersAt(g, p + q)
    <3>1. \A k \in 1..4 : CellAt(g, p + e) # SCOM[k]
      BY <2>4
    <3>2. /\ CellAt(g, p + e) # <<"S">> /\ CellAt(g, p + e) # <<"C">>
          /\ CellAt(g, p + e) # <<"O">> /\ CellAt(g, p + e) # <<"M">>
      BY <3>1, Letters
    <3>3. LettersAt(g, p + q) =>
            /\ CellAt(g, p + q) = <<"S">> /\ CellAt(g, p + (q + 1)) = <<"C">>
            /\ CellAt(g, p + (q + 2)) = <<"O">> /\ CellAt(g, p + (q + 3)) = <<"M">>
      BY <1>2 DEF LettersAt
    <3> QED BY <2>2, <3>2, <3>3
  <2> QED BY <2>2, <2>5
<1> QED BY <1>3, <1>4

LEMMA LettersBehind ==
  ASSUME NEW g, NEW f, NEW o, NEW p, NEW n, ScriptBecomes(g, f, o, p, n),
         NEW q \in Int, p + n <= q
  PROVE  LettersAt(g, q - n + Len(o)) <=> LettersAt(f, q)
<1>1. /\ p \in Nat /\ n \in Nat /\ Len(o) \in Nat
      /\ \A i \in Int : p + n <= i => CellAt(g, i - n + Len(o)) = CellAt(f, i)
  BY WholeIs, SignaturesFinite, PlainIs, ScriptIs DEF ScriptBecomes, SplicedAt
<1>2. /\ q - n + Len(o) + 1 = (q + 1) - n + Len(o) /\ p + n <= q + 1
      /\ q - n + Len(o) + 2 = (q + 2) - n + Len(o) /\ p + n <= q + 2
      /\ q - n + Len(o) + 3 = (q + 3) - n + Len(o) /\ p + n <= q + 3
  BY <1>1
<1>3. /\ CellAt(g, q - n + Len(o)) = CellAt(f, q)
      /\ CellAt(g, q - n + Len(o) + 1) = CellAt(f, q + 1)
      /\ CellAt(g, q - n + Len(o) + 2) = CellAt(f, q + 2)
      /\ CellAt(g, q - n + Len(o) + 3) = CellAt(f, q + 3)
  BY <1>1, <1>2
<1> QED BY <1>3 DEF LettersAt

\* The signatures stay, those behind the script moved by as much as it grew.
LEMMA SignaturesMove ==
  ASSUME NEW g, NEW f, NEW o, NEW p, NEW n, ScriptBecomes(g, f, o, p, n),
         NEW d \in Int, d = Len(o) - n
  PROVE  /\ \A q \in Signatures(f) : q < p \/ q = p \/ p + n <= q
         /\ \A q \in Signatures(f) : Moved(q, p, d) \in Signatures(g)
         /\ \A s \in Signatures(g) : \E q \in Signatures(f) : s = Moved(q, p, d)
         /\ \A q, s \in Signatures(f) : Moved(q, p, d) < Moved(s, p, d) <=> q < s
<1>1. /\ p \in Nat /\ n \in Nat /\ n >= 6 /\ Len(o) \in Nat /\ Len(o) >= 6
      /\ Signatures(f) \in SUBSET Nat /\ f \in Files /\ g \in Files
      /\ Signatures(g) \in SUBSET Nat
  BY WholeIs, SignaturesFinite, PlainIs, ScriptIs, SMTT(30) DEF ScriptBecomes, SplicedAt
<1>2. \A q \in Signatures(f) : q < p \/ q = p \/ p + n <= q
  BY <1>1, PlainIs DEF ScriptBecomes
<1>3. ASSUME NEW q \in Signatures(f) PROVE Moved(q, p, d) \in Signatures(g)
  <2>1. LettersAt(f, q) /\ q \in Nat
    BY <1>1, Signed
  <2>2. CASE q < p
    <3>1. Moved(q, p, d) = q
      BY <1>1, <2>1, <2>2 DEF Moved
    <3>2. LettersAt(g, q)
      BY <2>1, <2>2, LettersBefore
    <3> QED BY <1>1, <2>1, <3>1, <3>2, Signed
  <2>3. CASE q = p
    <3>1. Moved(q, p, d) = p /\ 0 < Len(o) /\ p + 0 = p
      BY <1>1, <2>3 DEF Moved
    <3>2. LettersAt(g, p + 0)
      BY <3>1, LettersInside
    <3> QED BY <1>1, <3>1, <3>2, Signed
  <2>4. CASE p + n <= q
    <3>1. Moved(q, p, d) = q - n + Len(o) /\ q - n + Len(o) \in Int
      BY <1>1, <2>1, <2>4 DEF Moved
    <3>2. LettersAt(g, q - n + Len(o))
      BY <2>1, <2>4, LettersBehind
    <3> QED BY <1>1, <3>1, <3>2, Signed
  <2> QED BY <1>2, <2>2, <2>3, <2>4
<1>4. ASSUME NEW s \in Signatures(g) PROVE \E q \in Signatures(f) : s = Moved(q, p, d)
  <2>1. LettersAt(g, s) /\ s \in Nat
    BY <1>1, Signed
  <2>2. CASE s < p
    <3>1. LettersAt(f, s)
      BY <2>1, <2>2, LettersBefore
    <3>2. s \in Signatures(f) /\ s = Moved(s, p, d)
      BY <1>1, <2>1, <2>2, <3>1, Signed DEF Moved
    <3> QED BY <3>2
  <2>3. CASE p <= s /\ s < p + Len(o)
    <3>1. PICK i \in Int : i = s - p
      BY <1>1, <2>1
    <3>2. 0 <= i /\ i < Len(o) /\ p + i = s
      BY <1>1, <2>1, <2>3, <3>1
    <3>3. i = 0
      BY <2>1, <3>2, LettersInside
    <3>4. s = Moved(p, p, d) /\ p \in Signatures(f)
      BY <1>1, <3>2, <3>3 DEF Moved, ScriptBecomes
    <3> QED BY <3>4
  <2>4. CASE p + Len(o) <= s
    <3>1. PICK q \in Int : q = s - d
      <4>1. s - d \in Int
        BY <2>1
      <4> QED BY <4>1
    <3>2. p + n <= q /\ q - n + Len(o) = s
      BY <1>1, <2>1, <2>4, <3>1
    <3>3. LettersAt(f, q)
      BY <2>1, <3>2, LettersBehind
    <3>4. q \in Signatures(f)
      BY <1>1, <3>3, Signed
    <3>5. s = Moved(q, p, d)
      BY <1>1, <2>1, <3>1, <3>2 DEF Moved
    <3> QED BY <3>4, <3>5
  <2> QED BY <1>1, <2>1, <2>2, <2>3, <2>4
<1>5. ASSUME NEW q \in Signatures(f), NEW s \in Signatures(f)
      PROVE  Moved(q, p, d) < Moved(s, p, d) <=> q < s
  <2>1. q \in Nat /\ s \in Nat
    BY <1>1
  <2>2. PICK l \in Nat : l = Len(o) /\ d = l - n
    BY <1>1
  <2>3. /\ q < p \/ q = p \/ p + n <= q
        /\ s < p \/ s = p \/ p + n <= s
    BY <1>2
  <2>4. l >= 6
    BY <1>1, <2>2
  <2> QED BY <1>1, <2>1, <2>2, <2>3, <2>4 DEF Moved
<1> QED BY <1>2, <1>3, <1>4, <1>5

\* The game is plain again: every script can be measured where it is now.
LEMMA PlainAgain ==
  ASSUME NEW g, NEW f, NEW o, NEW p, NEW n, ScriptBecomes(g, f, o, p, n)
  PROVE  Plain(g)
<1>1. /\ p \in Nat /\ n \in Nat /\ n >= 6 /\ Len(o) \in Nat /\ Len(o) >= 6
      /\ Signatures(f) \in SUBSET Nat /\ f \in Files /\ g \in Files /\ o \in Files
      /\ Signatures(g) \in SUBSET Nat /\ p + n <= Len(f)
      /\ ASI_read_script(o, 0) = Len(o) /\ Kind(o, Len(o) - 1) = "end"
      /\ Kind(f, p + n - 1) = "end"
  BY WholeIs, SignaturesFinite, PlainIs, ScriptIs DEF ScriptBecomes, SplicedAt
<1>2. /\ \A q \in Int : q < p => CellAt(g, q) = CellAt(f, q)
      /\ \A q \in Int : 0 <= q /\ q < Len(o) => CellAt(g, p + q) = CellAt(o, q)
      /\ \A q \in Int : p + n <= q => CellAt(g, q - n + Len(o)) = CellAt(f, q)
  BY DEF ScriptBecomes, SplicedAt
<1>3. PICK d \in Int : d = Len(o) - n
  BY <1>1
<1>4. /\ \A q \in Signatures(f) : q < p \/ q = p \/ p + n <= q
      /\ \A s \in Signatures(g) : \E q \in Signatures(f) : s = Moved(q, p, d)
      /\ \A q, s \in Signatures(f) : Moved(q, p, d) < Moved(s, p, d) <=> q < s
  BY <1>3, SignaturesMove
<1>5. Plain(f)
  BY DEF ScriptBecomes
<1>6. ASSUME NEW q \in Signatures(f)
      PROVE  LET s == Moved(q, p, d) IN
             /\ ASI_read_script(g, s) \in Nat \ {0}
             /\ q < p => s + ASI_read_script(g, s) <= p
             /\ q = p => ASI_read_script(g, s) = Len(o)
             /\ p < q => ASI_read_script(g, s) = ASI_read_script(f, q)
             /\ Kind(g, s - 1) \notin {"S", "C", "O", "M"}
  <2>1. q \in Nat /\ p \in Signatures(f)
    BY <1>1 DEF ScriptBecomes
  <2>2. PICK k \in Nat : k = ASI_read_script(f, q) /\ k # 0
    BY <1>1, <1>5, <2>1, PlainIs, ScriptIs, SMTT(30)
  <2>3. CASE q < p
    <3>1. Moved(q, p, d) = q /\ q + k <= p
      BY <1>1, <1>5, <2>1, <2>2, <2>3, PlainIs DEF Moved
    <3>2. \A i \in Int : 0 <= i /\ i < k => CellAt(g, q + i) = CellAt(f, q + i)
      <4> TAKE i \in Int
      <4>1. i < k => q + i < p
        BY <1>1, <2>1, <3>1
      <4> QED BY <1>2, <2>1, <4>1
    <3>3. ASI_read_script(g, q) = k
      BY <1>1, <2>1, <2>2, <3>2, SameScript
    <3>4. Kind(g, q - 1) = Kind(f, q - 1)
      BY <1>1, <1>2, <2>1, <2>3 DEF Kind
    <3>5. Kind(f, q - 1) \notin {"S", "C", "O", "M"}
      BY <1>1, <1>5, PlainIs DEF Untripped
    <3> QED BY <2>2, <2>3, <3>1, <3>3, <3>4, <3>5, <1>1, <2>1
  <2>4. CASE q = p
    <3>1. Moved(q, p, d) = p
      BY <1>1, <2>4 DEF Moved
    <3>2. \A i \in Int : 0 <= i /\ i < Len(o) => CellAt(g, p + i) = CellAt(o, 0 + i)
      BY <1>2
    <3>3. ASI_read_script(g, p) = Len(o)
      <4>1. PICK z \in Int : z = 0
        OBVIOUS
      <4>2. PICK l \in Nat : l = Len(o)
        BY <1>1
      <4>3. l = ASI_read_script(o, z) /\ l # 0 /\ p \in Int
        BY <1>1, <4>1, <4>2
      <4>4. \A i \in Int : 0 <= i /\ i < l => CellAt(g, p + i) = CellAt(o, z + i)
        BY <3>2, <4>1, <4>2
      <4>5. ASI_read_script(g, p) = l
        BY <1>1, <4>3, <4>4, SameScript
      <4> QED BY <4>2, <4>5
    <3>4. Kind(g, p - 1) = Kind(f, p - 1)
      BY <1>1, <1>2 DEF Kind
    <3>5. Kind(f, p - 1) \notin {"S", "C", "O", "M"}
      BY <1>1, <1>5, <2>4, PlainIs DEF Untripped
    <3> QED BY <1>1, <2>4, <3>1, <3>3, <3>4, <3>5
  <2>5. CASE p + n <= q
    <3>1. Moved(q, p, d) = q - n + Len(o) /\ p < q /\ q - n + Len(o) \in Int
      BY <1>1, <1>3, <2>1, <2>5 DEF Moved
    <3>2. \A i \in Int : 0 <= i /\ i < k => CellAt(g, (q - n + Len(o)) + i) = CellAt(f, q + i)
      <4> SUFFICES ASSUME NEW i \in Int, 0 <= i
                   PROVE  CellAt(g, (q - n + Len(o)) + i) = CellAt(f, q + i)
        OBVIOUS
      <4>1. p + n <= q + i /\ (q + i) - n + Len(o) = (q - n + Len(o)) + i /\ q + i \in Int
        BY <1>1, <2>1, <2>5
      <4> QED BY <1>2, <4>1
    <3>3. ASI_read_script(g, q - n + Len(o)) = k
      BY <1>1, <2>1, <2>2, <3>1, <3>2, SameScript, SMTT(30)
    <3>4. Kind(g, (q - n + Len(o)) - 1) \notin {"S", "C", "O", "M"}
      <4>1. CASE q = p + n
        <5>1. PICK e \in Int : e = Len(o) - 1
          <6>1. Len(o) - 1 \in Int
            BY <1>1
          <6> QED BY <6>1
        <5>2. (q - n + Len(o)) - 1 = p + e /\ 0 <= e /\ e < Len(o)
          BY <1>1, <4>1, <5>1
        <5>3. CellAt(g, p + e) = CellAt(o, e)
          BY <1>2, <5>2
        <5>4. Kind(g, p + e) = "end"
          BY <1>1, <5>1, <5>3 DEF Kind
        <5> QED BY <5>2, <5>4
      <4>2. CASE q # p + n
        <5>1. p + n <= q - 1 /\ (q - 1) - n + Len(o) = (q - n + Len(o)) - 1 /\ q - 1 \in Int
          BY <1>1, <2>1, <2>5, <4>2
        <5>2. Kind(g, (q - n + Len(o)) - 1) = Kind(f, q - 1)
          BY <1>2, <5>1 DEF Kind
        <5>3. Kind(f, q - 1) \notin {"S", "C", "O", "M"}
          BY <1>1, <1>5, PlainIs DEF Untripped
        <5> QED BY <5>2, <5>3
      <4> QED BY <4>1, <4>2
    <3> QED BY <1>1, <2>1, <2>2, <3>1, <3>3, <3>4
  <2> QED BY <1>4, <2>3, <2>4, <2>5
<1>7. ASSUME NEW s \in Signatures(g), NEW t \in Signatures(g), s < t
      PROVE  s + ASI_read_script(g, s) <= t
  <2>1. PICK q \in Signatures(f), r \in Signatures(f) : s = Moved(q, p, d) /\ t = Moved(r, p, d)
    BY <1>4
  <2>2. q < r /\ q \in Nat /\ r \in Nat
    BY <1>1, <1>4, <1>7, <2>1
  <2>3. PICK m \in Nat : m = ASI_read_script(g, s)
    BY <1>6, <2>1
  <2>4. PICK l \in Nat : l = Len(o) /\ d = l - n
    BY <1>1, <1>3
  <2>5. r < p \/ r = p \/ p + n <= r
    BY <1>4
  <2>6. CASE q < p
    <3>1. s = q /\ s + m <= p
      BY <1>1, <1>6, <2>1, <2>2, <2>3, <2>6 DEF Moved
    <3>2. CASE r < p
      <4>1. t = r
        BY <1>1, <2>1, <2>2, <3>2 DEF Moved
      <4>2. q + ASI_read_script(f, q) <= r
        BY <1>1, <1>5, <2>2, PlainIs
      <4>3. PICK k \in Nat : k = ASI_read_script(f, q) /\ k # 0
        <5>1. ASI_read_script(f, q) # 0
          BY <1>1, <1>5, PlainIs
        <5>2. ASI_read_script(f, q) \in Nat
          BY <1>1, <2>2, <5>1, ScriptIs
        <5> QED BY <5>1, <5>2
      <4>4. \A i \in Int : 0 <= i /\ i < k => CellAt(g, q + i) = CellAt(f, q + i)
        <5> SUFFICES ASSUME NEW i \in Int, i < k PROVE CellAt(g, q + i) = CellAt(f, q + i)
          OBVIOUS
        <5>1. q + i < p /\ q + i \in Int
          <6>1. i \in Int /\ q \in Int /\ r \in Int /\ p \in Int /\ k \in Int
            BY <1>1, <2>2, <4>3
          <6>2. q + k <= r /\ r < p /\ i < k
            BY <3>2, <4>2, <4>3
          <6> QED BY <6>1, <6>2
        <5> QED BY <1>2, <5>1
      <4>5. m = k
        <5>1. q \in Int /\ f \in Files /\ g \in Files
          BY <1>1, <2>2
        <5>2. ASI_read_script(g, q) = k
          BY <4>3, <4>4, <5>1, SameScript
        <5> QED BY <2>3, <3>1, <5>2
      <4> QED BY <2>3, <3>1, <4>1, <4>2, <4>3, <4>5
    <3>3. CASE ~(r < p)
      <4>1. p <= t
        BY <1>1, <2>1, <2>2, <2>4, <2>5, <3>3 DEF Moved
      <4> QED BY <1>1, <2>2, <2>3, <3>1, <4>1, SMTT(30)
    <3> QED BY <3>2, <3>3
  <2>7. CASE q = p
    <3>1. s = p /\ m = l
      <4>1. s = p
        BY <1>1, <2>1, <2>7 DEF Moved
      <4>2. ASI_read_script(g, s) = Len(o)
        BY <1>6, <2>1, <2>7
      <4> QED BY <2>3, <2>4, <4>1, <4>2
    <3>2. t = r + d /\ p + n <= r
      BY <1>1, <2>1, <2>2, <2>5, <2>7 DEF Moved
    <3>3. p + l <= r + d
      BY <1>1, <2>2, <2>4, <3>2
    <3> QED BY <2>3, <3>1, <3>2, <3>3
  <2>8. CASE p < q
    <3>1. s = q + d /\ m = ASI_read_script(f, q) /\ t = r + d
      <4>1. s = q + d /\ t = r + d
        BY <1>1, <2>1, <2>2, <2>8, SMTT(30) DEF Moved
      <4>2. ASI_read_script(g, s) = ASI_read_script(f, q)
        BY <1>6, <2>1, <2>8
      <4> QED BY <2>3, <4>1, <4>2
    <3>2. q + m <= r
      BY <1>1, <1>5, <2>2, <3>1, PlainIs
    <3> QED BY <2>2, <2>3, <3>1, <3>2
  <2> QED BY <1>1, <2>2, <2>6, <2>7, <2>8
<1>8. SUFFICES ASSUME NEW s \in Signatures(g)
               PROVE  /\ ASI_read_script(g, s) # 0
                      /\ Signatures(g) \cap s + 1..s + ASI_read_script(g, s) - 1 = {}
                      /\ Kind(g, s - 1) \notin {"S", "C", "O", "M"}
  BY DEF Plain
<1>9. PICK q \in Signatures(f) : s = Moved(q, p, d)
  BY <1>4
<1>10. PICK m \in Nat : m = ASI_read_script(g, s) /\ m # 0
  BY <1>6, <1>9
<1>11. Kind(g, s - 1) \notin {"S", "C", "O", "M"}
  BY <1>6, <1>9
<1>12. ASSUME NEW t \in Signatures(g), t \in s + 1..s + m - 1 PROVE FALSE
  <2>1. s \in Nat /\ t \in Nat /\ s < t /\ t < s + m
    <3>1. s \in Nat /\ t \in Nat
      BY <1>1
    <3> QED BY <1>10, <1>12, <3>1
  <2>2. s + m <= t
    BY <1>7, <1>10, <2>1
  <2> QED BY <2>1, <2>2, <1>10
<1> QED BY <1>10, <1>11, <1>12

-----------------------------------------------------------------------------
(* Counting signatures                                                     *)

LEMMA SameCount ==
  ASSUME NEW g, NEW f, NEW o, NEW p, NEW n, ScriptBecomes(g, f, o, p, n)
  PROVE  Cardinality(Signatures(g)) = Cardinality(Signatures(f))
<1>1. /\ p \in Nat /\ n \in Nat /\ Len(o) \in Nat /\ f \in Files /\ g \in Files
      /\ Signatures(f) \in SUBSET Nat /\ IsFiniteSet(Signatures(f))
  BY WholeIs, SignaturesFinite, PlainIs, ScriptIs DEF ScriptBecomes, SplicedAt
<1>2. PICK d \in Int : d = Len(o) - n
  <2>1. Len(o) - n \in Int
    BY <1>1
  <2> QED BY <2>1
<1>3. /\ \A q \in Signatures(f) : Moved(q, p, d) \in Signatures(g)
      /\ \A s \in Signatures(g) : \E q \in Signatures(f) : s = Moved(q, p, d)
      /\ \A q, s \in Signatures(f) : Moved(q, p, d) < Moved(s, p, d) <=> q < s
  BY <1>2, SignaturesMove
<1> DEFINE h == [q \in Signatures(f) |-> Moved(q, p, d)]
<1>4. h \in [Signatures(f) -> Signatures(g)]
  BY <1>3
<1>5. \A q, s \in Signatures(f) : q # s => h[q] # h[s]
  <2> SUFFICES ASSUME NEW q \in Signatures(f), NEW s \in Signatures(f), q < s
               PROVE  Moved(q, p, d) # Moved(s, p, d)
    <3>1. \A q, s \in Signatures(f) : q # s => q < s \/ s < q
      BY <1>1
    <3> QED BY <3>1
  <2>1. Moved(q, p, d) < Moved(s, p, d)
    BY <1>3
  <2>2. Moved(q, p, d) \in Int /\ Moved(s, p, d) \in Int
    BY <1>1 DEF Moved
  <2> QED BY <2>1, <2>2
<1>6. \A s \in Signatures(g) : \E q \in Signatures(f) : h[q] = s
  BY <1>3
<1> HIDE DEF h
<1>7. h \in Bijection(Signatures(f), Signatures(g))
  BY <1>4, <1>5, <1>6 DEF Bijection, Injection, Surjection, IsInjective
<1>8. ExistsBijection(Signatures(f), Signatures(g))
  BY <1>7 DEF ExistsBijection
<1> QED BY <1>1, <1>8, FS_Bijection

\* The signatures before a position.
Before(f, p) == {q \in Signatures(f) : q < p}

LEMMA BeforeIs ==
  ASSUME NEW f \in Files, NEW p \in Int
  PROVE  IsFiniteSet(Before(f, p)) /\ Cardinality(Before(f, p)) \in Nat
<1>1. Before(f, p) \in SUBSET Signatures(f)
  BY DEF Before
<1>2. IsFiniteSet(Before(f, p))
  BY <1>1, SignaturesFinite, FS_Subset
<1> QED BY <1>2, FS_CardinalityType

\* One more signature is before a later position.
LEMMA OneMoreBefore ==
  ASSUME NEW f \in Files, NEW p \in Signatures(f), NEW r \in Int, p < r
  PROVE  /\ Cardinality(Before(f, p)) + 1 <= Cardinality(Before(f, r))
         /\ (\A q \in Signatures(f) : p < q => r <= q)
              => Cardinality(Before(f, r)) = Cardinality(Before(f, p)) + 1
<1>1. p \in Nat /\ Signatures(f) \in SUBSET Nat
  BY SignaturesFinite
<1>2. /\ IsFiniteSet(Before(f, p)) /\ Cardinality(Before(f, p)) \in Nat
      /\ IsFiniteSet(Before(f, r)) /\ Cardinality(Before(f, r)) \in Nat
  BY <1>1, BeforeIs
<1>3. p \notin Before(f, p)
  BY <1>1 DEF Before
<1>4. PICK B : B = Before(f, p) \cup {p}
  OBVIOUS
<1>5. Cardinality(B) = Cardinality(Before(f, p)) + 1
  BY <1>2, <1>3, <1>4, FS_AddElement
<1>6. B \in SUBSET Before(f, r)
  BY <1>1, <1>4 DEF Before
<1>7. Cardinality(B) <= Cardinality(Before(f, r))
  BY <1>2, <1>6, FS_Subset
<1>8. ASSUME \A q \in Signatures(f) : p < q => r <= q PROVE B = Before(f, r)
  BY <1>1, <1>4, <1>8 DEF Before
<1> QED BY <1>5, <1>7, <1>8

\* The signature with i others before it is the i-th.
LEMMA ScriptStartIs ==
  ASSUME NEW f \in Files, NEW p \in Signatures(f), NEW i, i = Cardinality(Before(f, p))
  PROVE  /\ ScriptStart(f, i) = p /\ i \in Nat /\ i < Cardinality(Signatures(f))
<1>1. p \in Nat /\ Signatures(f) \in SUBSET Nat /\ IsFiniteSet(Signatures(f))
  BY SignaturesFinite
<1>2. ASSUME NEW q \in Signatures(f), Cardinality(Before(f, q)) = i PROVE q = p
  <2>1. q \in Nat /\ Cardinality(Before(f, q)) \in Nat /\ i \in Nat
    BY <1>1, BeforeIs
  <2>2. CASE q < p
    <3>1. Cardinality(Before(f, q)) + 1 <= i
      BY <1>1, <2>2, OneMoreBefore
    <3> QED BY <1>2, <2>1, <3>1
  <2>3. CASE p < q
    <3>1. i + 1 <= Cardinality(Before(f, q))
      BY <1>1, <2>1, <2>3, OneMoreBefore
    <3> QED BY <1>2, <2>1, <3>1
  <2> QED BY <1>1, <2>1, <2>2, <2>3
<1>3. ScriptStart(f, i) = CHOOSE q \in Signatures(f) : Cardinality(Before(f, q)) = i
  BY DEF ScriptStart, Before
<1>4. ScriptStart(f, i) = p
  BY <1>2, <1>3
<1>5. i \in Nat
  BY <1>1, BeforeIs
<1>6. i < Cardinality(Signatures(f))
  <2>1. PICK B : B = Before(f, p) \cup {p}
    OBVIOUS
  <2>2. p \notin Before(f, p) /\ IsFiniteSet(Before(f, p)) /\ B \in SUBSET Signatures(f)
    BY <1>1, <2>1, BeforeIs DEF Before
  <2>3. Cardinality(B) = i + 1
    BY <2>1, <2>2, FS_AddElement
  <2>4. Cardinality(B) <= Cardinality(Signatures(f)) /\ Cardinality(Signatures(f)) \in Nat
    BY <1>1, <2>2, FS_Subset, FS_CardinalityType
  <2> QED BY <1>5, <2>3, <2>4
<1> QED BY <1>4, <1>5, <1>6

\* A step of the search of agsinject: what it finds is the next script, and the
\* search that goes on behind the signature has left one more behind it.
LEMMA NextScript ==
  ASSUME NEW f \in Files, Plain(f), NEW index \in Nat, index <= Len(f),
         NEW p, p = ARF_find_code_start(f, index), p # NotFound
  PROVE  /\ p \in Signatures(f)
         /\ Before(f, p) = Before(f, index)
         /\ p + 4 \in Nat /\ p + 4 <= Len(f)
         /\ Cardinality(Before(f, p + 4)) = Cardinality(Before(f, index)) + 1
<1>1. p \in Signatures(f) /\ index <= p /\ \A q \in Signatures(f) : index <= q => p <= q
  <2>1. p \in Behind(f, index) /\ \A q \in Behind(f, index) : p <= q
    BY PlainIs, Searched
  <2> QED BY <2>1 DEF Behind
<1>2. p \in Nat /\ p + 4 <= Len(f) /\ Signatures(f) \in SUBSET Nat
  BY <1>1, SignaturesFinite
<1>3. Before(f, p) = Before(f, index)
  BY <1>1, <1>2 DEF Before
<1>4. \A q \in Signatures(f) : p < q => p + 4 <= q
  <2>1. PICK n \in Nat : n = ASI_read_script(f, p) /\ n >= 6
    BY <1>1, <1>2, PlainIs, ScriptIs
  <2>2. \A q \in Signatures(f) : p < q => p + n <= q
    BY <1>1, <2>1, PlainIs
  <2> QED BY <1>2, <2>1, <2>2
<1>5. Cardinality(Before(f, p + 4)) = Cardinality(Before(f, p)) + 1
  <2>1. p + 4 \in Int /\ p < p + 4
    BY <1>2
  <2> QED BY <1>1, <1>4, <2>1, OneMoreBefore
<1> QED BY <1>1, <1>2, <1>3, <1>5

LEMMA NoneBefore ==
  ASSUME NEW f \in Files
  PROVE  Cardinality(Before(f, 0)) = 0
<1>1. Before(f, 0) = {}
  BY SignaturesFinite DEF Before
<1> QED BY <1>1, FS_EmptySet

ReplacedAt(g, f, i, o) ==
  /\ g = Replaced(f, i, o) /\ g \in Files /\ Plain(g)
  /\ Cardinality(Signatures(g)) = Cardinality(Signatures(f))

\* The script that was found is replaced by the object.
LEMMA ReplacedIs ==
  ASSUME NEW f \in Files, Plain(f), NEW o \in Files, WholeObject(o), NEW p \in Signatures(f),
         NEW i, i = Cardinality(Before(f, p)), NEW n, n = ASI_read_script(f, p)
  PROVE  ReplacedAt(SubSeq(f, 1, p) \o o \o Rest(f, p, n), f, i, o)
<1> DEFINE g == SubSeq(f, 1, p) \o o \o Rest(f, p, n)
<1>1. p \in Nat /\ n \in Nat /\ p + n <= Len(f)
  BY PlainIs, ScriptIs, SignaturesFinite
<1>2. g = Replaced(f, i, o)
  BY ScriptStartIs DEF Replaced
<1>3. SplicedAt(SubSeq(f, 1, p) \o o \o SubSeq(f, p + n + 1, Len(f)), f, o, p, n)
  BY <1>1, Spliced
<1>4. SplicedAt(g, f, o, p, n)
  BY <1>3 DEF Rest
<1> HIDE DEF g
<1>5. ScriptBecomes(g, f, o, p, n)
  BY <1>4 DEF ScriptBecomes
<1>6. g \in Files /\ Plain(g) /\ Cardinality(Signatures(g)) = Cardinality(Signatures(f))
  BY <1>4, <1>5, PlainAgain, SameCount DEF SplicedAt
<1> QED BY <1>2, <1>6 DEF g, ReplacedAt

\* Whatever a file is, what the search finds in it is a signature.
LEMMA SearchFinds ==
  ASSUME NEW f \in Files, NEW start \in Nat, start <= Len(f),
         NEW p, p = ARF_find_code_start(f, start), p # NotFound
  PROVE  p \in Signatures(f)
<1> DEFINE m == CHOOSE m : MatchesOf(m, f, start)
           N == Len(f) - start
           hits == {n \in 0..N : m[n] = 4}
<1>1. N \in Nat /\ Len(f) \in Nat
  BY Cells
<1>2. MatchesOf(m, f, start)
  BY <1>1, MatchesExist
<1>3. ARF_find_code_start(f, start) = IF hits = {} THEN NotFound ELSE start + Min(hits) - 4
  BY DEF ARF_find_code_start, MatchesOf
<1> HIDE DEF m
<1>4. hits \in SUBSET Nat /\ hits = {n \in 0..N : m[n] = 4}
  BY <1>1
<1> HIDE DEF hits
<1>5. hits # {} /\ p = start + Min(hits) - 4
  BY <1>3
<1>6. PICK n \in hits : n = Min(hits) /\ \A j \in hits : n <= j
  BY <1>4, <1>5, MinIs
<1>7. n \in 0..N /\ m[n] = 4 /\ \A j \in 0..N : m[j] = 4 => n <= j
  BY <1>4, <1>6
<1>8. start + n - 4 \in Signatures(f)
  BY <1>2, <1>7, HitIsSignature
<1> QED BY <1>5, <1>6, <1>8

-----------------------------------------------------------------------------
(* Rooms: the blocks RoomFile_read goes through                            *)

\* Blocks of any length, and those that do not go back.
AnyBlockSet == [type : {c[2] : c \in CELLS}, start : Nat, len : Int]
BlockSet    == [type : {c[2] : c \in CELLS}, start : Nat, len : Nat]
ReadSet == [pos : Int, outcome : {"reading", "ok", "failed", "trapped"}, blocks : Seq(AnyBlockSet)]

\* The place of a block's type or name, and of what it holds.
TypeAt(f, e)  == IF CellAt(f, e) = <<"block", BLOCKTYPE_EXT>> THEN e + 1 ELSE e
StartAt(f, e) == TypeAt(f, e) + 1 + LengthCells(RoomVersion(f))

\* At e begins the block b, and is none that ends the reading.
BlockLike(f, e, b) ==
  LET type == CellAt(f, TypeAt(f, e))
      len  == CellAt(f, TypeAt(f, e) + 1)
  IN  /\ b = Block(type[2], StartAt(f, e), len[2])
      /\ type # <<"block", BLOCKTYPE_EOF>> /\ type[1] \in {"block", "name"}
      /\ CellAt(f, e) = <<"block", BLOCKTYPE_EXT>> => ~(RoomVersion(f) < 32)
      /\ ~(type[2] > BLOCKTYPE_MAX)
      /\ len[1] = "len" /\ ~(StartAt(f, e) > Len(f)) /\ ~(StartAt(f, e) + len[2] > Len(f))
      /\ type[2] = BLOCKTYPE_COMPSCRIPT3 => SignatureAt(f, StartAt(f, e))

\* And it does not go back.
BlockAt(f, e, b) == BlockLike(f, e, b) /\ CellAt(f, TypeAt(f, e) + 1)[2] \in Nat

EndAt(f, e) == CellAt(f, TypeAt(f, e)) = <<"block", BLOCKTYPE_EOF>>

LEMMA LengthCellsAre == ASSUME NEW v PROVE LengthCells(v) \in {1, 2}
  BY DEF LengthCells

\* What follows a block, or how the reading ends.
WithBlock(r, b) ==
  [pos |-> b.start + b.len, outcome |-> "reading", blocks |-> Append(r.blocks, b)]
WithOutcome(r, o) == [r EXCEPT !.outcome = o]

LEMMA NextBlockIs ==
  ASSUME NEW f, NEW r, r.outcome = "reading"
  PROVE  \/ EndAt(f, r.pos) /\ NextBlock(f, r) = WithOutcome(r, "ok")
         \/ ~EndAt(f, r.pos) /\ \E b : BlockLike(f, r.pos, b) /\ NextBlock(f, r) = WithBlock(r, b)
         \/ /\ ~EndAt(f, r.pos) /\ \A b : ~BlockLike(f, r.pos, b)
            /\ \E o \in {"failed", "trapped"} : NextBlock(f, r) = WithOutcome(r, o)
<1> DEFINE type  == CellAt(f, TypeAt(f, r.pos))
           len   == CellAt(f, TypeAt(f, r.pos) + 1)
           start == StartAt(f, r.pos)
           ext   == CellAt(f, r.pos) = <<"block", BLOCKTYPE_EXT>>
           b     == Block(type[2], start, len[2])
           tooNew   == ext /\ RoomVersion(f) < 32
           noScript == type[2] = BLOCKTYPE_COMPSCRIPT3 /\ ~SignatureAt(f, start)
<1>1. NextBlock(f, r) =
        IF type[1] = "eof" THEN WithOutcome(r, "trapped")
        ELSE IF type = <<"block", BLOCKTYPE_EOF>> THEN WithOutcome(r, "ok")
        ELSE IF tooNew \/ type[1] \notin {"block", "name"} \/ type[2] > BLOCKTYPE_MAX
             THEN WithOutcome(r, "failed")
        ELSE IF len[1] # "len" \/ start > Len(f) \/ start + len[2] > Len(f) \/ noScript
             THEN WithOutcome(r, "trapped")
        ELSE WithBlock(r, b)
  BY DEF NextBlock, TypeAt, StartAt, WithOutcome, WithBlock, Block
<1>2. EndAt(f, r.pos) <=> type = <<"block", BLOCKTYPE_EOF>>
  BY DEF EndAt
<1>3. type = <<"block", BLOCKTYPE_EOF>> => type[1] = "block"
  OBVIOUS
<1>4. \A c : BlockLike(f, r.pos, c) <=>
        /\ c = b /\ type # <<"block", BLOCKTYPE_EOF>> /\ type[1] \in {"block", "name"}
        /\ ~tooNew /\ ~(type[2] > BLOCKTYPE_MAX)
        /\ ~(len[1] # "len" \/ start > Len(f) \/ start + len[2] > Len(f)) /\ ~noScript
  <2> TAKE c
  <2> DEFINE mark    == type # <<"block", BLOCKTYPE_EOF>>
             known   == type[1] \in {"block", "name"}
             named   == ext => ~(RoomVersion(f) < 32)
             small   == ~(type[2] > BLOCKTYPE_MAX)
             within  == len[1] = "len" /\ ~(start > Len(f)) /\ ~(start + len[2] > Len(f))
             signed  == type[2] = BLOCKTYPE_COMPSCRIPT3 => SignatureAt(f, start)
  <2>1. BlockLike(f, r.pos, c) <=> c = b /\ mark /\ known /\ named /\ small /\ within /\ signed
    BY Zenon DEF BlockLike
  <2>2. (named <=> ~tooNew) /\ (signed <=> ~noScript)
    BY Zenon
  <2>3. within <=> ~(len[1] # "len" \/ start > Len(f) \/ start + len[2] > Len(f))
    BY Zenon
  <2> HIDE DEF type, len, start, b, mark, known, small, within, named, signed, tooNew, noScript
  <2>4. BlockLike(f, r.pos, c) <=> c = b /\ mark /\ known /\ ~tooNew /\ small
                                 /\ ~(len[1] # "len" \/ start > Len(f) \/ start + len[2] > Len(f)) /\ ~noScript
    BY <2>1, <2>2, <2>3
  <2> QED BY <2>4, Zenon DEF mark, known, small
<1> HIDE DEF type, len, start, b, tooNew, noScript
<1>5. CASE type = <<"block", BLOCKTYPE_EOF>>
  BY <1>1, <1>2, <1>3, <1>5
<1>6. CASE /\ type # <<"block", BLOCKTYPE_EOF>> /\ type[1] \in {"block", "name"}
           /\ ~tooNew /\ ~(type[2] > BLOCKTYPE_MAX)
           /\ ~(len[1] # "len" \/ start > Len(f) \/ start + len[2] > Len(f)) /\ ~noScript
  <2>1. BlockLike(f, r.pos, b) /\ type[1] # "eof"
    BY <1>4, <1>6
  <2>2. NextBlock(f, r) = WithBlock(r, b)
    BY <1>1, <1>6, <2>1
  <2> QED BY <1>2, <1>6, <2>1, <2>2
<1>7. CASE /\ type # <<"block", BLOCKTYPE_EOF>>
           /\ ~(/\ type[1] \in {"block", "name"}
                /\ ~tooNew /\ ~(type[2] > BLOCKTYPE_MAX)
                /\ ~(len[1] # "len" \/ start > Len(f) \/ start + len[2] > Len(f)) /\ ~noScript)
  <2>1. \A c : ~BlockLike(f, r.pos, c)
    BY <1>4, <1>7
  <2>2. NextBlock(f, r) = WithOutcome(r, "failed") \/ NextBlock(f, r) = WithOutcome(r, "trapped")
    BY <1>1, <1>7
  <2> QED BY <1>2, <1>7, <2>1, <2>2
<1> QED BY <1>5, <1>6, <1>7

\* The numbers of a block.
LEMMA BlockLikeIs ==
  ASSUME NEW f \in Files, NEW e \in Int, NEW b, BlockLike(f, e, b)
  PROVE  /\ e \in Nat /\ b \in AnyBlockSet
         /\ b.start <= Len(f) /\ b.start + b.len <= Len(f)
         /\ b.start = StartAt(f, e) /\ TypeAt(f, e) \in Nat
         /\ b.start - LengthCells(RoomVersion(f)) = TypeAt(f, e) + 1
         /\ CellAt(f, TypeAt(f, e) + 1)[2] = b.len /\ CellAt(f, TypeAt(f, e))[2] = b.type
         /\ e <= TypeAt(f, e)
<1> DEFINE type == CellAt(f, TypeAt(f, e))
           len  == CellAt(f, TypeAt(f, e) + 1)
<1>1. /\ b = Block(type[2], StartAt(f, e), len[2])
      /\ type[1] \in {"block", "name"} /\ len[1] = "len"
      /\ ~(StartAt(f, e) > Len(f)) /\ ~(StartAt(f, e) + len[2] > Len(f))
  BY DEF BlockLike
<1>2. e \in Nat /\ TypeAt(f, e) \in Nat /\ e <= TypeAt(f, e)
  <2>1. \A i \in Int : CellAt(f, i) # <<"eof">> => i \in Nat
    BY Cells DEF CellAt
  <2>2. CASE CellAt(f, e) = <<"block", BLOCKTYPE_EXT>>
    <3>1. e \in Nat
      BY <2>1, <2>2
    <3> QED BY <2>2, <3>1 DEF TypeAt
  <2>3. CASE CellAt(f, e) # <<"block", BLOCKTYPE_EXT>>
    <3>1. TypeAt(f, e) = e
      BY <2>3 DEF TypeAt
    <3>2. CellAt(f, e)[1] # "eof"
      BY <1>1, <3>1
    <3>3. e \in Nat
      BY <2>1, <3>2
    <3> QED BY <3>1, <3>3
  <2> QED BY <2>2, <2>3
<1>3. ASSUME NEW i \in Nat, CellAt(f, i)[1] # "eof" PROVE CellAt(f, i) \in CELLS
  <2>1. CellAt(f, i) # <<"eof">>
    BY <1>3
  <2>2. i < Len(f) /\ CellAt(f, i) = f[i + 1] /\ i + 1 \in 1..Len(f)
    BY <2>1, Cells
  <2> QED BY <2>2, Cells
<1>4. type \in CELLS /\ len \in CELLS
  <2>1. TypeAt(f, e) + 1 \in Nat
    BY <1>2
  <2> QED BY <1>1, <1>2, <1>3, <2>1
<1>5. len[2] \in Int
  BY <1>1, <1>4, CellsAssumption
<1> HIDE DEF type, len
<1>6. b.type = type[2] /\ b.start = StartAt(f, e) /\ b.len = len[2]
  BY <1>1 DEF Block
<1>7. PICK w \in {1, 2} : w = LengthCells(RoomVersion(f))
  BY LengthCellsAre
<1>8. b.start = TypeAt(f, e) + 1 + w
  BY <1>6, <1>7 DEF StartAt
<1>9. b \in AnyBlockSet
  <2>1. b.start \in Nat
    BY <1>2, <1>7, <1>8
  <2>2. type[2] \in {c[2] : c \in CELLS}
    BY <1>4
  <2> QED BY <1>1, <1>5, <1>6, <2>1, <2>2 DEF AnyBlockSet, Block
<1>10. PICK i \in Nat, l \in Int, t \in Nat, m \in Nat :
         i = b.start /\ l = b.len /\ t = TypeAt(f, e) /\ m = Len(f)
  BY <1>2, <1>9, Cells DEF AnyBlockSet
<1>11. i = t + 1 + w /\ ~(i > m) /\ ~(i + l > m)
  BY <1>1, <1>6, <1>8, <1>10
<1>12. i <= m /\ i + l <= m /\ i - w = t + 1
  <2>1. i <= m /\ i + l <= m
    BY <1>11
  <2>2. i - w = t + 1
    BY <1>7, <1>11
  <2> QED BY <2>1, <2>2
<1> QED BY <1>2, <1>6, <1>7, <1>9, <1>10, <1>12 DEF type, len

\* The numbers of a block that does not go back.
LEMMA BlockIs ==
  ASSUME NEW f \in Files, NEW e \in Nat, NEW b, BlockAt(f, e, b)
  PROVE  /\ b \in BlockSet /\ e < b.start + b.len /\ b.start + b.len <= Len(f)
         /\ b.start = StartAt(f, e) /\ TypeAt(f, e) \in Nat
         /\ b.start - LengthCells(RoomVersion(f)) = TypeAt(f, e) + 1
         /\ CellAt(f, TypeAt(f, e) + 1)[2] = b.len /\ CellAt(f, TypeAt(f, e))[2] = b.type
         /\ e <= TypeAt(f, e)
<1>1. /\ b \in AnyBlockSet /\ b.start + b.len <= Len(f)
      /\ b.start = StartAt(f, e) /\ TypeAt(f, e) \in Nat
      /\ b.start - LengthCells(RoomVersion(f)) = TypeAt(f, e) + 1
      /\ CellAt(f, TypeAt(f, e) + 1)[2] = b.len /\ CellAt(f, TypeAt(f, e))[2] = b.type
      /\ e <= TypeAt(f, e)
  BY BlockLikeIs DEF BlockAt
<1>2. b.len \in Nat
  BY <1>1 DEF BlockAt
<1>3. b \in BlockSet
  BY <1>1, <1>2 DEF AnyBlockSet, BlockSet
<1>4. PICK i \in Nat, l \in Nat, t \in Nat, w \in {1, 2} :
        i = b.start /\ l = b.len /\ t = TypeAt(f, e) /\ w = LengthCells(RoomVersion(f))
  BY <1>1, <1>3, LengthCellsAre DEF BlockSet
<1>5. i - w = t + 1 /\ e <= t
  BY <1>1, <1>4
<1>6. e < i + l
  BY <1>4, <1>5
<1> QED BY <1>1, <1>3, <1>4, <1>6

\* One that is in BlockSet does not.
LEMMA LikeIsAt ==
  ASSUME NEW f \in Files, NEW e \in Int, NEW b \in BlockSet, BlockLike(f, e, b)
  PROVE  BlockAt(f, e, b)
<1>1. CellAt(f, TypeAt(f, e) + 1)[2] = b.len
  BY BlockLikeIs
<1>2. b.len \in Nat
  BY DEF BlockSet
<1> QED BY <1>1, <1>2 DEF BlockAt

\* What is true of 0 and of each number behind one it is true of.
LEMMA UpTo ==
  ASSUME NEW N \in Nat, NEW S \in SUBSET Nat, 0 \in S,
         \A n \in 1..N : n - 1 \in S => n \in S
  PROVE  \A n \in 0..N : n \in S
<1> DEFINE g == [n \in 0..N |-> n]
<1>1. \A n \in 0..N : g[n] = n
  OBVIOUS
<1>2. g[0] \in S /\ \A n \in 1..N : g[n - 1] \in S => g[n] \in S
  BY <1>1
<1> HIDE DEF g
<1>3. \A n \in 0..N : g[n] \in S
  BY <1>2, IteratedIn
<1> QED BY <1>1, <1>3

LEMMA NextBlockIn ==
  ASSUME NEW f \in Files, NEW r \in ReadSet
  PROVE  NextBlock(f, r) \in ReadSet
<1>1. CASE r.outcome # "reading"
  <2>1. NextBlock(f, r) = r
    BY <1>1 DEF NextBlock
  <2> QED BY <2>1
<1>2. CASE r.outcome = "reading"
  <2>1. CASE \E o \in {"ok", "failed", "trapped"} : NextBlock(f, r) = WithOutcome(r, o)
    BY <2>1 DEF ReadSet, WithOutcome
  <2>2. CASE \E b : BlockLike(f, r.pos, b) /\ NextBlock(f, r) = WithBlock(r, b)
    <3>1. PICK b : BlockLike(f, r.pos, b) /\ NextBlock(f, r) = WithBlock(r, b)
      BY <2>2
    <3>2. r.pos \in Int /\ r.blocks \in Seq(AnyBlockSet)
      BY DEF ReadSet
    <3>3. b \in AnyBlockSet
      BY <3>1, <3>2, BlockLikeIs
    <3>4. b.start + b.len \in Int /\ Append(r.blocks, b) \in Seq(AnyBlockSet)
      <4>1. b.start \in Nat /\ b.len \in Int
        BY <3>3 DEF AnyBlockSet
      <4> QED BY <3>2, <3>3, <4>1, AppendProperties
    <3>5. WithBlock(r, b) \in ReadSet
      BY <3>4 DEF ReadSet, WithBlock
    <3> QED BY <3>1, <3>5
  <2> QED BY <1>2, <2>1, <2>2, NextBlockIs
<1> QED BY <1>1, <1>2

FirstRead == [pos |-> 1, outcome |-> "reading", blocks |-> <<>>]
ReadsOf(g, f) ==
  g = [n \in 0..Len(f) + 1 |-> IF n = 0 THEN FirstRead ELSE NextBlock(f, g[n - 1])]

LEMMA FirstReadIs == FirstRead \in ReadSet
<1>1. <<>> \in Seq(AnyBlockSet)
  BY EmptySeq
<1>2. 1 \in Int
  OBVIOUS
<1> QED BY <1>1, <1>2 DEF ReadSet, FirstRead

LEMMA ReadsExist ==
  ASSUME NEW f \in Files
  PROVE  \E g : ReadsOf(g, f)
<1> DEFINE V == ReadSet
           N == Len(f) + 1
           F == [n \in Nat |-> [r \in V |-> NextBlock(f, r)]]
<1>1. FirstRead \in V
  BY FirstReadIs
<1>2. F \in [Nat -> [V -> V]] /\ N \in Nat
  BY NextBlockIn, Cells
<1>3. \A n \in Nat, r \in V : F[n][r] = NextBlock(f, r)
  OBVIOUS
<1> HIDE DEF V, N, F
<1>4. PICK g : g \in [0..N -> V] /\ g[0] = FirstRead /\ \A n \in 1..N : g[n] = F[n][g[n - 1]]
  <2>1. \E g : IteratedBy(g, V, FirstRead, F, N)
    BY <1>1, <1>2, Iterated
  <2> QED BY <2>1 DEF IteratedBy
<1>5. ASSUME NEW n \in 0..N, n # 0 PROVE g[n] = NextBlock(f, g[n - 1])
  <2>1. n \in 1..N /\ n \in Nat /\ n - 1 \in 0..N
    BY <1>2, <1>5
  <2>2. g[n - 1] \in V
    BY <1>4, <2>1
  <2> QED BY <1>3, <1>4, <2>1, <2>2
<1>6. \A n \in 0..N : g[n] = IF n = 0 THEN FirstRead ELSE NextBlock(f, g[n - 1])
  BY <1>4, <1>5
<1>7. g = [n \in 0..N |-> g[n]]
  BY <1>4
<1>8. g = [n \in 0..N |-> IF n = 0 THEN FirstRead ELSE NextBlock(f, g[n - 1])]
  BY <1>6, <1>7, Zenon
<1> QED BY <1>8 DEF ReadsOf, N

\* The reading of a room, one block after the other.
LEMMA RoomReads ==
  ASSUME NEW f \in Files
  PROVE  \E g : /\ g[0] = FirstRead /\ \A n \in 1..Len(f) + 1 : g[n] = NextBlock(f, g[n - 1])
                /\ RoomFile_read(f) = g[Len(f) + 1]
<1> DEFINE g == CHOOSE g : ReadsOf(g, f)
           N == Len(f) + 1
<1>1. ReadsOf(g, f)
  BY ReadsExist
<1>2. RoomFile_read(f) = g[N]
  BY Zenon DEF RoomFile_read, ReadsOf, FirstRead
<1>3. N \in Nat /\ 0 \in 0..N /\ \A n \in 1..N : n \in 0..N /\ n # 0
  BY Cells
<1> HIDE DEF g, N
<1>4. g = [n \in 0..N |-> IF n = 0 THEN FirstRead ELSE NextBlock(f, g[n - 1])]
  BY <1>1 DEF ReadsOf, N
<1>5. \A n \in 0..N : g[n] = IF n = 0 THEN FirstRead ELSE NextBlock(f, g[n - 1])
  BY <1>4, Zenon
<1>6. g[0] = FirstRead /\ \A n \in 1..N : g[n] = NextBlock(f, g[n - 1])
  BY <1>3, <1>5
<1> QED BY <1>2, <1>6 DEF N

\* Blocks one after the other from the beginning of a room on, and the mark
\* of the end behind the last one.
EndOf(B, j) == IF j = 0 THEN 1 ELSE B[j].start + B[j].len
Path(f, B)  == B \in Seq(BlockSet) /\ \A j \in 1..Len(B) : BlockAt(f, EndOf(B, j - 1), B[j])
ReadsAs(f, B) == Path(f, B) /\ EndAt(f, EndOf(B, Len(B)))

LEMMA PathEnds ==
  ASSUME NEW f \in Files, NEW B, Path(f, B)
  PROVE  \A j \in 0..Len(B) :
            /\ EndOf(B, j) \in Nat /\ j < EndOf(B, j) /\ (j # 0 => EndOf(B, j) <= Len(f))
            /\ j # 0 => EndOf(B, j - 1) < EndOf(B, j)
<1> DEFINE S == {j \in Nat : /\ EndOf(B, j) \in Nat /\ j < EndOf(B, j)
                             /\ j # 0 => EndOf(B, j) <= Len(f) /\ EndOf(B, j - 1) < EndOf(B, j)}
<1>1. Len(B) \in Nat /\ B \in Seq(BlockSet)
  BY LenProperties DEF Path
<1>2. 0 \in S
  BY DEF EndOf
<1>3. ASSUME NEW j \in 1..Len(B), j - 1 \in S PROVE j \in S
  <2>1. PICK e \in Nat : e = EndOf(B, j - 1) /\ j - 1 < e
    BY <1>3
  <2>2. BlockAt(f, e, B[j])
    BY <2>1 DEF Path
  <2>3. B[j] \in BlockSet /\ e < B[j].start + B[j].len /\ B[j].start + B[j].len <= Len(f)
    BY <2>2, BlockIs
  <2>4. EndOf(B, j) = B[j].start + B[j].len
    <3>1. j # 0
      OBVIOUS
    <3> QED BY <3>1 DEF EndOf
  <2>5. B[j].start + B[j].len \in Nat
    BY <2>3 DEF BlockSet
  <2>6. j < B[j].start + B[j].len
    <3>1. PICK m \in Nat : m = B[j].start + B[j].len
      BY <2>5
    <3>2. e < m
      BY <2>3, <3>1
    <3>3. j < m
      BY <1>1, <2>1, <3>2
    <3> QED BY <3>1, <3>3
  <2> QED BY <2>1, <2>3, <2>4, <2>5, <2>6
<1> HIDE DEF S
<1>4. \A j \in 0..Len(B) : j \in S
  <2>1. S \in SUBSET Nat
    BY DEF S
  <2> QED BY <1>1, <1>2, <1>3, <2>1, UpTo
<1> QED BY <1>4 DEF S

\* One block more.
LEMMA PathOn ==
  ASSUME NEW f \in Files, NEW B, Path(f, B), NEW b, BlockAt(f, EndOf(B, Len(B)), b)
  PROVE  LET C == Append(B, b)
         IN  Path(f, C) /\ Len(C) = Len(B) + 1 /\ EndOf(C, Len(C)) = b.start + b.len
<1> DEFINE C == Append(B, b)
<1>1. Len(B) \in Nat /\ B \in Seq(BlockSet)
  BY LenProperties DEF Path
<1>2. b \in BlockSet
  <2>1. EndOf(B, Len(B)) \in Nat
    BY <1>1, PathEnds
  <2> QED BY <2>1, BlockIs
<1>3. C \in Seq(BlockSet) /\ Len(C) = Len(B) + 1 /\ C[Len(B) + 1] = b
      /\ \A j \in 1..Len(B) : C[j] = B[j]
  BY <1>1, <1>2, AppendProperties
<1> HIDE DEF C
<1>4. \A j \in 0..Len(B) : EndOf(C, j) = EndOf(B, j)
  <2> TAKE j \in 0..Len(B)
  <2>1. CASE j = 0
    BY <2>1 DEF EndOf
  <2>2. CASE j # 0
    <3>1. j \in 1..Len(B)
      BY <1>1, <2>2
    <3>2. C[j] = B[j]
      BY <1>3, <3>1
    <3> QED BY <2>2, <3>2 DEF EndOf
  <2> QED BY <2>1, <2>2
<1>5. ASSUME NEW j \in 1..Len(C) PROVE BlockAt(f, EndOf(C, j - 1), C[j])
  <2>1. j - 1 \in 0..Len(B) /\ EndOf(C, j - 1) = EndOf(B, j - 1)
    BY <1>1, <1>3, <1>4
  <2>2. CASE j = Len(B) + 1
    <3>1. j - 1 = Len(B) /\ C[j] = b
      BY <1>1, <1>3, <2>2
    <3> QED BY <2>1, <3>1
  <2>3. CASE j # Len(B) + 1
    <3>1. j \in 1..Len(B)
      BY <1>1, <1>3, <2>3
    <3> QED BY <1>3, <2>1, <3>1 DEF Path
  <2> QED BY <2>2, <2>3
<1>6. EndOf(C, Len(C)) = b.start + b.len
  <2>1. Len(C) # 0 /\ C[Len(C)] = b
    BY <1>1, <1>3
  <2> QED BY <2>1 DEF EndOf
<1> QED BY <1>3, <1>5, <1>6 DEF Path, C

\* What is read of a room are its blocks, each at its place; one after the other
\* when none goes back, and then the reading ends before it has made as many
\* steps as it may.
LEMMA RoomIs ==
  ASSUME NEW f \in Files
  PROVE  LET room == RoomFile_read(f)
         IN  /\ room \in ReadSet
             /\ \A k \in 1..Len(room.blocks) : \E e \in Int : BlockLike(f, e, room.blocks[k])
             /\ room.blocks \in Seq(BlockSet) =>
                   /\ Path(f, room.blocks) /\ room.outcome # "reading"
                   /\ room.outcome = "ok" => ReadsAs(f, room.blocks)
<1>1. PICK g : /\ g[0] = FirstRead /\ \A n \in 1..Len(f) + 1 : g[n] = NextBlock(f, g[n - 1])
               /\ RoomFile_read(f) = g[Len(f) + 1]
  BY RoomReads
<1> DEFINE N == Len(f) + 1
           V(n) == {r \in ReadSet :
                      /\ \A k \in 1..Len(r.blocks) : \E e \in Int : BlockLike(f, e, r.blocks[k])
                      /\ r.blocks \in Seq(BlockSet) =>
                            /\ Path(f, r.blocks) /\ r.pos = EndOf(r.blocks, Len(r.blocks))
                            /\ r.outcome = "ok" => EndAt(f, r.pos)
                      /\ r.outcome = "reading" => Len(r.blocks) = n}
<1>2. N \in Nat
  BY Cells
<1>3. g[0] \in V(0)
  <2>1. FirstRead.blocks = <<>> /\ FirstRead.pos = 1 /\ FirstRead.outcome = "reading"
    BY DEF FirstRead
  <2>2. Path(f, <<>>) /\ EndOf(<<>>, Len(<<>>)) = 1 /\ Len(<<>>) = 0 /\ 1..0 = {}
    <3>1. <<>> \in Seq(BlockSet) /\ Len(<<>>) = 0 /\ 1..0 = {}
      BY EmptySeq
    <3> QED BY <3>1 DEF Path, EndOf
  <2> QED BY <1>1, <2>1, <2>2, FirstReadIs
<1>4. ASSUME NEW n \in 1..N, g[n - 1] \in V(n - 1) PROVE g[n] \in V(n)
  <2>1. PICK r \in V(n - 1) : r = g[n - 1] /\ g[n] = NextBlock(f, r)
    BY <1>1, <1>4
  <2>2. NextBlock(f, r) \in ReadSet
    BY NextBlockIn
  <2>3. CASE r.outcome # "reading"
    BY <2>1, <2>3 DEF NextBlock
  <2>4. CASE r.outcome = "reading"
    <3>1. CASE EndAt(f, r.pos) /\ NextBlock(f, r) = WithOutcome(r, "ok")
      <4>1. PICK s \in ReadSet : s = NextBlock(f, r)
        BY <2>2
      <4>2. s.pos = r.pos /\ s.blocks = r.blocks /\ s.outcome = "ok"
        BY <3>1, <4>1 DEF WithOutcome, ReadSet
      <4>3. s \in V(n)
        BY <3>1, <4>2
      <4> QED BY <2>1, <4>1, <4>3
    <3>2. CASE \E b : BlockLike(f, r.pos, b) /\ NextBlock(f, r) = WithBlock(r, b)
      <4>1. PICK s, b : s \in ReadSet /\ s = NextBlock(f, r) /\ BlockLike(f, r.pos, b) /\ s = WithBlock(r, b)
        BY <2>2, <3>2
      <4>2. s.pos = b.start + b.len /\ s.blocks = Append(r.blocks, b) /\ s.outcome = "reading"
        BY <2>4, <4>1 DEF WithBlock, ReadSet
      <4>3. r.pos \in Int /\ r.blocks \in Seq(AnyBlockSet) /\ b \in AnyBlockSet
            /\ Len(r.blocks) \in Nat
        <5>1. r.pos \in Int /\ r.blocks \in Seq(AnyBlockSet)
          BY DEF ReadSet
        <5> QED BY <4>1, <5>1, BlockLikeIs, LenProperties
      <4>4. /\ Len(s.blocks) = Len(r.blocks) + 1 /\ s.blocks[Len(r.blocks) + 1] = b
            /\ \A k \in 1..Len(r.blocks) : s.blocks[k] = r.blocks[k]
        BY <4>2, <4>3, AppendProperties
      <4>5. \A k \in 1..Len(s.blocks) : \E e \in Int : BlockLike(f, e, s.blocks[k])
        <5> TAKE k \in 1..Len(s.blocks)
        <5>1. CASE k = Len(r.blocks) + 1
          BY <4>1, <4>3, <4>4, <5>1
        <5>2. CASE k # Len(r.blocks) + 1
          <6>1. k \in 1..Len(r.blocks)
            BY <4>3, <4>4, <5>2
          <6>2. \E e \in Int : BlockLike(f, e, r.blocks[k])
            BY <6>1
          <6> QED BY <4>4, <6>1, <6>2
        <5> QED BY <5>1, <5>2
      <4>6. ASSUME s.blocks \in Seq(BlockSet)
            PROVE  Path(f, s.blocks) /\ s.pos = EndOf(s.blocks, Len(s.blocks))
        <5>1. PICK m \in Nat : m = Len(r.blocks)
          BY <4>3
        <5>2. \A k \in 1..m + 1 : s.blocks[k] \in BlockSet
          BY <4>4, <4>6, <5>1
        <5>3. b \in BlockSet /\ \A k \in 1..m : r.blocks[k] \in BlockSet
          <6>1. m + 1 \in 1..m + 1 /\ \A k \in 1..m : k \in 1..m + 1
            OBVIOUS
          <6> QED BY <4>4, <5>1, <5>2, <6>1
        <5>4. r.blocks \in Seq(BlockSet)
          <6>1. r.blocks = [k \in 1..m |-> r.blocks[k]]
            BY <4>3, <5>1, LenProperties
          <6>2. r.blocks \in [1..m -> BlockSet]
            BY <5>3, <6>1
          <6> QED BY <6>2, SeqDef
        <5>5. BlockAt(f, EndOf(r.blocks, Len(r.blocks)), b) /\ Path(f, r.blocks)
          <6>1. BlockAt(f, r.pos, b)
            BY <4>1, <4>3, <5>3, LikeIsAt
          <6> QED BY <5>4, <6>1
        <5> QED BY <4>2, <5>5, PathOn
      <4>7. Len(s.blocks) = n
        BY <1>2, <2>4, <4>4
      <4>8. s \in V(n)
        BY <4>1, <4>2, <4>5, <4>6, <4>7
      <4> QED BY <2>1, <4>1, <4>8
    <3>3. CASE \E o \in {"failed", "trapped"} : NextBlock(f, r) = WithOutcome(r, o)
      <4>1. PICK s \in ReadSet : s = NextBlock(f, r)
        BY <2>2
      <4>2. s.pos = r.pos /\ s.blocks = r.blocks /\ s.outcome \notin {"ok", "reading"}
        BY <3>3, <4>1 DEF WithOutcome, ReadSet
      <4>3. s \in V(n)
        BY <4>2
      <4> QED BY <2>1, <4>1, <4>3
    <3> QED BY <2>4, <3>1, <3>2, <3>3, NextBlockIs
  <2> QED BY <2>3, <2>4
<1>5. g[N] \in V(N)
  <2> DEFINE S == {n \in Nat : g[n] \in V(n)}
  <2> HIDE DEF V
  <2>1. 0 \in S /\ S \in SUBSET Nat /\ \A n \in 1..N : n - 1 \in S => n \in S
    BY <1>2, <1>3, <1>4
  <2> HIDE DEF S
  <2>2. PICK m \in Nat : m = N
    BY <1>2
  <2>3. \A n \in 0..m : n \in S
    BY <2>1, <2>2, UpTo
  <2>4. m \in S
    BY <2>3
  <2> QED BY <2>2, <2>4 DEF S
<1>6. PICK room : room = RoomFile_read(f) /\ room \in V(N)
  BY <1>1, <1>5
<1>7. ASSUME room.blocks \in Seq(BlockSet), room.outcome = "reading" PROVE FALSE
  <2>1. Path(f, room.blocks) /\ Len(room.blocks) = N
    BY <1>6, <1>7
  <2>2. N \in 0..N /\ N # 0
    BY <1>2, Cells
  <2>3. PICK m \in Nat : m = EndOf(room.blocks, N) /\ N < m /\ m <= Len(f)
    BY <2>1, <2>2, PathEnds
  <2> QED BY <2>3, Cells
<1>8. room.blocks \in Seq(BlockSet) /\ room.outcome = "ok" => ReadsAs(f, room.blocks)
  BY <1>6 DEF ReadsAs
<1> QED BY <1>6, <1>7, <1>8

\* The blocks of a room none of which goes back.
LEMMA ForwardIs ==
  ASSUME NEW f \in Files
  PROVE  Forward(f) <=> RoomFile_read(f).blocks \in Seq(BlockSet)
<1> DEFINE B == RoomFile_read(f).blocks
<1>1. B \in Seq(AnyBlockSet)
  BY RoomIs DEF ReadSet
<1>2. PICK m \in Nat : m = Len(B) /\ B = [k \in 1..m |-> B[k]]
  BY <1>1, LenProperties
<1>3. \A k \in 1..m : B[k] \in AnyBlockSet
  BY <1>1, <1>2
<1>4. \A k \in 1..m : B[k].len >= 0 <=> B[k] \in BlockSet
  BY <1>3 DEF AnyBlockSet, BlockSet
<1>5. Forward(f) <=> \A k \in 1..m : B[k].len >= 0
  BY <1>2 DEF Forward
<1> HIDE DEF B
<1>6. (\A k \in 1..m : B[k] \in BlockSet) <=> B \in Seq(BlockSet)
  <2>1. ASSUME \A k \in 1..m : B[k] \in BlockSet PROVE B \in Seq(BlockSet)
    <3>1. B \in [1..m -> BlockSet]
      BY <1>2, <2>1
    <3> QED BY <3>1, SeqDef
  <2>2. ASSUME B \in Seq(BlockSet) PROVE \A k \in 1..m : B[k] \in BlockSet
    BY <1>2, <2>2
  <2> QED BY <2>1, <2>2
<1> QED BY <1>4, <1>5, <1>6 DEF B

\* Blocks one after the other, up to the mark of the end, are what is read.
LEMMA RoomReadAs ==
  ASSUME NEW f \in Files, NEW B, ReadsAs(f, B)
  PROVE  LET room == RoomFile_read(f)
         IN  room.outcome = "ok" /\ room.blocks = B
<1>1. PICK g : /\ g[0] = FirstRead /\ \A n \in 1..Len(f) + 1 : g[n] = NextBlock(f, g[n - 1])
               /\ RoomFile_read(f) = g[Len(f) + 1]
  BY RoomReads
<1> DEFINE N == Len(f) + 1
           K == Len(B)
           After1(n) == IF n <= K THEN [pos |-> EndOf(B, n), outcome |-> "reading", blocks |-> SubSeq(B, 1, n)]
                        ELSE [pos |-> EndOf(B, K), outcome |-> "ok", blocks |-> B]
           S == {n \in Nat : g[n] = After1(n)}
<1>2. N \in Nat /\ K \in Nat /\ B \in Seq(BlockSet) /\ Path(f, B) /\ Len(f) \in Nat
  BY Cells, LenProperties DEF ReadsAs, Path
<1>3. 0 \in S
  <2>1. SubSeq(B, 1, 0) = <<>> /\ EndOf(B, 0) = 1 /\ 0 <= K
    BY <1>2, SubSeqProperties DEF EndOf
  <2>2. After1(0) = FirstRead
    BY <2>1 DEF FirstRead
  <2> HIDE DEF After1
  <2> QED BY <1>1, <2>2
<1>4. ASSUME NEW n \in 1..N, n - 1 \in S PROVE n \in S
  <2>1. g[n] = NextBlock(f, g[n - 1]) /\ g[n - 1] = After1(n - 1) /\ n \in Nat /\ n - 1 \in Nat
    BY <1>1, <1>2, <1>4
  <2>2. CASE n <= K
    <3>1. PICK r : r = [pos |-> EndOf(B, n - 1), outcome |-> "reading", blocks |-> SubSeq(B, 1, n - 1)]
      OBVIOUS
    <3>2. g[n - 1] = r
      BY <1>2, <2>1, <2>2, <3>1
    <3>3. BlockAt(f, r.pos, B[n])
      <4>1. n \in 1..Len(B) /\ r.pos = EndOf(B, n - 1)
        BY <1>2, <2>1, <2>2, <3>1
      <4> QED BY <1>2, <4>1 DEF Path
    <3>4. /\ ~EndAt(f, r.pos) /\ BlockLike(f, r.pos, B[n])
          /\ \A b : BlockLike(f, r.pos, b) => b = B[n]
      BY <3>3, Zenon DEF BlockAt, BlockLike, EndAt
    <3>5. r.outcome = "reading"
      BY <3>1
    <3>6. NextBlock(f, r) = WithBlock(r, B[n])
      BY <3>3, <3>4, <3>5, NextBlockIs
    <3>7. Append(SubSeq(B, 1, n - 1), B[n]) = SubSeq(B, 1, n)
      <4>1. n \in 1..Len(B) /\ n - 1 \in 1 - 1..Len(B) - 1 /\ (n - 1) + 1 = n
        BY <1>2, <2>1, <2>2
      <4>2. /\ SubSeq(B, 1, n) \in Seq(BlockSet) /\ Len(SubSeq(B, 1, n)) = n
            /\ \A i \in 1..n : SubSeq(B, 1, n)[i] = B[i]
        <5>1. SubSeq(B, 1, n) \in Seq(BlockSet) /\ Len(SubSeq(B, 1, n)) = n
              /\ \A i \in 1..n - 1 + 1 : SubSeq(B, 1, n)[i] = B[1 + i - 1]
          BY <1>2, <4>1, SubSeqProperties
        <5> QED BY <4>1, <5>1
      <4>3. /\ SubSeq(B, 1, n - 1) \in Seq(BlockSet) /\ Len(SubSeq(B, 1, n - 1)) = n - 1
            /\ \A i \in 1..n - 1 : SubSeq(B, 1, n - 1)[i] = B[i]
        <5>1. SubSeq(B, 1, n - 1) \in Seq(BlockSet)
              /\ Len(SubSeq(B, 1, n - 1)) = (IF 1 <= n - 1 THEN (n - 1) - 1 + 1 ELSE 0)
              /\ \A i \in 1..(n - 1) - 1 + 1 : SubSeq(B, 1, n - 1)[i] = B[1 + i - 1]
          BY <1>2, <4>1, SubSeqProperties
        <5> QED BY <4>1, <5>1
      <4>4. PICK a \in Seq(BlockSet) : a = SubSeq(B, 1, n - 1)
        BY <4>3
      <4>5. PICK c \in Seq(BlockSet) : c = SubSeq(B, 1, n)
        BY <4>2
      <4>6. B[n] \in BlockSet
        BY <1>2, <4>1
      <4>7. /\ Append(a, B[n]) \in Seq(BlockSet) /\ Len(Append(a, B[n])) = n
            /\ \A i \in 1..n - 1 : Append(a, B[n])[i] = a[i]
            /\ Append(a, B[n])[n] = B[n]
        BY <4>1, <4>3, <4>4, <4>6, AppendProperties
      <4>8. PICK d \in Seq(BlockSet) : d = Append(a, B[n])
        BY <4>7
      <4>9. Len(d) = n /\ Len(c) = n /\ \A i \in 1..n : d[i] = c[i]
        <5>1. \A i \in 1..n : i \in 1..n - 1 \/ i = n
          BY <4>1
        <5> QED BY <4>2, <4>3, <4>4, <4>5, <4>7, <4>8, <5>1
      <4>10. d = c
        BY <4>9, SeqEqual
      <4> QED BY <4>4, <4>5, <4>8, <4>10
    <3>8. WithBlock(r, B[n]) = After1(n)
      <4>1. EndOf(B, n) = B[n].start + B[n].len
        <5>1. n # 0
          BY <1>2
        <5> QED BY <5>1 DEF EndOf
      <4>2. After1(n) = [pos |-> EndOf(B, n), outcome |-> "reading", blocks |-> SubSeq(B, 1, n)]
        BY <2>2
      <4>3. WithBlock(r, B[n]) = [pos |-> B[n].start + B[n].len, outcome |-> "reading",
                                  blocks |-> Append(SubSeq(B, 1, n - 1), B[n])]
        BY <3>1 DEF WithBlock
      <4> HIDE DEF After1
      <4> QED BY <3>7, <4>1, <4>2, <4>3, Zenon
    <3> HIDE DEF After1
    <3> QED BY <2>1, <3>2, <3>6, <3>8
  <2>3. CASE n = K + 1
    <3>1. PICK r : r = [pos |-> EndOf(B, K), outcome |-> "reading", blocks |-> B]
      OBVIOUS
    <3>2. g[n - 1] = r
      <4>1. n - 1 = K /\ n - 1 <= K
        BY <1>2, <2>3
      <4>2. SubSeq(B, 1, K) = B
        BY <1>2, SubSeqProperties, SeqEqual
      <4> QED BY <2>1, <3>1, <4>1, <4>2
    <3>3. EndAt(f, r.pos) /\ r.outcome = "reading"
      BY <3>1 DEF ReadsAs
    <3>4. ~ \E b : BlockLike(f, r.pos, b)
      BY <3>3, Zenon DEF BlockLike, EndAt
    <3>5. NextBlock(f, r) = WithOutcome(r, "ok")
      BY <3>3, <3>4, NextBlockIs
    <3>6. WithOutcome(r, "ok") = After1(n)
      <4>1. ~(n <= K)
        BY <1>2, <2>3
      <4> QED BY <3>1, <4>1 DEF WithOutcome
    <3> HIDE DEF After1
    <3> QED BY <2>1, <3>2, <3>5, <3>6
  <2>4. CASE ~(n <= K) /\ n # K + 1
    <3>1. ~(n - 1 <= K) /\ ~(n <= K)
      BY <1>2, <2>1, <2>4
    <3>2. After1(n - 1).outcome # "reading" /\ After1(n - 1) = After1(n)
      BY <3>1
    <3>3. NextBlock(f, After1(n - 1)) = After1(n - 1)
      <4> HIDE DEF After1
      <4> QED BY <3>2 DEF NextBlock
    <3> HIDE DEF After1
    <3> QED BY <2>1, <3>2, <3>3
  <2> QED BY <2>2, <2>3, <2>4
<1> HIDE DEF S, After1
<1>5. N \in S
  <2>1. \A n \in 0..N : n \in S
    <3>1. S \in SUBSET Nat
      BY DEF S
    <3> QED BY <1>2, <1>3, <1>4, <3>1, UpTo
  <2> QED BY <1>2, <2>1
<1>6. ~(N <= K)
  <2>1. CASE K = 0
    BY <1>2, <2>1
  <2>2. CASE K # 0
    <3>1. EndOf(B, K) \in Nat /\ K < EndOf(B, K) /\ EndOf(B, K) <= Len(f)
      BY <1>2, <2>2, PathEnds
    <3> QED BY <1>2, <3>1
  <2> QED BY <2>1, <2>2
<1>7. g[N] = [pos |-> EndOf(B, K), outcome |-> "ok", blocks |-> B]
  BY <1>5, <1>6 DEF S, After1
<1> QED BY <1>1, <1>7

LEMMA MaxIs ==
  ASSUME NEW S \in SUBSET Nat, S # {}, NEW N \in Nat, \A x \in S : x <= N
  PROVE  Max(S) \in S /\ \A y \in S : y <= Max(S)
<1> DEFINE T == {n \in Nat : N - n \in S}
<1>1. T \in SUBSET Nat /\ T # {}
  <2>1. PICK x \in S : x \in Nat /\ x <= N
    OBVIOUS
  <2>2. N - x \in Nat /\ N - (N - x) = x
    BY <2>1
  <2>3. N - x \in T
    BY <2>1, <2>2
  <2> QED BY <2>3
<1>2. PICK n \in T : n = Min(T) /\ \A y \in T : n <= y
  BY <1>1, MinIs
<1>3. PICK m \in S : m = N - n
  BY <1>2
<1>4. \A y \in S : m >= y
  <2> TAKE y \in S
  <2>1. y \in Nat /\ y <= N /\ N - y \in Nat /\ N - (N - y) = y
    OBVIOUS
  <2>2. n <= N - y
    BY <1>2, <2>1
  <2> QED BY <1>2, <1>3, <2>1, <2>2
<1>5. Max(S) \in S /\ \A y \in S : Max(S) >= y
  BY <1>4 DEF Max
<1>6. \A y \in S : y <= Max(S)
  BY <1>5
<1> QED BY <1>5, <1>6

\* The last block of a type.
LastOf(B, type, k) ==
  /\ k \in 1..Len(B) /\ B[k].type = type
  /\ \A j \in 1..Len(B) : B[j].type = type => j <= k

LEMMA BlockOfIs ==
  ASSUME NEW room, room.blocks \in Seq(AnyBlockSet), NEW type
  PROVE  LET B == room.blocks
         IN  IF \E j \in 1..Len(B) : B[j].type = type
             THEN \E k : LastOf(B, type, k) /\ BlockOf(room, type) = B[k]
             ELSE BlockOf(room, type) = Block(type, 0, 0)
<1> DEFINE B == room.blocks
           found == {k \in 1..Len(B) : B[k].type = type}
<1>1. DOMAIN B = 1..Len(B) /\ Len(B) \in Nat
  BY LenProperties
<1>2. BlockOf(room, type) = IF found = {} THEN Block(type, 0, 0) ELSE B[Max(found)]
  BY <1>1 DEF BlockOf
<1>3. CASE found = {}
  BY <1>2, <1>3
<1>4. CASE found # {}
  <2>1. Max(found) \in found /\ \A y \in found : y <= Max(found)
    <3>1. found \in SUBSET Nat /\ \A x \in found : x <= Len(B)
      BY <1>1
    <3> HIDE DEF found
    <3> QED BY <1>1, <1>4, <3>1, MaxIs
  <2>2. PICK k : k = Max(found)
    OBVIOUS
  <2>3. LastOf(B, type, k)
    BY <2>1, <2>2 DEF LastOf
  <2> QED BY <1>2, <1>4, <2>2, <2>3
<1> QED BY <1>3, <1>4

\* The blocks of a path: their places, and what the code compares them with.
LEMMA PathBlock ==
  ASSUME NEW f \in Files, NEW B, Path(f, B), NEW k \in 1..Len(B)
  PROVE  /\ EndOf(B, k - 1) \in Nat /\ BlockAt(f, EndOf(B, k - 1), B[k]) /\ B[k] \in BlockSet
         /\ EndOf(B, k) = B[k].start + B[k].len
<1>1. Len(B) \in Nat
  BY LenProperties DEF Path
<1>2. k - 1 \in 0..Len(B) /\ k # 0 /\ k \in Nat
  BY <1>1
<1>3. EndOf(B, k - 1) \in Nat
  BY <1>2, PathEnds
<1>4. BlockAt(f, EndOf(B, k - 1), B[k])
  BY DEF Path
<1>5. B[k] \in BlockSet
  BY <1>3, <1>4, BlockIs
<1>6. EndOf(B, k) = B[k].start + B[k].len
  BY <1>2 DEF EndOf
<1> QED BY <1>3, <1>4, <1>5, <1>6

\* The script of a room is behind its length, or there is none.
LEMMA RoomStart ==
  ASSUME NEW f \in Files,
         NEW b, b = BlockOf(RoomFile_read(f), BLOCKTYPE_COMPSCRIPT3), b.start # 0
  PROVE  \E k : /\ LastOf(RoomFile_read(f).blocks, BLOCKTYPE_COMPSCRIPT3, k)
                /\ b = RoomFile_read(f).blocks[k] /\ b \in AnyBlockSet
                /\ b.start - LengthCells(RoomVersion(f)) \in Nat
                /\ b.start <= Len(f)
<1> DEFINE B == RoomFile_read(f).blocks
<1>1. B \in Seq(AnyBlockSet) /\ \A k \in 1..Len(B) : \E e \in Int : BlockLike(f, e, B[k])
  BY RoomIs DEF ReadSet
<1>2. PICK k : LastOf(B, BLOCKTYPE_COMPSCRIPT3, k) /\ b = B[k]
  <2>1. b # Block(BLOCKTYPE_COMPSCRIPT3, 0, 0)
    BY DEF Block
  <2> QED BY <1>1, <2>1, BlockOfIs
<1> HIDE DEF B
<1>3. PICK e \in Int : BlockLike(f, e, b)
  BY <1>1, <1>2 DEF LastOf
<1>4. PICK t \in Nat : /\ b.start - LengthCells(RoomVersion(f)) = t + 1
                       /\ b \in AnyBlockSet /\ b.start <= Len(f)
  BY <1>3, BlockLikeIs
<1>5. b.start - LengthCells(RoomVersion(f)) \in Nat
  <2>1. t + 1 \in Nat
    OBVIOUS
  <2> QED BY <1>4, <2>1
<1> QED BY <1>2, <1>4, <1>5 DEF B

\* A flag is cleared in its place.
LEMMA FlagCleared ==
  ASSUME NEW f \in Files, NEW at
  PROVE  [f EXCEPT ![at][2] = WithoutAlpha(@)] \in Files
<1> DEFINE g == [f EXCEPT ![at][2] = WithoutAlpha(@)]
<1>1. f \in [1..Len(f) -> CELLS] /\ Len(f) \in Nat
  BY Cells
<1>2. ASSUME NEW c \in CELLS PROVE [c EXCEPT ![2] = WithoutAlpha(@)] \in CELLS
  <2>1. CASE Len(c) > 1
    BY <2>1, CellsAssumption
  <2>2. CASE ~(Len(c) > 1)
    <3>1. PICK n \in Nat \ {0} : n = Len(c) /\ c = [k \in 1..n |-> c[k]]
      BY CellsAssumption
    <3>2. n = 1
      <4>1. ~(n > 1)
        BY <2>2, <3>1
      <4> QED BY <4>1
    <3>3. [c EXCEPT ![2] = WithoutAlpha(@)] = c
      BY <3>1, <3>2
    <3> QED BY <3>3
  <2> QED BY <2>1, <2>2
<1>3. g \in [1..Len(f) -> CELLS]
  BY <1>1, <1>2
<1> HIDE DEF g
<1>4. g \in Seq(CELLS)
  BY <1>1, <1>3, SeqDef
<1> QED BY <1>4 DEF Files, g

LEMMA ObjectsAre ==
  ASSUME NEW o \in Objects
  PROVE  /\ o \in Files /\ << <<"len", Len(o)>> >> \in Files /\ << <<"high">> >> \in Files
         /\ CONTENTS \in SUBSET Objects
<1>1. o \in Files /\ <<"len", Len(o)>> \in CELLS /\ <<"high">> \in CELLS
  BY FilesAssumption DEF Files
<1>2. ASSUME NEW c \in CELLS PROVE <<c>> \in Files
  <2>1. <<c>> \in Seq(CELLS)
    OBVIOUS
  <2> QED BY <2>1 DEF Files
<1>3. CONTENTS \in SUBSET Objects
  BY DEF Objects
<1> QED BY <1>1, <1>2, <1>3

-----------------------------------------------------------------------------
(* The states of the tools                                                 *)

RegFields == {"before", "objs", "stamp", "at", "found", "index", "start", "tmp", "tmptime",
              "short", "adf", "next"}
InjectPCs == {"inject", "search", "copy", "rest", "rename"}

ObjectsOK(o) ==
  /\ \A n \in DOMAIN o : o[n].cells \in Objects
  /\ \A c \in COMMANDS : c.tool = "inject" => \A k \in DOMAIN c.args : c.args[k].obj \in DOMAIN o

\* Which script is to be replaced.
StartOK ==
  IF target.room
  THEN LET room == RoomFile_read(target.cells)
       IN  room.outcome = "ok" /\ reg.start = BlockOf(room, BLOCKTYPE_COMPSCRIPT3).start
  ELSE reg.start \in Signatures(target.cells)

TargetOK ==
  DOMAIN target = {"room", "cells", "time"} /\ target.room \in BOOLEAN /\ target.cells \in Files

RegOK ==
  /\ DOMAIN reg = RegFields /\ reg.before \in Files /\ reg.tmp \in Files
  /\ ObjectsOK(objs) /\ ObjectsOK(reg.objs)

\* Which tool runs, and where it is.
CmdOK ==
  /\ cmd = NoCommand \/ cmd \in COMMANDS
  /\ \/ pc = "shell"
     \/ cmd \in COMMANDS /\ cmd.tool = "inject" /\ pc \in InjectPCs
     \/ cmd \in COMMANDS /\ cmd.tool = "inject" /\ pc = "loop" /\ target.room
     \/ cmd \in COMMANDS /\ cmd.tool = "extract" /\ pc \in {"extract", "dump", "dumprooms", "loop"}
     \/ cmd \in COMMANDS /\ cmd.tool = "alpha" /\ pc \in {"alpha", "flags", "loop"}

\* How far agsinject is.
InjectOK ==
  /\ pc \in InjectPCs => reg.objs = objs /\ reg.at \in Nat \ {0}
  /\ pc \in InjectPCs \ {"inject"} => reg.at \in 1..Len(cmd.args)
  /\ pc = "search" => reg.index \in 0..Len(target.cells)
  /\ pc \in {"copy", "rest"} => StartOK
  /\ pc = "rest" => Object.cells # <<>> /\ reg.tmp # <<>>

TypeInv == TargetOK /\ RegOK /\ CmdOK /\ InjectOK


LEMMA TypeInit ==
  ASSUME Init
  PROVE  TypeInv
<1>1. \E t \in TARGETS : target = [room |-> t.room, cells |-> t.cells, time |-> 1]
  BY DEF Init
<1>2. TargetOK
  BY <1>1, FilesAssumption DEF TargetOK, Files
<1>3. objs \in OBJECTS /\ reg = NewReg(<<>>, 0, objs)
  BY DEF Init
<1>4. ObjectsOK(objs)
  <2>1. \A n \in DOMAIN objs : objs[n].cells \in Objects
    BY <1>3 DEF Objects
  <2>2. \A c \in COMMANDS : c.tool = "inject" => \A k \in DOMAIN c.args : c.args[k].obj \in DOMAIN objs
    BY <1>3, CommandsAssumption
  <2> QED BY <2>1, <2>2 DEF ObjectsOK
<1>5. RegOK
  <2>1. <<>> \in Files
    BY EmptySeq DEF Files
  <2>2. DOMAIN reg = RegFields /\ reg.before = <<>> /\ reg.tmp = <<>> /\ reg.objs = objs
    BY <1>3 DEF NewReg, RegFields
  <2> QED BY <1>4, <2>1, <2>2 DEF RegOK
<1>6. CmdOK /\ InjectOK
  BY DEF Init, CmdOK, InjectOK, InjectPCs
<1> QED BY <1>2, <1>5, <1>6 DEF TypeInv

\* A tool that stops leaves everything as it is.
LEMMA TypeStops ==
  ASSUME TypeInv, pc' = "shell", UNCHANGED <<target, objs, cmd, reg>>
  PROVE  TypeInv'
<1>1. TargetOK' /\ RegOK'
  BY DEF TypeInv, TargetOK, RegOK, ObjectsOK
<1>2. CmdOK' /\ InjectOK'
  BY DEF TypeInv, CmdOK, InjectOK, InjectPCs
<1> QED BY <1>1, <1>2 DEF TypeInv

\* The object of an argument.
LEMMA ObjectIs ==
  ASSUME TypeInv, pc \in InjectPCs, reg.at \in 1..Len(cmd.args)
  PROVE  /\ cmd \in COMMANDS /\ cmd.tool = "inject" /\ reg.at \in DOMAIN cmd.args
         /\ Object.cells \in Objects /\ Object.cells \in Files /\ Object = ObjectOf(reg.at)
         /\ Arg.which \in Nat
<1>1. cmd \in COMMANDS /\ cmd.tool = "inject"
  BY DEF TypeInv, CmdOK, InjectPCs
<1>2. reg.at \in DOMAIN cmd.args
  BY <1>1, CommandsAssumption
<1>3. Arg.obj \in DOMAIN objs /\ Arg.which \in Nat
  BY <1>1, <1>2, CommandsAssumption DEF TypeInv, RegOK, ObjectsOK, Arg
<1>4. Object.cells \in Objects
  BY <1>3 DEF TypeInv, RegOK, ObjectsOK, Object
<1>5. Object = ObjectOf(reg.at)
  BY DEF TypeInv, InjectOK, Object, ObjectOf, Arg
<1> QED BY <1>1, <1>2, <1>3, <1>4, <1>5, ObjectsAre

LEMMA TypeCompile ==
  ASSUME TypeInv, Compile
  PROVE  TypeInv'
<1>1. PICK o \in DOMAIN objs, c \in CONTENTS : objs' = [objs EXCEPT ![o] = [cells |-> c, time |-> clock']]
  BY DEF Compile
<1>2. UNCHANGED <<target, cmd, pc, reg>> /\ pc = "shell"
  BY DEF Compile
<1>3. ObjectsOK(objs')
  <2>1. DOMAIN objs' = DOMAIN objs
    BY <1>1
  <2>2. c \in Objects
    BY DEF Objects
  <2>3. ASSUME NEW n \in DOMAIN objs PROVE objs'[n].cells \in Objects
    <3>1. objs'[n] = [cells |-> c, time |-> clock'] \/ objs'[n] = objs[n]
      BY <1>1
    <3>2. [cells |-> c, time |-> clock'].cells = c
      OBVIOUS
    <3> QED BY <2>2, <3>1, <3>2 DEF TypeInv, RegOK, ObjectsOK
  <2> QED BY <2>1, <2>3 DEF TypeInv, RegOK, ObjectsOK
<1>4. TargetOK' /\ RegOK'
  BY <1>2, <1>3 DEF TypeInv, TargetOK, RegOK
<1>5. CmdOK' /\ InjectOK'
  BY <1>2 DEF TypeInv, CmdOK, InjectOK, InjectPCs
<1> QED BY <1>4, <1>5 DEF TypeInv

LEMMA TypeRun ==
  ASSUME TypeInv, Run
  PROVE  TypeInv'
<1>1. cmd' \in COMMANDS /\ pc' = (IF cmd'.tool = "extract" /\ target.room THEN "dumprooms" ELSE cmd'.tool)
  BY DEF Run
<1>2. reg' = NewReg(target.cells, target.time, objs) /\ UNCHANGED <<target, objs>>
  BY DEF Run
<1>3. /\ DOMAIN reg' = RegFields /\ reg'.before = target.cells /\ reg'.tmp = <<>>
      /\ reg'.objs = objs /\ reg'.at = 1
  BY <1>2 DEF NewReg, RegFields
<1>4. RegOK'
  <2>1. <<>> \in Files
    BY EmptySeq DEF Files
  <2> QED BY <1>2, <1>3, <2>1 DEF TypeInv, RegOK, TargetOK
<1>5. cmd'.tool \in {"inject", "extract", "alpha"}
  BY <1>1, CommandsAssumption
<1>6. CmdOK'
  BY <1>1, <1>5 DEF CmdOK, InjectPCs
<1>7. InjectOK'
  <2>1. pc' \in {"inject", "extract", "dumprooms", "alpha"}
    BY <1>1, <1>5
  <2> QED BY <1>2, <1>3, <2>1 DEF InjectOK, InjectPCs
<1>8. TargetOK'
  BY <1>2 DEF TypeInv, TargetOK
<1> QED BY <1>4, <1>6, <1>7, <1>8 DEF TypeInv

\* A step of agsinject that changes only its locals.
LEMMA TypeLocals ==
  ASSUME TypeInv, pc \in InjectPCs, UNCHANGED <<target, objs, cmd>>,
         DOMAIN reg' = RegFields, reg'.before = reg.before, reg'.objs = reg.objs,
         reg'.tmp \in Files, pc' \in InjectPCs, InjectOK'
  PROVE  TypeInv'
<1>1. TargetOK' /\ RegOK'
  BY DEF TypeInv, TargetOK, RegOK
<1>2. CmdOK'
  BY DEF TypeInv, CmdOK, InjectPCs
<1> QED BY <1>1, <1>2 DEF TypeInv

\* Where agsinject goes on with an argument.
NextArgGoesOn ==
  /\ reg.at <= Len(cmd.args)
  /\ \/ /\ cmd.stamps /\ Object.cells # <<>> /\ ~ts_is_newer(reg.stamp, Object.time)
        /\ reg' = [reg EXCEPT !.at = After(@)] /\ UNCHANGED <<pc, status>>
     \/ /\ cmd.stamps => Object.cells # <<>> /\ ts_is_newer(reg.stamp, Object.time)
        /\ ~(target.room /\ Arg.which # 0)
        /\ pc' = "search" /\ reg' = [reg EXCEPT !.found = 0, !.index = 0] /\ UNCHANGED status

LEMMA NextArgIs ==
  ASSUME TypeInv, NextArg
  PROVE  /\ UNCHANGED <<target, objs, cmd>> /\ pc = "inject"
         /\ \/ pc' = "shell" /\ UNCHANGED reg /\ (status' = "ok" => reg.at > Len(cmd.args))
            \/ NextArgGoesOn
<1>1. UNCHANGED <<target, objs, cmd>> /\ pc = "inject"
  BY DEF NextArg, Same
<1>2. PICK a \in Nat, n \in Nat : a = reg.at /\ n = Len(cmd.args)
  <2>1. cmd \in COMMANDS /\ cmd.tool = "inject" /\ reg.at \in Nat
    BY <1>1 DEF TypeInv, CmdOK, InjectOK, InjectPCs
  <2> QED BY <2>1, CommandsAssumption
<1>3. CASE a > n
  <2>1. ~(a <= n)
    BY <1>3
  <2>2. Exit("ok") /\ UNCHANGED reg
    BY <1>1, <1>2, <1>3, <2>1 DEF NextArg
  <2> QED BY <1>1, <1>2, <1>3, <2>2 DEF Exit
<1>4. CASE ~(a > n)
  <2>1. a <= n
    BY <1>4
  <2> DEFINE missing == Object.cells = <<>>
             old     == ~ts_is_newer(reg.stamp, Object.time)
             wrong   == target.room /\ Arg.which # 0
             stamps  == cmd.stamps
             moves   == reg' = [reg EXCEPT !.at = After(@)] /\ UNCHANGED <<pc, status>>
             begins  == /\ pc' = "search" /\ reg' = [reg EXCEPT !.found = 0, !.index = 0]
                        /\ UNCHANGED status
             fails   == Exit("failed") /\ UNCHANGED reg
  <2>2. (CASE stamps /\ missing         -> fails
           [] stamps /\ ~missing /\ old -> moves
           [] OTHER -> IF wrong THEN fails ELSE begins)
    BY <1>2, <1>4, <2>1 DEF NextArg
  <2>3. fails => pc' = "shell" /\ UNCHANGED reg /\ status' # "ok"
    BY DEF Exit
  <2>4. NextArgGoesOn <=> \/ stamps /\ ~missing /\ old /\ moves
                          \/ (stamps => ~missing /\ ~old) /\ ~wrong /\ begins
    BY <1>2, <2>1 DEF NextArgGoesOn
  <2> HIDE DEF missing, old, wrong, stamps, moves, begins, fails
  <2>5. \/ fails
        \/ stamps /\ ~missing /\ old /\ moves
        \/ (stamps => ~missing /\ ~old) /\ ~wrong /\ begins
    BY <2>2
  <2> QED BY <1>1, <2>3, <2>4, <2>5
<1> QED BY <1>3, <1>4

LEMMA TypeNextArg ==
  ASSUME TypeInv, NextArg
  PROVE  TypeInv'
<1>1. /\ UNCHANGED <<target, objs, cmd>> /\ pc = "inject"
      /\ (pc' = "shell" /\ UNCHANGED reg) \/ NextArgGoesOn
  BY NextArgIs
<1>2. CASE pc' = "shell" /\ UNCHANGED reg
  BY <1>1, <1>2, TypeStops
<1>3. CASE NextArgGoesOn
  <2>1. /\ DOMAIN reg = RegFields /\ reg.tmp \in Files /\ reg.objs = objs /\ reg.at \in Nat \ {0}
        /\ target.cells \in Files
    BY <1>1 DEF TypeInv, RegOK, InjectOK, InjectPCs, TargetOK
  <2>2. /\ DOMAIN reg' = RegFields /\ reg'.before = reg.before /\ reg'.objs = reg.objs
        /\ reg'.tmp = reg.tmp
        /\ \/ pc' = pc /\ reg'.at = reg.at + 1
           \/ pc' = "search" /\ reg'.at = reg.at /\ reg'.index = 0
    BY <1>3, <2>1 DEF NextArgGoesOn, After, RegFields
  <2>3. pc' \in InjectPCs
    BY <1>1, <2>2 DEF InjectPCs
  <2>4. CASE pc' = pc /\ reg'.at = reg.at + 1
    <3>1. InjectOK'
      BY <1>1, <2>1, <2>2, <2>4 DEF InjectOK, InjectPCs
    <3> QED BY <1>1, <2>1, <2>2, <2>3, <3>1, TypeLocals DEF InjectPCs
  <2>5. CASE pc' = "search" /\ reg'.at = reg.at /\ reg'.index = 0
    <3>1. reg.at <= Len(cmd.args) /\ Len(cmd.args) \in Nat /\ 0 \in 0..Len(target.cells)
      <4>1. cmd \in COMMANDS /\ cmd.tool = "inject"
        BY <1>1 DEF TypeInv, CmdOK, InjectPCs
      <4> QED BY <1>3, <2>1, <4>1, CommandsAssumption, Cells DEF NextArgGoesOn
    <3>2. reg.at \in 1..Len(cmd.args)
      BY <2>1, <3>1
    <3>3. InjectOK'
      BY <1>1, <2>1, <2>2, <2>5, <3>1, <3>2 DEF InjectOK, InjectPCs
    <3> QED BY <1>1, <2>1, <2>2, <2>3, <3>3, TypeLocals DEF InjectPCs
  <2> QED BY <2>2, <2>4, <2>5
<1> QED BY <1>1, <1>2, <1>3

LEMMA TypeSearchGame ==
  ASSUME TypeInv, SearchGame
  PROVE  TypeInv'
<1> DEFINE f == target.cells
           start == ARF_find_code_start(f, reg.index)
<1>1. UNCHANGED <<target, objs, cmd>> /\ pc = "search" /\ ~target.room
  BY DEF SearchGame, Same
<1>2. /\ DOMAIN reg = RegFields /\ reg.tmp \in Files /\ reg.objs = objs /\ reg.at \in Nat \ {0}
      /\ f \in Files /\ reg.at \in 1..Len(cmd.args) /\ reg.index \in Nat /\ reg.index <= Len(f)
  BY <1>1, Cells DEF TypeInv, RegOK, InjectOK, InjectPCs, TargetOK
<1>3. CASE start = NotFound
  <2>1. pc' = "shell" /\ UNCHANGED reg
    BY <1>3 DEF SearchGame, Exit
  <2> QED BY <1>1, <2>1, TypeStops
<1>4. CASE start # NotFound
  <2>1. start \in Signatures(f)
    BY <1>2, <1>4, SearchFinds
  <2>2. start + 4 \in 0..Len(f)
    <3>1. start \in 0..Len(f) - 4 /\ Len(f) \in Nat
      BY <1>2, <2>1, Cells DEF Signatures
    <3> QED BY <3>1
  <2>3. \/ pc' = "copy" /\ reg' = [reg EXCEPT !.start = start]
        \/ pc' = pc /\ reg' = [reg EXCEPT !.found = @ + 1, !.index = Resume(start)]
    BY <1>4 DEF SearchGame
  <2>4. /\ DOMAIN reg' = RegFields /\ reg'.before = reg.before /\ reg'.objs = reg.objs
        /\ reg'.tmp = reg.tmp /\ reg'.at = reg.at
        /\ \/ pc' = "copy" /\ reg'.start = start
           \/ pc' = pc /\ reg'.index = start + 4
    <3> HIDE DEF start
    <3> QED BY <1>2, <2>3 DEF RegFields, Resume
  <2>5. pc' \in InjectPCs
    BY <1>1, <2>4 DEF InjectPCs
  <2>6. InjectOK'
    <3>1. pc' = "copy" => StartOK'
      BY <1>1, <2>1, <2>4 DEF StartOK
    <3> HIDE DEF start
    <3> QED BY <1>1, <1>2, <2>2, <2>4, <3>1 DEF InjectOK, InjectPCs
  <2> QED BY <1>1, <1>2, <2>4, <2>5, <2>6, TypeLocals DEF InjectPCs
<1> QED BY <1>3, <1>4

LEMMA TypeSearchRoom ==
  ASSUME TypeInv, SearchRoom
  PROVE  TypeInv'
<1> DEFINE room == RoomFile_read(target.cells)
           start == BlockOf(room, BLOCKTYPE_COMPSCRIPT3).start
<1>1. UNCHANGED <<target, objs, cmd>> /\ pc = "search" /\ target.room
  BY DEF SearchRoom, Same
<1>2. /\ DOMAIN reg = RegFields /\ reg.tmp \in Files /\ reg.objs = objs /\ reg.at \in Nat \ {0}
      /\ reg.at \in 1..Len(cmd.args)
  BY <1>1 DEF TypeInv, RegOK, InjectOK, InjectPCs
<1>3. CASE room.outcome # "ok"
  <2>1. pc' \in {"shell", "loop"} /\ UNCHANGED reg
    BY <1>3 DEF SearchRoom, Unreadable, Exit
  <2>2. CASE pc' = "shell"
    BY <1>1, <2>1, <2>2, TypeStops
  <2>3. CASE pc' = "loop"
    <3>1. TargetOK' /\ RegOK' /\ InjectOK'
      BY <1>1, <2>1, <2>3 DEF TypeInv, TargetOK, RegOK, InjectOK, InjectPCs
    <3>2. CmdOK'
      BY <1>1, <2>3 DEF TypeInv, CmdOK
    <3> QED BY <3>1, <3>2 DEF TypeInv
  <2> QED BY <2>1, <2>2, <2>3
<1>4. CASE room.outcome = "ok"
  <2>1. pc' = "copy" /\ reg' = [reg EXCEPT !.start = start]
    BY <1>4 DEF SearchRoom
  <2>2. /\ DOMAIN reg' = RegFields /\ reg'.before = reg.before /\ reg'.objs = reg.objs
        /\ reg'.tmp = reg.tmp /\ reg'.at = reg.at /\ reg'.start = start
    <3> HIDE DEF start
    <3> QED BY <1>2, <2>1 DEF RegFields
  <2>3. StartOK'
    BY <1>1, <1>4, <2>2 DEF StartOK
  <2>4. InjectOK' /\ pc' \in InjectPCs
    <3> HIDE DEF start
    <3> QED BY <1>1, <1>2, <2>1, <2>2, <2>3 DEF InjectOK, InjectPCs
  <2> QED BY <1>1, <1>2, <2>2, <2>4, TypeLocals DEF InjectPCs
<1> QED BY <1>3, <1>4

\* A file is empty when both of its parts are.
LEMMA JoinedNot ==
  ASSUME NEW f \in Files, NEW g \in Files, f # <<>> \/ g # <<>>
  PROVE  /\ f \o g \in Files /\ f \o g # <<>>
         /\ Len(f \o g) - 1 \in Nat /\ Len(f \o g) \in Nat
<1>1. PICK l \in Nat, m \in Nat : l = Len(f) /\ m = Len(g)
  BY Cells
<1>2. l # 0 \/ m # 0
  BY <1>1, EmptySeq DEF Files
<1>3. f \o g \in Files /\ Len(f \o g) = l + m
  BY <1>1, Joined
<1>4. l + m # 0 /\ l + m - 1 \in Nat /\ l + m \in Nat
  BY <1>2
<1>5. f \o g # <<>>
  BY <1>3, <1>4, EmptySeq
<1> QED BY <1>3, <1>4, <1>5

LEMMA TypeCopyHeader ==
  ASSUME TypeInv, CopyHeader
  PROVE  TypeInv'
<1> DEFINE f == target.cells
           o == Object.cells
           w == LengthCells(RoomVersion(f))
<1>1. UNCHANGED <<target, objs, cmd>> /\ pc = "copy"
  BY DEF CopyHeader, Same
<1>2. /\ DOMAIN reg = RegFields /\ reg.tmp \in Files /\ reg.objs = objs /\ reg.at \in Nat \ {0}
      /\ f \in Files /\ reg.at \in 1..Len(cmd.args) /\ StartOK
  BY <1>1 DEF TypeInv, RegOK, InjectOK, InjectPCs, TargetOK
<1>3. CASE pc' = "shell" /\ UNCHANGED reg
  BY <1>1, <1>3, TypeStops
<1>4. CASE /\ ~(o = <<>> \/ (target.room /\ reg.start = 0)) /\ pc' = "rest"
           /\ reg' = [reg EXCEPT !.tmp = Header(o) \o o]
  <2>1. o \in Files /\ << <<"len", Len(o)>> >> \in Files /\ << <<"high">> >> \in Files /\ o # <<>>
    <3>1. pc \in InjectPCs
      BY <1>1 DEF InjectPCs
    <3> QED BY <1>2, <1>4, <3>1, ObjectIs, ObjectsAre
  <2>2. Header(o) \in Files
    <3>1. CASE ~target.room
      <4>1. reg.start \in Nat /\ reg.start <= Len(f) /\ Len(f) \in Nat
        BY <1>2, <3>1, SignaturesFinite, Cells DEF StartOK, Signatures
      <4>2. SubSeq(f, 1, reg.start) \in Files
        <5>1. 1 \in Nat \ {0} /\ 1 <= reg.start + 1
          BY <4>1
        <5> QED BY <1>2, <4>1, <5>1, Part
      <4> QED BY <3>1, <4>2 DEF Header
    <3>2. CASE target.room
      <4> DEFINE b == BlockOf(RoomFile_read(f), BLOCKTYPE_COMPSCRIPT3)
      <4>1. b.start # 0 /\ RoomFile_read(f).outcome = "ok" /\ reg.start = b.start
        BY <1>2, <1>4, <3>2 DEF StartOK
      <4>2. b \in AnyBlockSet /\ b.start - w \in Nat /\ b.start <= Len(f)
        BY <1>2, <4>1, RoomStart
      <4>3. PICK m \in Nat : m = reg.start - w /\ m <= Len(f)
        <5>1. PICK i \in Nat, v \in {1, 2} : i = b.start /\ v = w
          BY <4>2, LengthCellsAre DEF AnyBlockSet
        <5>2. i - v <= Len(f)
          BY <4>2, <5>1, <1>2, Cells
        <5> QED BY <4>1, <4>2, <5>1, <5>2
      <4>4. SubSeq(f, 1, m) \in Files
        <5>1. 1 \in Nat \ {0} /\ 1 <= m + 1
          BY <4>3
        <5> QED BY <1>2, <4>3, <5>1, Part
      <4>5. RoomLength(o) \in Files
        <5>1. w - 1 \in Nat /\ <<"high">> \in CELLS
          BY LengthCellsAre, FilesAssumption
        <5>2. [k \in 1..w - 1 |-> <<"high">>] \in Seq(CELLS)
          BY <5>1, SeqDef
        <5>3. [k \in 1..w - 1 |-> <<"high">>] \in Files
          BY <5>2 DEF Files
        <5>4. << <<"len", Len(o)>> >> \o [k \in 1..w - 1 |-> <<"high">>] \in Files
          BY <2>1, <5>3, Joined
        <5> QED BY <5>4 DEF RoomLength
      <4>6. SubSeq(f, 1, m) \o RoomLength(o) \in Files
        BY <4>4, <4>5, Joined
      <4> QED BY <3>2, <4>3, <4>6 DEF Header
    <3> QED BY <3>1, <3>2
  <2>3. Header(o) \o o \in Files /\ Header(o) \o o # <<>>
    BY <2>1, <2>2, JoinedNot
  <2>4. /\ DOMAIN reg' = RegFields /\ reg'.before = reg.before /\ reg'.objs = reg.objs
        /\ reg'.tmp = Header(o) \o o /\ reg'.at = reg.at /\ reg'.start = reg.start
    <3> HIDE DEF o
    <3> QED BY <1>2, <1>4 DEF RegFields
  <2>5. StartOK' /\ Object' = Object
    BY <1>1, <1>2, <2>4 DEF StartOK, Object, Arg
  <2>6. InjectOK'
    BY <1>1, <1>2, <1>4, <2>1, <2>3, <2>4, <2>5 DEF InjectOK, InjectPCs
  <2> QED BY <1>1, <1>2, <1>4, <2>3, <2>4, <2>6, TypeLocals DEF InjectPCs
<1> QED BY <1>3, <1>4 DEF CopyHeader, Exit

\* What is measured at the start of the script.
LEMMA MeasuredIs ==
  ASSUME TypeInv, pc \in {"copy", "rest"},
         NEW n, n = ASI_read_script(target.cells, reg.start), n # 0
  PROVE  /\ reg.start \in Nat /\ n \in Nat /\ reg.start + n <= Len(target.cells)
         /\ reg.start \in Signatures(target.cells)
<1>1. target.cells \in Files /\ StartOK
  BY DEF TypeInv, TargetOK, InjectOK
<1>2. reg.start \in Int
  <2>1. CASE ~target.room
    BY <1>1, <2>1, SignaturesFinite DEF StartOK
  <2>2. CASE target.room
    <3> DEFINE b == BlockOf(RoomFile_read(target.cells), BLOCKTYPE_COMPSCRIPT3)
    <3>1. RoomFile_read(target.cells).outcome = "ok" /\ reg.start = b.start
      BY <1>1, <2>2 DEF StartOK
    <3>2. CASE b.start # 0
      BY <1>1, <3>1, <3>2, RoomStart DEF AnyBlockSet
    <3> QED BY <3>1, <3>2
  <2> QED BY <2>1, <2>2
<1> QED BY <1>1, <1>2, ScriptIs, SignaturesFinite

LEMMA TypeCopyRest ==
  ASSUME TypeInv, CopyRest
  PROVE  TypeInv'
<1> DEFINE f    == target.cells
           n    == ASI_read_script(f, reg.start)
           full == reg.tmp \o Rest(f, reg.start, n)
<1>1. UNCHANGED <<target, objs, cmd>> /\ pc = "rest"
  BY DEF CopyRest, Same
<1>2. /\ DOMAIN reg = RegFields /\ reg.tmp \in Files /\ reg.objs = objs /\ reg.at \in Nat \ {0}
      /\ f \in Files /\ reg.at \in 1..Len(cmd.args) /\ reg.tmp # <<>>
  BY <1>1 DEF TypeInv, RegOK, InjectOK, InjectPCs, TargetOK
<1>3. CASE pc' = "shell" /\ UNCHANGED reg
  BY <1>1, <1>3, TypeStops
<1>4. CASE /\ n # 0 /\ pc' = "rename"
           /\ \E short \in BOOLEAN :
                 reg' = [reg EXCEPT !.tmp = IF short THEN Front(full) ELSE full,
                                    !.tmptime = clock, !.short = @ \/ short]
  <2>1. full \in Files /\ Front(full) \in Files
    <3>1. reg.start \in Nat /\ n \in Nat /\ reg.start + n <= Len(f) /\ Len(f) \in Nat
      BY <1>1, <1>2, <1>4, MeasuredIs, Cells
    <3>2. Rest(f, reg.start, n) \in Files
      <4>1. reg.start + n + 1 \in Nat \ {0} /\ Len(f) <= Len(f) /\ reg.start + n + 1 <= Len(f) + 1
        BY <3>1
      <4>2. SubSeq(f, reg.start + n + 1, Len(f)) \in Files
        BY <1>2, <3>1, <4>1, Part
      <4> QED BY <4>2 DEF Rest
    <3>3. full \in Files /\ Len(full) - 1 \in Nat /\ Len(full) \in Nat
      BY <1>2, <3>2, JoinedNot
    <3>5. SubSeq(full, 1, Len(full) - 1) \in Files
      <4>1. 1 \in Nat \ {0} /\ Len(full) - 1 <= Len(full) /\ 1 <= (Len(full) - 1) + 1
        <5> HIDE DEF full
        <5> QED BY <3>3
      <4> QED BY <3>3, <4>1, Part
    <3> QED BY <3>3, <3>5 DEF Front
  <2>2. /\ DOMAIN reg' = RegFields /\ reg'.before = reg.before /\ reg'.objs = reg.objs
        /\ reg'.tmp \in {full, Front(full)} /\ reg'.at = reg.at
    <3> HIDE DEF full
    <3> QED BY <1>2, <1>4 DEF RegFields
  <2>3. InjectOK'
    BY <1>1, <1>2, <1>4, <2>2 DEF InjectOK, InjectPCs
  <2>4. reg'.tmp \in Files
    BY <2>1, <2>2
  <2> HIDE DEF full
  <2> QED BY <1>1, <1>4, <2>2, <2>3, <2>4, TypeLocals DEF InjectPCs
<1> QED BY <1>3, <1>4 DEF CopyRest, Exit

LEMMA TypeRename ==
  ASSUME TypeInv, Rename
  PROVE  TypeInv'
<1>1. UNCHANGED <<objs, cmd>> /\ pc = "rename"
  BY DEF Rename, Same
<1>2. CASE pc' = "shell" /\ UNCHANGED <<target, reg>>
  BY <1>1, <1>2, TypeStops
<1>3. CASE /\ target' = [target EXCEPT !.cells = reg.tmp, !.time = reg.tmptime]
           /\ reg' = [reg EXCEPT !.at = After(@)] /\ pc' = "inject"
  <2>1. /\ DOMAIN reg = RegFields /\ reg.tmp \in Files /\ reg.objs = objs /\ reg.at \in Nat \ {0}
    BY <1>1 DEF TypeInv, RegOK, InjectOK, InjectPCs
  <2>2. /\ DOMAIN reg' = RegFields /\ reg'.before = reg.before /\ reg'.objs = reg.objs
        /\ reg'.tmp = reg.tmp /\ reg'.at = reg.at + 1
    BY <1>3, <2>1 DEF RegFields, After
  <2>3. TargetOK'
    BY <1>3, <2>1 DEF TypeInv, TargetOK
  <2>4. RegOK' /\ InjectOK' /\ CmdOK'
    BY <1>1, <1>3, <2>1, <2>2 DEF TypeInv, RegOK, InjectOK, InjectPCs, CmdOK
  <2> QED BY <2>3, <2>4 DEF TypeInv
<1> QED BY <1>2, <1>3 DEF Rename, Exit

\* A step of another tool.
LEMMA TypeOther ==
  ASSUME TypeInv, UNCHANGED <<objs, cmd>>, TargetOK', DOMAIN reg' = RegFields,
         reg'.before = reg.before, reg'.objs = reg.objs, reg'.tmp = reg.tmp,
         \/ pc' = "shell"
         \/ pc \in {"extract", "dump", "dumprooms"} /\ pc' \in {"extract", "dump", "loop"}
         \/ pc \in {"alpha", "flags"} /\ pc' \in {"flags", "loop"}
  PROVE  TypeInv'
<1>1. RegOK'
  BY DEF TypeInv, RegOK
<1>2. InjectOK'
  BY DEF InjectOK, InjectPCs
<1>3. CmdOK'
  BY DEF TypeInv, CmdOK, InjectPCs
<1> QED BY <1>1, <1>2, <1>3 DEF TypeInv

LEMMA OpenIs ==
  ASSUME NEW last, NEW place, Open(last, place)
  PROVE  \E junk \in JUNK :
            /\ reg' = [reg EXCEPT !.adf = ADF_open(target.cells, junk)]
            /\ pc' \in {"loop", "shell", place}
            /\ pc' = place /\ place \notin {"loop", "shell"} =>
                  /\ ADF_open(target.cells, junk).aoe \notin {"loops", "aborted"}
                  /\ ~Fatal(ADF_open(target.cells, junk).aoe, last)
            /\ pc' = "shell" /\ place # "shell" =>
                  /\ status' \in {"trapped", "failed"}
                  /\ \/ ADF_open(target.cells, junk).aoe = "aborted"
                     \/ Fatal(ADF_open(target.cells, junk).aoe, last)
<1>1. PICK junk \in JUNK :
        LET adf == ADF_open(target.cells, junk)
        IN  /\ reg' = [reg EXCEPT !.adf = adf]
            /\ CASE adf.aoe = "loops"   -> pc' = "loop" /\ UNCHANGED status
                 [] adf.aoe = "aborted" -> Exit("trapped")
                 [] OTHER -> IF Fatal(adf.aoe, last) THEN Exit("failed")
                             ELSE pc' = place /\ UNCHANGED status
  BY Zenon DEF Open
<1> DEFINE adf == ADF_open(target.cells, junk)
           fatal == Fatal(adf.aoe, last)
<1>2. \/ adf.aoe = "loops" /\ pc' = "loop"
      \/ adf.aoe = "aborted" /\ pc' = "shell" /\ status' = "trapped"
      \/ adf.aoe \notin {"loops", "aborted"} /\ fatal /\ pc' = "shell" /\ status' = "failed"
      \/ adf.aoe \notin {"loops", "aborted"} /\ ~fatal /\ pc' = place
  <2> HIDE DEF adf, fatal
  <2> QED BY <1>1 DEF adf, fatal, Exit
<1> QED BY <1>1, <1>2

LEMMA TypeOpen ==
  ASSUME TypeInv, OpenData \/ OpenFlags
  PROVE  TypeInv'
<1>1. /\ UNCHANGED <<target, objs, cmd>>
      /\ \/ pc = "extract" /\ Open("script", "dump")
         \/ pc = "alpha" /\ Open("gamebase", "flags")
  BY DEF OpenData, OpenFlags, Same
<1>2. /\ \E adf : reg' = [reg EXCEPT !.adf = adf]
      /\ \/ pc = "extract" /\ pc' \in {"loop", "shell", "dump"}
         \/ pc = "alpha" /\ pc' \in {"loop", "shell", "flags"}
  BY <1>1, OpenIs
<1>3. /\ DOMAIN reg' = RegFields /\ reg'.before = reg.before /\ reg'.objs = reg.objs
      /\ reg'.tmp = reg.tmp
  BY <1>2 DEF TypeInv, RegOK, RegFields
<1>4. TargetOK'
  BY <1>1 DEF TypeInv, TargetOK
<1> QED BY <1>1, <1>2, <1>3, <1>4, TypeOther

LEMMA TypeDump ==
  ASSUME TypeInv, dump_script \/ ExtractDone \/ dumprooms
  PROVE  TypeInv'
<1>1. UNCHANGED <<target, objs, cmd>> /\ pc \in {"dump", "dumprooms"}
  BY DEF dump_script, ExtractDone, dumprooms, Same
<1>2. /\ reg' = [reg EXCEPT !.next = @ + 1] \/ UNCHANGED reg
      /\ pc' \in {"shell", "loop"} \/ (pc = "dump" /\ UNCHANGED pc)
  <2>1. CASE dump_script
    BY <2>1 DEF dump_script, Exit
  <2>2. CASE ExtractDone
    BY <2>2 DEF ExtractDone, Exit
  <2>3. CASE dumprooms
    <3> DEFINE f    == target.cells
               room == RoomFile_read(f)
               off  == ARF_find_code_start(f, 0)
               len  == ASI_read_script(f, off)
               bad  == /\ room.outcome = "ok"
                       /\ off # BlockOf(room, BLOCKTYPE_COMPSCRIPT3).start \/ off = NotFound
               fits == SourceFits(f, room)
               outs == << SubSeq(f, off + 1, off + len) >>
                          \o IF SourceFits(f, room) THEN RoomFile_extract_source(f, room)
                                                    ELSE <<>>
    <3>1. (CASE room.outcome # "ok" -> Unreadable(room.outcome) /\ UNCHANGED out
             [] bad -> Exit("trapped") /\ UNCHANGED out
             [] OTHER -> IF len = 0
                         THEN (\E how \in {"ok", "trapped"} : Exit(how)) /\ UNCHANGED out
                         ELSE out' = outs /\ Exit(IF fits THEN "ok" ELSE "trapped"))
      BY <2>3, Zenon DEF dumprooms
    <3> HIDE DEF room, off, len, bad, fits, outs
    <3>2. room.outcome # "ok" \/ bad \/ (room.outcome = "ok" /\ ~bad)
      OBVIOUS
    <3>3. ~(room.outcome # "ok" /\ bad)
      BY DEF bad
    <3>4. pc' \in {"shell", "loop"}
      BY <3>1, <3>2, <3>3 DEF Unreadable, Exit
    <3>5. pc = "dumprooms" /\ UNCHANGED reg
      BY <2>3 DEF dumprooms
    <3> QED BY <3>4, <3>5
  <2> QED BY <2>1, <2>2, <2>3
<1>3. /\ DOMAIN reg' = RegFields /\ reg'.before = reg.before /\ reg'.objs = reg.objs
      /\ reg'.tmp = reg.tmp
  BY <1>2 DEF TypeInv, RegOK, RegFields
<1>4. TargetOK'
  BY <1>1 DEF TypeInv, TargetOK
<1> QED BY <1>1, <1>2, <1>3, <1>4, TypeOther

LEMMA TypeAlpha ==
  ASSUME TypeInv, WriteFlag \/ AlphaDone
  PROVE  TypeInv'
<1>1. UNCHANGED <<objs, cmd>> /\ pc = "flags" /\ pc' \in {"shell", "flags"}
  BY DEF WriteFlag, AlphaDone, Same, Exit
<1>2. reg' = [reg EXCEPT !.next = @ + 1] \/ UNCHANGED reg
  BY DEF WriteFlag, AlphaDone
<1>3. /\ DOMAIN reg' = RegFields /\ reg'.before = reg.before /\ reg'.objs = reg.objs
      /\ reg'.tmp = reg.tmp
  BY <1>2 DEF TypeInv, RegOK, RegFields
<1>4. TargetOK'
  <2> DEFINE at == reg.adf.spriteflagsstart + reg.next + 1
             g  == [target.cells EXCEPT ![at][2] = WithoutAlpha(@)]
  <2>1. \/ UNCHANGED target
        \/ target' = [target EXCEPT !.time = clock, !.cells[at][2] = WithoutAlpha(@)]
    BY DEF WriteFlag, AlphaDone
  <2>2. TargetOK /\ g \in Files
    BY FlagCleared DEF TypeInv, TargetOK
  <2>3. CASE UNCHANGED target
    BY <2>2, <2>3 DEF TargetOK
  <2>4. CASE target' = [target EXCEPT !.time = clock, !.cells[at][2] = WithoutAlpha(@)]
    <3>1. target' = [[target EXCEPT !.time = clock] EXCEPT !.cells = g]
      BY <2>2, <2>4 DEF TargetOK
    <3> HIDE DEF g
    <3> QED BY <2>2, <3>1 DEF TargetOK
  <2> QED BY <2>1, <2>3, <2>4
<1> QED BY <1>1, <1>3, <1>4, TypeOther

LEMMA TypeNext ==
  ASSUME TypeInv, [Next]_vars
  PROVE  TypeInv'
<1>1. CASE Kill
  <2>1. pc' = "shell" /\ UNCHANGED <<target, objs, cmd, reg>>
    BY <1>1 DEF Kill, Exit
  <2> QED BY <2>1, TypeStops
<1>2. CASE UNCHANGED vars
  <2>1. UNCHANGED <<target, objs, cmd, reg, pc>>
    BY <1>2 DEF vars
  <2>2. TargetOK' /\ RegOK'
    BY <2>1 DEF TypeInv, TargetOK, RegOK
  <2>3. CmdOK' /\ InjectOK'
    BY <2>1 DEF TypeInv, CmdOK, InjectOK, InjectPCs, StartOK, Object, Arg
  <2> QED BY <2>2, <2>3 DEF TypeInv
<1> QED BY <1>1, <1>2, TypeCompile, TypeRun, TypeNextArg, TypeSearchGame, TypeSearchRoom,
           TypeCopyHeader, TypeCopyRest, TypeRename, TypeOpen, TypeDump, TypeAlpha
        DEF Next, Tool

\* The files of the tools stay files, agsinject is where its arguments say, and
\* what it replaces is a script of the file, of which it is sure before it
\* writes (agsinject.c, agscriptxtract.c, agsalphahack.c).
THEOREM ToolsTyped == Spec => []TypeInv
<1> QED BY TypeInit, TypeNext, PTL DEF Spec

-----------------------------------------------------------------------------
(* agsinject on a game                                                     *)

\* The game after one more argument.
OneMore(k, a, args, objects, wanted) ==
  IF k \in wanted THEN Replaced(a, args[k].which, objects[args[k].obj].cells) ELSE a

InjectedOf(g, n, f, args, objects, wanted) ==
  g = [k \in 0..n |-> IF k = 0 THEN f ELSE OneMore(k, g[k - 1], args, objects, wanted)]

LEMMA InjectedExists ==
  ASSUME NEW f, NEW args, NEW objects, NEW wanted, NEW N \in Nat
  PROVE  \E g : InjectedOf(g, N, f, args, objects, wanted)
<1> DEFINE M(k, a) == OneMore(k, a, args, objects, wanted)
           Has(m) == \E g : g = [k \in 0..m |-> IF k = 0 THEN f ELSE M(k, g[k - 1])]
           S == {m \in Nat : Has(m)}
<1> HIDE DEF M
<1>1. Has(0)
  <2> DEFINE g == [k \in 0..0 |-> f]
  <2>1. \A k \in 0..0 : k = 0
    OBVIOUS
  <2>2. g = [k \in 0..0 |-> IF k = 0 THEN f ELSE M(k, g[k - 1])]
    BY <2>1, Zenon
  <2> QED BY <2>2
<1>2. ASSUME NEW m \in Nat, Has(m) PROVE Has(m + 1)
  <2>1. PICK g : g = [k \in 0..m |-> IF k = 0 THEN f ELSE M(k, g[k - 1])]
    BY <1>2
  <2> DEFINE h == [k \in 0..m + 1 |-> IF k = m + 1 THEN M(m + 1, g[m]) ELSE g[k]]
  <2>2. \A k \in 0..m + 1 : h[k] = IF k = m + 1 THEN M(m + 1, g[m]) ELSE g[k]
    OBVIOUS
  <2>3. h = [k \in 0..m + 1 |-> h[k]]
    OBVIOUS
  <2> HIDE DEF h
  <2>4. ASSUME NEW k \in 0..m + 1 PROVE h[k] = IF k = 0 THEN f ELSE M(k, h[k - 1])
    <3>1. CASE k = m + 1
      <4>1. k # 0 /\ k - 1 = m /\ k - 1 \in 0..m + 1 /\ k - 1 # m + 1
        BY <3>1
      <4>2. h[k] = M(m + 1, g[m]) /\ h[k - 1] = g[m]
        BY <2>2, <3>1, <4>1
      <4> QED BY <3>1, <4>1, <4>2
    <3>2. CASE k # m + 1 /\ k # 0
      <4>1. k \in 0..m /\ k - 1 \in 0..m + 1 /\ k - 1 # m + 1
        BY <3>2
      <4>2. h[k] = g[k] /\ h[k - 1] = g[k - 1]
        BY <2>2, <3>2, <4>1
      <4>3. g[k] = M(k, g[k - 1])
        BY <2>1, <3>2, <4>1, Zenon
      <4> QED BY <3>2, <4>2, <4>3
    <3>3. CASE k = 0
      <4>1. 0 # m + 1 /\ 0 \in 0..m
        OBVIOUS
      <4>2. h[k] = g[0]
        BY <2>2, <3>3, <4>1
      <4>3. g[0] = f
        BY <2>1, <4>1, Zenon
      <4> QED BY <3>3, <4>2, <4>3
    <3> QED BY <3>1, <3>2, <3>3
  <2>5. h = [k \in 0..m + 1 |-> IF k = 0 THEN f ELSE M(k, h[k - 1])]
    BY <2>3, <2>4, Zenon
  <2> QED BY <2>5
<1> HIDE DEF Has
<1>3. S = Nat
  <2>1. 0 \in S /\ \A m \in S : m + 1 \in S
    BY <1>1, <1>2
  <2>2. S \in SUBSET Nat
    OBVIOUS
  <2> HIDE DEF S
  <2> QED BY <2>1, <2>2, Induction
<1>4. Has(N)
  BY <1>3
<1> QED BY <1>4 DEF Has, M, InjectedOf

\* What has been applied after the first k arguments.
LEMMA InjectedIs ==
  ASSUME NEW f, NEW args, NEW objects, NEW wanted, Len(args) \in Nat
  PROVE  /\ Injected(f, args, objects, wanted)[0] = f
         /\ \A k \in 1..Len(args) :
               Injected(f, args, objects, wanted)[k]
                 = OneMore(k, Injected(f, args, objects, wanted)[k - 1], args, objects, wanted)
<1> DEFINE N == Len(args)
           g == CHOOSE g : InjectedOf(g, N, f, args, objects, wanted)
<1>1. InjectedOf(g, N, f, args, objects, wanted)
  BY InjectedExists
<1>2. g = Injected(f, args, objects, wanted)
  BY Zenon DEF Injected, InjectedOf, OneMore
<1> HIDE DEF g
<1>3. g = [k \in 0..N |-> IF k = 0 THEN f ELSE OneMore(k, g[k - 1], args, objects, wanted)]
  BY <1>1 DEF InjectedOf
<1>4. \A k \in 0..N : g[k] = IF k = 0 THEN f ELSE OneMore(k, g[k - 1], args, objects, wanted)
  BY <1>3, Zenon
<1>5. 0 \in 0..N /\ \A k \in 1..N : k \in 0..N /\ k # 0
  OBVIOUS
<1>6. g[0] = f /\ \A k \in 1..N : g[k] = OneMore(k, g[k - 1], args, objects, wanted)
  BY <1>4, <1>5
<1> QED BY <1>2, <1>6

\* What PrefixApplied assumes.
PrefixAssumed ==
  /\ Injecting /\ ~target.room /\ Plain(reg.before)
  /\ \A k \in Wanted : ObjectOf(k).cells # <<>> => WholeObject(ObjectOf(k).cells)

\* The game is what it should be after the first k arguments.
Reached(k) ==
  /\ \A j \in Wanted \cap 1..k :
        cmd.args[j].which < Cardinality(Signatures(reg.before)) /\ ObjectOf(j).cells # <<>>
  /\ target.cells = Applied[k]
  /\ Plain(target.cells)
  /\ Cardinality(Signatures(target.cells)) = Cardinality(Signatures(reg.before))

\* The search has found the script asked for, and it has been replaced in the copy.
Found == reg.start \in Signatures(target.cells) /\ Arg.which = Cardinality(Before(target.cells, reg.start))
Copied ==
  /\ reg.tmp = Replaced(target.cells, Arg.which, Object.cells)
  /\ Plain(reg.tmp) /\ Cardinality(Signatures(reg.tmp)) = Cardinality(Signatures(target.cells))
  /\ Arg.which < Cardinality(Signatures(target.cells))

PrefixInv ==
  PrefixAssumed =>
    /\ pc \in InjectPCs => reg.at - 1 \in 0..Len(cmd.args) /\ Reached(reg.at - 1)
    /\ pc = "shell" => \E k \in 0..Len(cmd.args) : Reached(k) /\ (status = "ok" => k = Len(cmd.args))
    /\ pc \in InjectPCs \ {"inject"} => reg.at \in Wanted
    /\ pc = "search" => reg.found = Cardinality(Before(target.cells, reg.index))
    /\ pc \in {"copy", "rest"} => Found
    /\ pc \in {"rest", "rename"} => Object.cells # <<>>
    /\ pc = "rest" => reg.tmp = SubSeq(target.cells, 1, reg.start) \o Object.cells
    /\ pc = "rename" => Copied

\* Nothing of what the properties compare with changes while a tool runs.
LEMMA SameCommand ==
  ASSUME cmd' = cmd, reg'.before = reg.before, reg'.objs = reg.objs, reg'.stamp = reg.stamp
  PROVE  Wanted' = Wanted /\ Applied' = Applied /\ \A k : ObjectOf(k)' = ObjectOf(k)
<1>1. \A k : ObjectOf(k)' = ObjectOf(k)
  BY DEF ObjectOf
<1>2. Wanted' = Wanted
  BY DEF Wanted, ObjectOf
<1>3. Applied' = Applied
  BY <1>2, Zenon DEF Applied
<1> QED BY <1>1, <1>2, <1>3

LEMMA ReachedKept ==
  ASSUME cmd' = cmd, reg'.before = reg.before, reg'.objs = reg.objs, reg'.stamp = reg.stamp,
         target'.cells = target.cells
  PROVE  \A k : Reached(k) => Reached(k)'
<1> TAKE k
<1>1. Wanted' = Wanted /\ Applied' = Applied /\ \A j : ObjectOf(j)' = ObjectOf(j)
  BY SameCommand
<1> QED BY <1>1 DEF Reached

LEMMA AssumedBefore ==
  ASSUME PrefixAssumed', cmd' = cmd, reg'.before = reg.before, reg'.objs = reg.objs,
         reg'.stamp = reg.stamp, target'.room = target.room, reg.short => reg'.short
  PROVE  PrefixAssumed
<1>1. Wanted' = Wanted /\ \A j : ObjectOf(j)' = ObjectOf(j)
  BY SameCommand
<1> QED BY <1>1 DEF PrefixAssumed, Injecting

LEMMA PrefixStops ==
  ASSUME TypeInv, PrefixInv, pc \in InjectPCs, pc' = "shell", UNCHANGED <<target, cmd, reg>>,
         status' = "ok" => reg.at - 1 = Len(cmd.args)
  PROVE  PrefixInv'
<1> SUFFICES ASSUME PrefixAssumed'
             PROVE  \E k \in 0..Len(cmd'.args) : Reached(k)' /\ (status' = "ok" => k = Len(cmd'.args))
  <2>1. pc' \notin InjectPCs /\ pc' \notin {"search", "copy", "rest", "rename"}
    BY DEF InjectPCs
  <2> QED BY <2>1 DEF PrefixInv
<1>1. PrefixAssumed
  BY AssumedBefore
<1>2. PICK k : k = reg.at - 1 /\ k \in 0..Len(cmd.args) /\ Reached(k)
  BY <1>1 DEF PrefixInv
<1>3. Reached(k)'
  BY <1>2, ReachedKept
<1> QED BY <1>2, <1>3

\* A tool that is not agsinject says nothing of agsinject.
\* A room stays a room, a game a game.
LEMMA RoomStays ==
  ASSUME TypeInv, OpenData \/ OpenFlags \/ dump_script \/ ExtractDone \/ dumprooms
                  \/ WriteFlag \/ AlphaDone
  PROVE  target'.room = target.room
<1>1. CASE WriteFlag
  <2> DEFINE at == reg.adf.spriteflagsstart + reg.next + 1
  <2>1. \/ UNCHANGED target
        \/ target' = [target EXCEPT !.time = clock, !.cells[at][2] = WithoutAlpha(@)]
    BY <1>1 DEF WriteFlag
  <2> HIDE DEF at
  <2> QED BY <2>1 DEF TypeInv, TargetOK
<1>2. CASE ~WriteFlag
  BY <1>2 DEF OpenData, OpenFlags, dump_script, ExtractDone, dumprooms, AlphaDone, Same
<1> QED BY <1>1, <1>2

LEMMA PrefixOther ==
  ASSUME TypeInv, pc \notin InjectPCs, pc # "shell", cmd' = cmd, target'.room = target.room
  PROVE  PrefixInv'
  BY DEF TypeInv, CmdOK, PrefixInv, PrefixAssumed, Injecting

LEMMA PrefixShell ==
  ASSUME TypeInv, PrefixInv, pc = "shell", UNCHANGED <<target, cmd, pc, reg, status>>
  PROVE  PrefixInv'
<1> SUFFICES ASSUME PrefixAssumed'
             PROVE  \E k \in 0..Len(cmd'.args) : Reached(k)' /\ (status' = "ok" => k = Len(cmd'.args))
  <2>1. pc' \notin InjectPCs /\ pc' \notin {"search", "copy", "rest", "rename"}
    BY DEF InjectPCs
  <2> QED BY <2>1 DEF PrefixInv
<1>1. PrefixAssumed
  BY AssumedBefore
<1>2. PICK k \in 0..Len(cmd.args) : Reached(k) /\ (status = "ok" => k = Len(cmd.args))
  BY <1>1 DEF PrefixInv
<1>3. Reached(k)'
  BY <1>2, ReachedKept
<1> QED BY <1>2, <1>3

LEMMA PrefixRun ==
  ASSUME TypeInv, Run
  PROVE  PrefixInv'
<1> SUFFICES ASSUME PrefixAssumed'
             PROVE  PrefixInv'
  BY DEF PrefixInv
<1>1. cmd' \in COMMANDS /\ cmd'.tool = "inject" /\ Plain(reg'.before)
  BY DEF Run, PrefixAssumed, Injecting
<1>2. pc' = "inject" /\ UNCHANGED target
  BY <1>1 DEF Run
<1>3. reg'.before = target.cells /\ reg'.at = 1
  BY DEF Run, NewReg
<1>4. Len(cmd'.args) \in Nat /\ 0 \in 0..Len(cmd'.args)
  BY <1>1, CommandsAssumption
<1>5. Applied'[0] = reg'.before
  BY <1>4, InjectedIs DEF Applied
<1>6. Reached(0)'
  <2>1. \A j \in Wanted' \cap 1..0 : FALSE
    OBVIOUS
  <2> QED BY <1>1, <1>2, <1>3, <1>5, <2>1 DEF Reached
<1>7. reg'.at - 1 = 0
  BY <1>3
<1> QED BY <1>2, <1>4, <1>6, <1>7 DEF PrefixInv, InjectPCs

LEMMA PrefixNextArg ==
  ASSUME TypeInv, PrefixInv, NextArg
  PROVE  PrefixInv'
<1>1. /\ UNCHANGED <<target, objs, cmd>> /\ pc = "inject" /\ pc \in InjectPCs
      /\ \/ pc' = "shell" /\ UNCHANGED reg /\ (status' = "ok" => reg.at > Len(cmd.args))
         \/ NextArgGoesOn
  BY NextArgIs DEF InjectPCs
<1>2. CASE pc' = "shell" /\ UNCHANGED reg /\ (status' = "ok" => reg.at > Len(cmd.args))
  <2>1. ASSUME PrefixAssumed, status' = "ok" PROVE reg.at - 1 = Len(cmd.args)
    <3>1. reg.at - 1 \in 0..Len(cmd.args) /\ reg.at \in Nat
      BY <1>1, <2>1 DEF PrefixInv, TypeInv, InjectOK
    <3>2. PICK n \in Nat : n = Len(cmd.args)
      BY <1>1, CommandsAssumption DEF TypeInv, CmdOK, InjectPCs
    <3> QED BY <1>2, <2>1, <3>1, <3>2
  <2>2. CASE PrefixAssumed
    BY <1>1, <1>2, <2>1, <2>2, PrefixStops
  <2>3. CASE ~PrefixAssumed
    <3>1. ~PrefixAssumed'
      BY <1>1, <1>2, <2>3, AssumedBefore
    <3> QED BY <3>1 DEF PrefixInv
  <2> QED BY <2>2, <2>3
<1>3. CASE NextArgGoesOn
  <2> SUFFICES ASSUME PrefixAssumed'
               PROVE  PrefixInv'
    BY DEF PrefixInv
  <2>1. DOMAIN reg = RegFields /\ reg.at \in Nat \ {0} /\ target.cells \in Files /\ reg.objs = objs
    BY <1>1 DEF TypeInv, RegOK, InjectOK, TargetOK
  <2>2. /\ reg'.before = reg.before /\ reg'.objs = reg.objs /\ reg'.stamp = reg.stamp
        /\ reg'.short = reg.short
        /\ \/ /\ pc' = pc /\ reg'.at = reg.at + 1
              /\ cmd.stamps /\ ~ts_is_newer(reg.stamp, Object.time)
           \/ /\ pc' = "search" /\ reg'.at = reg.at /\ reg'.index = 0 /\ reg'.found = 0
              /\ cmd.stamps => ts_is_newer(reg.stamp, Object.time)
    BY <1>3, <2>1 DEF NextArgGoesOn, After, RegFields
  <2>3. PrefixAssumed
    BY <1>1, <2>2, AssumedBefore
  <2>4. PICK i : i = reg.at - 1 /\ i \in 0..Len(cmd.args) /\ Reached(i)
    BY <1>1, <2>3 DEF PrefixInv
  <2>5. /\ cmd \in COMMANDS /\ cmd.tool = "inject" /\ reg.at \in 1..Len(cmd.args)
        /\ Len(cmd.args) \in Nat /\ reg.at \in DOMAIN cmd.args /\ Object = ObjectOf(reg.at)
    <3>1. cmd \in COMMANDS /\ cmd.tool = "inject" /\ reg.at <= Len(cmd.args)
      BY <1>1, <1>3 DEF TypeInv, CmdOK, InjectPCs, NextArgGoesOn
    <3>2. Len(cmd.args) \in Nat
      BY <3>1, CommandsAssumption
    <3>3. reg.at \in 1..Len(cmd.args)
      BY <2>1, <3>1, <3>2
    <3> QED BY <1>1, <3>1, <3>2, <3>3, ObjectIs
  <2>6. CASE /\ pc' = pc /\ reg'.at = reg.at + 1
             /\ cmd.stamps /\ ~ts_is_newer(reg.stamp, Object.time)
    <3>1. reg.at \notin Wanted
      BY <2>5, <2>6 DEF Wanted
    <3>2. PICK a \in 1..Len(cmd.args) : a = reg.at /\ i = a - 1
      BY <2>4, <2>5
    <3>3. Applied[a] = Applied[i]
      <4>1. Applied[a] = OneMore(a, Applied[a - 1], cmd.args, reg.objs, Wanted)
        BY <2>5, InjectedIs DEF Applied
      <4> QED BY <3>1, <3>2, <4>1 DEF OneMore
    <3>4. Reached(a)
      <4>1. \A j \in Wanted \cap 1..a : j \in Wanted \cap 1..i
        BY <2>4, <3>1, <3>2
      <4> QED BY <2>4, <3>3, <4>1 DEF Reached
    <3>5. Reached(a)'
      BY <1>1, <2>2, <3>4, ReachedKept
    <3>6. reg'.at - 1 = a /\ a \in 0..Len(cmd.args)
      BY <2>5, <2>6, <3>2
    <3> QED BY <1>1, <2>6, <3>5, <3>6 DEF PrefixInv, InjectPCs, Reached
  <2>7. CASE /\ pc' = "search" /\ reg'.at = reg.at /\ reg'.index = 0 /\ reg'.found = 0
             /\ cmd.stamps => ts_is_newer(reg.stamp, Object.time)
    <3>1. reg.at \in Wanted
      BY <2>5, <2>7 DEF Wanted
    <3>2. Reached(i)' /\ Wanted' = Wanted
      BY <1>1, <2>2, <2>4, ReachedKept, SameCommand
    <3>3. Cardinality(Before(target.cells, 0)) = 0
      BY <2>1, NoneBefore
    <3>4. reg'.at - 1 = i
      BY <2>4, <2>7
    <3> QED BY <1>1, <2>4, <2>7, <3>1, <3>2, <3>3, <3>4 DEF PrefixInv, InjectPCs
  <2> QED BY <2>2, <2>6, <2>7
<1> QED BY <1>1, <1>2, <1>3

\* A step of agsinject with an argument, up to the rename.
LEMMA PrefixLocals ==
  ASSUME TypeInv, PrefixInv, pc \in InjectPCs \ {"inject"}, UNCHANGED <<target, cmd>>,
         reg'.before = reg.before, reg'.objs = reg.objs, reg'.stamp = reg.stamp,
         reg'.at = reg.at, reg.short => reg'.short, pc' \in {"search", "copy", "rest", "rename"},
         PrefixAssumed' =>
            /\ pc' = "search" => reg'.found = Cardinality(Before(target.cells, reg'.index))
            /\ pc' \in {"copy", "rest"} => Found'
            /\ pc' \in {"rest", "rename"} => Object'.cells # <<>>
            /\ pc' = "rest" => reg'.tmp = SubSeq(target.cells, 1, reg'.start) \o Object'.cells
            /\ pc' = "rename" => Copied'
  PROVE  PrefixInv'
<1> SUFFICES ASSUME PrefixAssumed'
             PROVE  /\ reg'.at - 1 \in 0..Len(cmd'.args) /\ (Reached(reg.at - 1))'
                    /\ reg'.at \in Wanted'
  BY DEF PrefixInv
<1>1. PrefixAssumed
  BY AssumedBefore
<1>2. PICK k : k = reg.at - 1 /\ k \in 0..Len(cmd.args) /\ Reached(k)
  BY <1>1 DEF PrefixInv
<1>3. Reached(k)' /\ Wanted' = Wanted
  BY <1>2, ReachedKept, SameCommand
<1>4. reg.at \in Wanted
  BY <1>1 DEF PrefixInv
<1>5. reg'.at - 1 = k
  BY <1>2
<1> QED BY <1>2, <1>3, <1>4, <1>5

LEMMA PrefixSearchGame ==
  ASSUME TypeInv, PrefixInv, SearchGame
  PROVE  PrefixInv'
<1> DEFINE f == target.cells
           start == ARF_find_code_start(f, reg.index)
<1>1. UNCHANGED <<target, objs, cmd>> /\ pc = "search" /\ ~target.room
  BY DEF SearchGame, Same
<1>2. /\ DOMAIN reg = RegFields /\ f \in Files /\ reg.index \in Nat /\ reg.index <= Len(f)
  BY <1>1, Cells DEF TypeInv, RegOK, InjectOK, InjectPCs, TargetOK
<1>3. CASE start = NotFound
  <2>1. pc' = "shell" /\ UNCHANGED reg /\ status' # "ok"
    BY <1>3 DEF SearchGame, Exit
  <2> QED BY <1>1, <2>1, PrefixStops DEF InjectPCs
<1>4. CASE start # NotFound
  <2>1. \/ pc' = "copy" /\ reg.found = Arg.which /\ reg' = [reg EXCEPT !.start = start]
        \/ pc' = pc /\ reg' = [reg EXCEPT !.found = @ + 1, !.index = Resume(start)]
    BY <1>4 DEF SearchGame
  <2>2. /\ reg'.before = reg.before /\ reg'.objs = reg.objs /\ reg'.stamp = reg.stamp
        /\ reg'.at = reg.at /\ reg'.short = reg.short
        /\ \/ pc' = "copy" /\ reg'.start = start /\ reg.found = Arg.which
           \/ pc' = pc /\ reg'.index = start + 4 /\ reg'.found = reg.found + 1
    <3> HIDE DEF start
    <3> QED BY <1>2, <2>1 DEF RegFields, Resume
  <2>3. ASSUME PrefixAssumed
        PROVE  /\ pc' = "search" => reg'.found = Cardinality(Before(f, reg'.index))
               /\ pc' = "copy" => Found'
    <3>1. Plain(f) /\ reg.found = Cardinality(Before(f, reg.index))
      BY <1>1, <2>3 DEF PrefixInv, InjectPCs, Reached
    <3>2. /\ start \in Signatures(f) /\ Before(f, start) = Before(f, reg.index)
          /\ Cardinality(Before(f, start + 4)) = Cardinality(Before(f, reg.index)) + 1
      BY <1>2, <1>4, <3>1, NextScript
    <3>3. Arg' = Arg
      BY <1>1, <2>2 DEF Arg
    <3> HIDE DEF start
    <3> QED BY <1>1, <2>2, <3>1, <3>2, <3>3 DEF Found
  <2>4. PrefixAssumed' => PrefixAssumed
    BY <1>1, <2>2, AssumedBefore
  <2>5. pc' \in {"search", "copy"} /\ pc \in InjectPCs \ {"inject"}
    BY <1>1, <2>2 DEF InjectPCs
  <2> QED BY <1>1, <2>2, <2>3, <2>4, <2>5, PrefixLocals
<1> QED BY <1>3, <1>4

LEMMA PrefixSearchRoom ==
  ASSUME TypeInv, PrefixInv, SearchRoom
  PROVE  PrefixInv'
<1>1. target'.room = target.room /\ target.room
  BY DEF SearchRoom, Same
<1> QED BY <1>1 DEF PrefixInv, PrefixAssumed

LEMMA PrefixCopyHeader ==
  ASSUME TypeInv, PrefixInv, CopyHeader
  PROVE  PrefixInv'
<1> DEFINE o == Object.cells
<1>1. UNCHANGED <<target, objs, cmd>> /\ pc = "copy"
  BY DEF CopyHeader, Same
<1>2. DOMAIN reg = RegFields
  BY DEF TypeInv, RegOK
<1>3. CASE pc' = "shell" /\ UNCHANGED reg /\ status' # "ok"
  BY <1>1, <1>3, PrefixStops DEF InjectPCs
<1>4. CASE /\ o # <<>> /\ pc' = "rest" /\ reg' = [reg EXCEPT !.tmp = Header(o) \o o]
  <2>1. /\ reg'.before = reg.before /\ reg'.objs = reg.objs /\ reg'.stamp = reg.stamp
        /\ reg'.at = reg.at /\ reg'.short = reg.short /\ reg'.start = reg.start
        /\ reg'.tmp = Header(o) \o o
    <3> HIDE DEF o
    <3> QED BY <1>2, <1>4 DEF RegFields
  <2>2. Object' = Object /\ Arg' = Arg
    BY <1>1, <2>1 DEF Object, Arg
  <2>3. ASSUME PrefixAssumed
        PROVE  Found' /\ reg'.tmp = SubSeq(target.cells, 1, reg'.start) \o o
    <3>1. Found /\ ~target.room
      BY <1>1, <2>3 DEF PrefixInv, PrefixAssumed
    <3>2. Header(o) = SubSeq(target.cells, 1, reg.start)
      BY <3>1 DEF Header
    <3> QED BY <1>1, <2>1, <2>2, <3>1, <3>2 DEF Found
  <2>4. PrefixAssumed' => PrefixAssumed
    BY <1>1, <2>1, AssumedBefore
  <2>5. pc' = "rest" /\ pc \in InjectPCs \ {"inject"}
    BY <1>1, <1>4 DEF InjectPCs
  <2> QED BY <1>1, <1>4, <2>1, <2>2, <2>3, <2>4, <2>5, PrefixLocals
<1> QED BY <1>3, <1>4 DEF CopyHeader, Exit

LEMMA PrefixCopyRest ==
  ASSUME TypeInv, PrefixInv, CopyRest
  PROVE  PrefixInv'
<1> DEFINE f    == target.cells
           n    == ASI_read_script(f, reg.start)
           full == reg.tmp \o Rest(f, reg.start, n)
<1>1. UNCHANGED <<target, objs, cmd>> /\ pc = "rest" /\ f \in Files
  BY DEF CopyRest, Same, TypeInv, TargetOK
<1>2. DOMAIN reg = RegFields
  BY DEF TypeInv, RegOK
<1>3. CASE pc' = "shell" /\ UNCHANGED reg /\ status' # "ok"
  BY <1>1, <1>3, PrefixStops DEF InjectPCs
<1>4. CASE /\ n # 0 /\ pc' = "rename"
           /\ \E short \in BOOLEAN :
                 reg' = [reg EXCEPT !.tmp = IF short THEN Front(full) ELSE full,
                                    !.tmptime = clock, !.short = @ \/ short]
  <2>1. /\ reg'.before = reg.before /\ reg'.objs = reg.objs /\ reg'.stamp = reg.stamp
        /\ reg'.at = reg.at /\ (reg.short => reg'.short) /\ reg'.start = reg.start
        /\ ~reg'.short => reg'.tmp = full
    <3> HIDE DEF full
    <3> QED BY <1>2, <1>4 DEF RegFields
  <2>2. Object' = Object /\ Arg' = Arg
    BY <1>1, <2>1 DEF Object, Arg
  <2>3. PrefixAssumed' => PrefixAssumed
    BY <1>1, <2>1, AssumedBefore
  <2>4. ASSUME PrefixAssumed'
        PROVE  Copied' /\ Object.cells # <<>>
    <3>1. PICK i : Reached(i)
      BY <1>1, <2>3, <2>4 DEF PrefixInv, InjectPCs
    <3>2. /\ PrefixAssumed /\ Found /\ Object.cells # <<>> /\ reg.at \in Wanted
          /\ reg.tmp = SubSeq(f, 1, reg.start) \o Object.cells
          /\ Plain(f)
      BY <1>1, <2>3, <2>4, <3>1 DEF PrefixInv, InjectPCs, Reached
    <3>3. Object.cells \in Files /\ Object = ObjectOf(reg.at)
      <4>1. reg.at \in 1..Len(cmd.args) /\ pc \in InjectPCs
        BY <1>1 DEF TypeInv, InjectOK, InjectPCs
      <4> QED BY <4>1, ObjectIs
    <3>4. WholeObject(Object.cells)
      BY <3>2, <3>3 DEF PrefixAssumed
    <3>5. ~reg'.short
      BY <2>4 DEF PrefixAssumed, Injecting
    <3>6. reg'.tmp = SubSeq(f, 1, reg.start) \o Object.cells \o Rest(f, reg.start, n)
      BY <2>1, <3>2, <3>5
    <3>7. reg.start \in Signatures(f) /\ Arg.which = Cardinality(Before(f, reg.start))
      BY <3>2 DEF Found
    <3>8. PICK o, p, w : o \in Files /\ p \in Signatures(f) /\ o = Object.cells /\ p = reg.start /\ w = Arg.which
      BY <3>3, <3>7
    <3>9. PICK m : m = ASI_read_script(f, p)
      OBVIOUS
    <3>10. PICK g : g = SubSeq(f, 1, p) \o o \o Rest(f, p, m)
      OBVIOUS
    <3>11. g = Replaced(f, w, o) /\ Plain(g) /\ Cardinality(Signatures(g)) = Cardinality(Signatures(f))
      <4>1. WholeObject(o) /\ w = Cardinality(Before(f, p))
        BY <3>4, <3>7, <3>8
      <4>2. ReplacedAt(SubSeq(f, 1, p) \o o \o Rest(f, p, m), f, w, o)
        <5>1. f \in Files /\ Plain(f)
          BY <1>1, <3>2
        <5> HIDE DEF f
        <5>2. o \in Files /\ p \in Signatures(f)
          BY <3>8
        <5> QED BY <3>9, <4>1, <5>1, <5>2, ReplacedIs, Zenon
      <4> QED BY <3>10, <4>2 DEF ReplacedAt
    <3>12. w < Cardinality(Signatures(f))
      BY <1>1, <3>7, <3>8, ScriptStartIs
    <3>13. reg'.tmp = g
      BY <3>6, <3>8, <3>9, <3>10
    <3>14. target'.cells = f /\ Arg'.which = w /\ Object'.cells = o
      BY <1>1, <2>2, <3>8
    <3> QED BY <3>2, <3>11, <3>12, <3>13, <3>14 DEF Copied
  <2>5. pc' = "rename" /\ pc \in InjectPCs \ {"inject"}
    BY <1>1, <1>4 DEF InjectPCs
  <2> QED BY <1>1, <2>1, <2>2, <2>4, <2>5, PrefixLocals
<1> QED BY <1>3, <1>4 DEF CopyRest, Exit

LEMMA PrefixRename ==
  ASSUME TypeInv, PrefixInv, Rename
  PROVE  PrefixInv'
<1>1. UNCHANGED <<objs, cmd>> /\ pc = "rename"
  BY DEF Rename, Same
<1>2. CASE pc' = "shell" /\ UNCHANGED <<target, reg>> /\ status' # "ok"
  BY <1>1, <1>2, PrefixStops DEF InjectPCs
<1>3. CASE /\ target' = [target EXCEPT !.cells = reg.tmp, !.time = reg.tmptime]
           /\ reg' = [reg EXCEPT !.at = After(@)] /\ pc' = "inject"
  <2> SUFFICES ASSUME PrefixAssumed'
               PROVE  PrefixInv'
    BY DEF PrefixInv
  <2>1. DOMAIN reg = RegFields /\ reg.at \in 1..Len(cmd.args) /\ pc \in InjectPCs
    BY <1>1 DEF TypeInv, RegOK, InjectOK, InjectPCs
  <2>2. /\ reg'.before = reg.before /\ reg'.objs = reg.objs /\ reg'.stamp = reg.stamp
        /\ reg'.short = reg.short /\ reg'.at = reg.at + 1
    BY <1>3, <2>1 DEF RegFields, After
  <2>3. target'.cells = reg.tmp /\ target'.room = target.room
    BY <1>3 DEF TypeInv, TargetOK
  <2>4. PrefixAssumed
    BY <1>1, <2>2, <2>3, AssumedBefore
  <2>5. PICK i : i = reg.at - 1 /\ i \in 0..Len(cmd.args) /\ Reached(i)
    BY <1>1, <2>4 DEF PrefixInv, InjectPCs
  <2>6. Copied /\ Object.cells # <<>> /\ reg.at \in Wanted
    BY <1>1, <2>4 DEF PrefixInv, InjectPCs
  <2>7. Object = ObjectOf(reg.at) /\ Len(cmd.args) \in Nat
    BY <2>1, ObjectIs, CommandsAssumption
  <2>8. PICK a \in 1..Len(cmd.args) : a = reg.at /\ i = a - 1
    BY <2>1, <2>5, <2>7
  <2>9. Applied[a] = reg.tmp
    <3>1. Applied[a] = OneMore(a, Applied[a - 1], cmd.args, reg.objs, Wanted)
      BY <2>7, InjectedIs DEF Applied
    <3>2. Applied[a - 1] = target.cells
      BY <2>5, <2>8 DEF Reached
    <3>3. Applied[a] = Replaced(target.cells, cmd.args[a].which, reg.objs[cmd.args[a].obj].cells)
      BY <2>6, <2>8, <3>1, <3>2 DEF OneMore
    <3>4. cmd.args[a].which = Arg.which /\ reg.objs[cmd.args[a].obj].cells = Object.cells
      BY <2>7, <2>8 DEF Arg, ObjectOf
    <3> QED BY <2>6, <3>3, <3>4 DEF Copied
  <2>10. Wanted' = Wanted /\ Applied' = Applied /\ \A j : ObjectOf(j)' = ObjectOf(j)
    BY <1>1, <2>2, SameCommand
  <2>11. \A j \in Wanted \cap 1..a :
            cmd.args[j].which < Cardinality(Signatures(reg.before)) /\ ObjectOf(j).cells # <<>>
    <3> TAKE j \in Wanted \cap 1..a
    <3>1. CASE j = a
      <4>1. cmd.args[j].which = Arg.which
        BY <2>8, <3>1 DEF Arg
      <4> QED BY <2>5, <2>6, <2>7, <2>8, <3>1, <4>1 DEF Copied, Reached
    <3>2. CASE j # a
      <4>1. j \in Wanted \cap 1..i
        BY <2>8, <3>2
      <4> QED BY <2>5, <4>1 DEF Reached
    <3> QED BY <3>1, <3>2
  <2>12. Reached(a)'
    <3>1. Plain(reg.tmp) /\ Cardinality(Signatures(reg.tmp)) = Cardinality(Signatures(reg.before))
      BY <2>5, <2>6 DEF Copied, Reached
    <3> QED BY <1>1, <2>2, <2>3, <2>9, <2>10, <2>11, <3>1 DEF Reached
  <2>13. reg'.at - 1 = a /\ a \in 0..Len(cmd.args)
    BY <2>2, <2>7, <2>8
  <2> QED BY <1>1, <1>3, <2>12, <2>13 DEF PrefixInv, InjectPCs
<1> QED BY <1>2, <1>3 DEF Rename, Exit

LEMMA PrefixNext ==
  ASSUME TypeInv, PrefixInv, [Next]_vars
  PROVE  PrefixInv'
<1>1. CASE Kill
  <2>1. pc # "shell" /\ pc' = "shell" /\ UNCHANGED <<target, cmd, reg>> /\ status' # "ok"
    BY <1>1 DEF Kill, Exit
  <2>2. CASE pc \in InjectPCs
    BY <2>1, <2>2, PrefixStops
  <2>3. CASE pc \notin InjectPCs
    BY <2>1, <2>3, PrefixOther
  <2> QED BY <2>2, <2>3
<1>2. CASE Compile
  BY <1>2, PrefixShell DEF Compile
<1>3. CASE UNCHANGED vars
  <2>1. UNCHANGED <<target, objs, cmd, pc, reg, status>>
    BY <1>3 DEF vars
  <2>2. /\ Object' = Object /\ Arg' = Arg /\ Wanted' = Wanted /\ Applied' = Applied
        /\ PrefixAssumed' => PrefixAssumed
    BY <2>1, SameCommand, AssumedBefore DEF Object, Arg
  <2>3. \A k : Reached(k) => Reached(k)'
    BY <2>1, ReachedKept
  <2> SUFFICES ASSUME PrefixAssumed' PROVE PrefixInv'
    BY DEF PrefixInv
  <2>4. pc \in InjectPCs => \E k : k = reg.at - 1 /\ k \in 0..Len(cmd.args) /\ Reached(k)'
    BY <2>2, <2>3 DEF PrefixInv
  <2>5. pc = "shell" => \E k \in 0..Len(cmd.args) : Reached(k)' /\ (status = "ok" => k = Len(cmd.args))
    BY <2>2, <2>3 DEF PrefixInv
  <2>6. /\ pc' \in InjectPCs => reg'.at - 1 \in 0..Len(cmd'.args) /\ (Reached(reg.at - 1))'
    BY <2>1, <2>4
  <2> QED BY <2>1, <2>2, <2>5, <2>6 DEF PrefixInv, Found, Copied
<1>4. CASE OpenData \/ OpenFlags \/ dump_script \/ ExtractDone \/ dumprooms \/ WriteFlag \/ AlphaDone
  <2>1. pc \notin InjectPCs /\ pc # "shell" /\ cmd' = cmd
    BY <1>4 DEF OpenData, OpenFlags, dump_script, ExtractDone, dumprooms, WriteFlag, AlphaDone,
                Same, InjectPCs
  <2>2. target'.room = target.room
    BY <1>4, RoomStays
  <2> QED BY <2>1, <2>2, PrefixOther
<1> QED BY <1>1, <1>2, <1>3, <1>4, PrefixRun, PrefixNextArg, PrefixSearchGame, PrefixSearchRoom,
           PrefixCopyHeader, PrefixCopyRest, PrefixRename
        DEF Next, Tool

LEMMA PrefixInit ==
  ASSUME Init
  PROVE  PrefixInv
  BY DEF Init, PrefixInv, PrefixAssumed, Injecting, NoCommand

LEMMA PrefixInvApplied ==
  ASSUME TypeInv, PrefixInv
  PROVE  PrefixApplied
<1> SUFFICES ASSUME PrefixAssumed
             PROVE  \E k \in 0..Len(cmd.args) :
                       /\ \A j \in Wanted \cap 1..k :
                             /\ cmd.args[j].which < Cardinality(Signatures(reg.before))
                             /\ ObjectOf(j).cells # <<>>
                       /\ target.cells = Applied[k]
                       /\ Ended("inject", {"ok"}) => k = Len(cmd.args)
  BY DEF PrefixApplied, PrefixAssumed
<1>1. pc = "shell" \/ pc \in InjectPCs
  BY DEF TypeInv, CmdOK, PrefixAssumed, Injecting
<1>2. \E k \in 0..Len(cmd.args) : Reached(k) /\ (pc = "shell" /\ status = "ok" => k = Len(cmd.args))
  BY <1>1 DEF PrefixInv, InjectPCs
<1> QED BY <1>2 DEF Reached, Ended

\* Whatever is killed, refused or not renamed, a game that agsinject works on is
\* the one it was with the first so many of the objects asked for in the places
\* asked for, and all of them when agsinject says so (agsinject.c).
THEOREM PrefixIsApplied == Spec => []PrefixApplied
<1>1. Init => TypeInv /\ PrefixInv
  BY TypeInit, PrefixInit
<1>2. TypeInv /\ PrefixInv /\ [Next]_vars => TypeInv' /\ PrefixInv'
  BY TypeNext, PrefixNext
<1>3. TypeInv /\ PrefixInv => PrefixApplied
  BY PrefixInvApplied
<1> QED BY <1>1, <1>2, <1>3, PTL DEF Spec

-----------------------------------------------------------------------------
(* Rooms whose script has become another                                   *)

\* The end of a block is not before that of an earlier one.
LEMMA PathMonotone ==
  ASSUME NEW f \in Files, NEW B, Path(f, B), NEW i \in 0..Len(B)
  PROVE  \A j \in 0..Len(B) : i <= j => EndOf(B, i) <= EndOf(B, j)
<1> DEFINE S == {j \in Nat : j <= Len(B) /\ i <= j => EndOf(B, i) <= EndOf(B, j)}
<1>1. Len(B) \in Nat
  BY LenProperties DEF Path
<1>2. \A j \in 0..Len(B) : EndOf(B, j) \in Nat /\ (j # 0 => EndOf(B, j - 1) < EndOf(B, j))
  BY PathEnds
<1>3. 0 \in S
  <2>1. i <= 0 => i = 0
    OBVIOUS
  <2>2. EndOf(B, i) <= EndOf(B, i)
    BY <1>2
  <2> QED BY <2>1, <2>2
<1>4. ASSUME NEW j \in 1..Len(B), j - 1 \in S PROVE j \in S
  <2>1. CASE i = j
    <3>1. EndOf(B, i) <= EndOf(B, i)
      BY <1>2
    <3> QED BY <2>1, <3>1
  <2>2. CASE ~(i <= j)
    BY <2>2
  <2>3. CASE i <= j /\ i # j
    <3>1. i <= j - 1 /\ j - 1 <= Len(B) /\ j \in 0..Len(B) /\ j # 0 /\ j - 1 \in 0..Len(B)
      BY <1>1, <2>3
    <3>2. PICK x \in Nat, y \in Nat, z \in Nat : x = EndOf(B, i) /\ y = EndOf(B, j - 1) /\ z = EndOf(B, j)
      BY <1>2, <3>1
    <3>3. x <= y /\ y < z
      BY <1>2, <1>4, <3>1, <3>2
    <3>4. x <= z
      BY <3>3
    <3> QED BY <3>2, <3>4
  <2> QED BY <2>1, <2>2, <2>3
<1> HIDE DEF S
<1>5. \A j \in 0..Len(B) : j \in S
  <2>1. S \in SUBSET Nat
    BY DEF S
  <2> QED BY <1>1, <1>3, <1>4, <2>1, UpTo
<1> QED BY <1>5 DEF S

\* No letter is where a block or the mark of the end is.
LEMMA NoLetter ==
  ASSUME NEW f, NEW e, (\E b : BlockAt(f, e, b)) \/ EndAt(f, e)
  PROVE  CellAt(f, e)[1] \in {"block", "name"}
<1>1. CASE CellAt(f, e) = <<"block", BLOCKTYPE_EXT>>
  <2>1. <<"block", BLOCKTYPE_EXT>>[1] = "block"
    OBVIOUS
  <2> QED BY <1>1, <2>1
<1>2. CASE CellAt(f, e) # <<"block", BLOCKTYPE_EXT>>
  <2>1. TypeAt(f, e) = e
    BY <1>2 DEF TypeAt
  <2>2. <<"block", BLOCKTYPE_EOF>>[1] = "block"
    OBVIOUS
  <2>3. CASE EndAt(f, e)
    BY <2>1, <2>2, <2>3 DEF EndAt
  <2>4. CASE \E b : BlockAt(f, e, b)
    <3>1. PICK b : BlockAt(f, e, b)
      BY <2>4
    <3>2. CellAt(f, TypeAt(f, e))[1] \in {"block", "name"}
      BY <3>1, Zenon DEF BlockAt, BlockLike
    <3> QED BY <2>1, <3>2
  <2> QED BY <2>3, <2>4
<1> QED BY <1>1, <1>2

\* A block whose type and length are moved by d, and whose length becomes l.
LEMMA BlockMoves ==
  ASSUME NEW f \in Files, NEW g \in Files, NEW e \in Nat, NEW b, BlockAt(f, e, b),
         NEW d \in Int, e + d \in Nat, NEW l \in Nat, RoomVersion(g) = RoomVersion(f),
         \A q \in Int : e <= q /\ q <= TypeAt(f, e) => CellAt(g, q + d) = CellAt(f, q),
         CellAt(g, TypeAt(f, e) + 1 + d)[1] = "len", CellAt(g, TypeAt(f, e) + 1 + d)[2] = l,
         b.start + d + l <= Len(g),
         b.type = BLOCKTYPE_COMPSCRIPT3 => SignatureAt(g, b.start + d)
  PROVE  BlockAt(g, e + d, Block(b.type, b.start + d, l))
<1>1. /\ b \in BlockSet /\ b.start = StartAt(f, e) /\ TypeAt(f, e) \in Nat
      /\ CellAt(f, TypeAt(f, e))[2] = b.type /\ e <= TypeAt(f, e)
  BY BlockIs
<1>2. PICK t \in Nat : t = TypeAt(f, e) /\ e <= t
  BY <1>1
<1>3. CellAt(g, e + d) = CellAt(f, e) /\ CellAt(g, t + d) = CellAt(f, t)
  BY <1>2
<1>4. TypeAt(g, e + d) = t + d
  <2>1. CASE CellAt(f, e) = <<"block", BLOCKTYPE_EXT>>
    <3>1. t = e + 1 /\ TypeAt(g, e + d) = (e + d) + 1
      BY <1>2, <1>3, <2>1 DEF TypeAt
    <3> QED BY <3>1
  <2>2. CASE CellAt(f, e) # <<"block", BLOCKTYPE_EXT>>
    BY <1>2, <1>3, <2>2 DEF TypeAt
  <2> QED BY <2>1, <2>2
<1>5. PICK w \in {1, 2} : w = LengthCells(RoomVersion(f))
  BY LengthCellsAre
<1>6. StartAt(g, e + d) = b.start + d /\ b.start = t + 1 + w
  <2>1. b.start = t + 1 + w /\ StartAt(g, e + d) = t + d + 1 + w
    BY <1>1, <1>2, <1>4, <1>5 DEF StartAt
  <2>2. t + d + 1 + w = t + 1 + w + d
    BY <1>2, <1>5
  <2> QED BY <2>1, <2>2
<1> DEFINE type == CellAt(f, t)
<1>7. /\ type # <<"block", BLOCKTYPE_EOF>> /\ type[1] \in {"block", "name"}
      /\ CellAt(f, e) = <<"block", BLOCKTYPE_EXT>> => ~(RoomVersion(f) < 32)
      /\ ~(type[2] > BLOCKTYPE_MAX)
  BY <1>2, Zenon DEF BlockAt, BlockLike
<1>8. /\ CellAt(g, TypeAt(g, e + d)) = type /\ type[2] = b.type
      /\ CellAt(g, TypeAt(g, e + d) + 1)[1] = "len" /\ CellAt(g, TypeAt(g, e + d) + 1)[2] = l
  <2>1. t + 1 + d = t + d + 1
    BY <1>2
  <2> QED BY <1>1, <1>2, <1>3, <1>4, <2>1
<1>9. ~(StartAt(g, e + d) > Len(g)) /\ ~(StartAt(g, e + d) + l > Len(g))
  <2>1. PICK s \in Nat, m \in Nat : s = b.start /\ m = Len(g)
    BY <1>1, Cells DEF BlockSet
  <2>2. s + d + l <= m
    BY <2>1
  <2>3. ~(s + d > m) /\ ~(s + d + l > m)
    BY <2>1, <2>2
  <2> QED BY <1>6, <2>1, <2>3
<1>10. b.type = BLOCKTYPE_COMPSCRIPT3 => SignatureAt(g, StartAt(g, e + d))
  BY <1>6
<1> DEFINE c == Block(b.type, b.start + d, l)
<1>11. c = Block(CellAt(g, TypeAt(g, e + d))[2], StartAt(g, e + d), CellAt(g, TypeAt(g, e + d) + 1)[2])
  BY <1>6, <1>8, Zenon
<1> HIDE DEF c, type
<1>12. /\ CellAt(g, TypeAt(g, e + d)) # <<"block", BLOCKTYPE_EOF>>
       /\ CellAt(g, TypeAt(g, e + d))[1] \in {"block", "name"}
       /\ CellAt(g, e + d) = <<"block", BLOCKTYPE_EXT>> => ~(RoomVersion(g) < 32)
       /\ ~(CellAt(g, TypeAt(g, e + d))[2] > BLOCKTYPE_MAX)
       /\ CellAt(g, TypeAt(g, e + d))[2] = BLOCKTYPE_COMPSCRIPT3 => SignatureAt(g, StartAt(g, e + d))
  BY <1>3, <1>7, <1>8, <1>10, Zenon
<1>13. BlockAt(g, e + d, c)
  <2>1. BlockLike(g, e + d, c)
    BY <1>8, <1>9, <1>11, <1>12, Zenon DEF BlockLike
  <2>2. CellAt(g, TypeAt(g, e + d) + 1)[2] \in Nat
    BY <1>8
  <2> QED BY <2>1, <2>2 DEF BlockAt
<1> QED BY <1>13 DEF c

LEMMA EndMoves ==
  ASSUME NEW f, NEW g, NEW e \in Nat, EndAt(f, e), NEW d \in Int,
         CellAt(g, e + d) = CellAt(f, e), CellAt(g, e + 1 + d) = CellAt(f, e + 1)
  PROVE  EndAt(g, e + d)
<1>1. CASE CellAt(f, e) = <<"block", BLOCKTYPE_EXT>>
  <2>1. TypeAt(f, e) = e + 1 /\ TypeAt(g, e + d) = e + d + 1
    BY <1>1 DEF TypeAt
  <2>2. e + d + 1 = e + 1 + d
    OBVIOUS
  <2> QED BY <2>1, <2>2 DEF EndAt
<1>2. CASE CellAt(f, e) # <<"block", BLOCKTYPE_EXT>>
  <2>1. TypeAt(f, e) = e /\ TypeAt(g, e + d) = e + d
    BY <1>2 DEF TypeAt
  <2> QED BY <2>1 DEF EndAt
<1> QED BY <1>1, <1>2

\* The length before a script.
LengthOf(w, l) == << <<"len", l>> >> \o [k \in 1..w - 1 |-> <<"high">>]

LEMMA LengthOfIs ==
  ASSUME NEW o \in Objects, NEW w \in {1, 2}
  PROVE  /\ LengthOf(w, Len(o)) \in Files /\ Len(LengthOf(w, Len(o))) = w
         /\ CellAt(LengthOf(w, Len(o)), 0) = <<"len", Len(o)>>
<1> DEFINE a == << <<"len", Len(o)>> >>
           h == [k \in 1..w - 1 |-> <<"high">>]
<1>1. a \in Files /\ Len(a) = 1 /\ a[1] = <<"len", Len(o)>>
  BY ObjectsAre
<1>2. h \in Files /\ Len(h) = w - 1
  <2>1. w - 1 \in Nat /\ <<"high">> \in CELLS
    BY FilesAssumption
  <2>2. h \in [1..w - 1 -> CELLS]
    BY <2>1
  <2>3. h \in Seq(CELLS)
    BY <2>1, <2>2, SeqDef
  <2>4. Len(h) = w - 1
    BY <2>1, <2>2, <2>3, LenProperties
  <2> QED BY <2>3, <2>4 DEF Files
<1> HIDE DEF a, h
<1>3. a \o h \in Files /\ Len(a \o h) = w /\ CellAt(a \o h, 0) = CellAt(a, 0)
  <2>1. 1 + (w - 1) = w
    OBVIOUS
  <2>2. /\ a \o h \in Files /\ Len(a \o h) = 1 + (w - 1)
        /\ \A q \in Int : q < 1 => CellAt(a \o h, q) = CellAt(a, q)
    BY <1>1, <1>2, Joined, ZenonT(60)
  <2> QED BY <2>1, <2>2
<1>4. CellAt(a, 0) = <<"len", Len(o)>>
  <2>1. 1 \in 1..Len(a) /\ 1 - 1 = 0
    BY <1>1
  <2>2. CellAt(a, 1 - 1) = a[1]
    BY <1>1, <2>1, Cells
  <2> QED BY <1>1, <2>1, <2>2
<1> QED BY <1>3, <1>4 DEF LengthOf, a, h

\* The room g is f with the object o for the script of its k-th block.
RoomBecomes(g, f, B, k, o) ==
  /\ f \in Files /\ ReadsAs(f, B) /\ LastOf(B, BLOCKTYPE_COMPSCRIPT3, k)
  /\ o \in Objects /\ Measured(o)
  /\ SplicedAt(g, f, LengthOf(LengthCells(RoomVersion(f)), Len(o)) \o o,
               B[k].start - LengthCells(RoomVersion(f)),
               LengthCells(RoomVersion(f)) + B[k].len)

\* The cells of g, by those of f: p is behind the type, s before the script of n cells.
RoomCells(g, f, p, s, n, l, d) ==
  /\ g \in Files /\ Len(g) = Len(f) + d /\ d = l - n
  /\ \A q \in Int : q < p => CellAt(g, q) = CellAt(f, q)
  /\ CellAt(g, p) = <<"len", l>>
  /\ \A q \in Int : s + n <= q => CellAt(g, q + d) = CellAt(f, q)

\* The length of the script is the w cells at p, the script the n cells at s.
RoomPlaces(g, f, B, k, o, p, s, n, w, d) ==
  /\ p = TypeAt(f, EndOf(B, k - 1)) + 1 /\ s = p + w
  /\ w = LengthCells(RoomVersion(f))
  /\ s = B[k].start /\ n = B[k].len /\ s + n <= Len(f) /\ p > 1
  /\ RoomCells(g, f, p, s, n, Len(o), d)
  /\ \A q \in Int : 0 <= q /\ q < Len(o) => CellAt(g, s + q) = CellAt(o, q)

LEMMA RoomCellsAre ==
  ASSUME NEW g, NEW f, NEW B, NEW k, NEW o, RoomBecomes(g, f, B, k, o)
  PROVE  /\ k \in 1..Len(B) /\ Len(B) \in Nat /\ B[k] \in BlockSet /\ Path(f, B) /\ f \in Files
         /\ o \in Files /\ Len(o) \in Nat /\ Len(o) >= 6
         /\ \E p \in Nat, s \in Nat, n \in Nat, w \in {1, 2}, d \in Int :
               RoomPlaces(g, f, B, k, o, p, s, n, w, d)
<1>1. /\ f \in Files /\ Path(f, B) /\ k \in 1..Len(B) /\ B \in Seq(BlockSet)
      /\ o \in Objects /\ Measured(o)
  BY DEF RoomBecomes, ReadsAs, LastOf, Path
<1>2. Len(B) \in Nat /\ o \in Files
  BY <1>1, LenProperties, ObjectsAre
<1>3. /\ EndOf(B, k - 1) \in Nat /\ BlockAt(f, EndOf(B, k - 1), B[k]) /\ B[k] \in BlockSet
  BY <1>1, PathBlock
<1>4. PICK e \in Nat : e = EndOf(B, k - 1) /\ 1 <= e
  <2>1. k - 1 \in 0..Len(B)
    BY <1>1, <1>2
  <2>2. k - 1 < EndOf(B, k - 1) /\ k - 1 \in Nat
    BY <1>1, <2>1, PathEnds
  <2> QED BY <1>3, <2>2
<1>5. PICK w \in {1, 2} : w = LengthCells(RoomVersion(f))
  BY LengthCellsAre
<1>6. PICK t \in Nat, s \in Nat, n \in Nat :
         /\ t = TypeAt(f, e) /\ s = B[k].start /\ n = B[k].len
         /\ s - w = t + 1 /\ s + n <= Len(f) /\ e <= t
  <2>1. /\ B[k].start + B[k].len <= Len(f) /\ TypeAt(f, e) \in Nat
        /\ B[k].start - w = TypeAt(f, e) + 1 /\ e <= TypeAt(f, e)
    BY <1>1, <1>3, <1>4, <1>5, BlockIs
  <2> QED BY <1>3, <2>1 DEF BlockSet
<1>7. Len(o) \in Nat /\ Len(o) >= 6
  <2>1. ASI_read_script(o, 0) = Len(o) /\ Len(o) # 0 /\ Len(o) \in Nat
    BY <1>1, <1>2, Cells, EmptySeq DEF Measured, Files
  <2> QED BY <1>2, <2>1, ScriptIs
<1>8. PICK l \in Nat : l = Len(o) /\ l >= 6
  BY <1>7
<1>9. PICK d \in Int : d = l - n
  <2>1. l - n \in Int
    OBVIOUS
  <2> QED BY <2>1
<1>10. PICK p \in Nat : p = t + 1 /\ s = p + w /\ p > 1
  <2>1. t + 1 \in Nat /\ s = t + 1 + w /\ t + 1 > 1
    BY <1>4, <1>6, SMTT(30)
  <2> QED BY <2>1
<1>11. PICK h : h = LengthOf(w, l)
  OBVIOUS
<1>12. h \in Files /\ Len(h) = w /\ CellAt(h, 0) = <<"len", l>>
  BY <1>1, <1>8, <1>11, LengthOfIs
<1>13. /\ h \o o \in Files /\ Len(h \o o) = w + l
       /\ \A q \in Int : q < w => CellAt(h \o o, q) = CellAt(h, q)
       /\ \A q \in Int : 0 <= q => CellAt(h \o o, w + q) = CellAt(o, q)
  BY <1>2, <1>8, <1>12, Joined
<1>14. SplicedAt(g, f, h \o o, p, w + n)
  <2>1. B[k].start - w = p
    BY <1>6, <1>10
  <2> QED BY <1>5, <1>6, <1>8, <1>11, <2>1 DEF RoomBecomes
<1>15. /\ g \in Files /\ Len(g) = Len(f) - (w + n) + (w + l)
       /\ \A q \in Int : q < p => CellAt(g, q) = CellAt(f, q)
       /\ \A q \in Int : 0 <= q /\ q < w + l => CellAt(g, p + q) = CellAt(h \o o, q)
       /\ \A q \in Int : p + (w + n) <= q => CellAt(g, q - (w + n) + (w + l)) = CellAt(f, q)
  BY <1>13, <1>14 DEF SplicedAt
<1>16. CellAt(g, p) = <<"len", l>>
  <2>1. 0 \in Int /\ 0 <= 0 /\ 0 < w + l /\ p + 0 = p /\ 0 < w
    BY <1>8
  <2> QED BY <1>12, <1>13, <1>15, <2>1
<1>17. ASSUME NEW q \in Int, 0 <= q, q < l PROVE CellAt(g, s + q) = CellAt(o, q)
  <2>1. w + q \in Int /\ 0 <= w + q /\ w + q < w + l /\ p + (w + q) = s + q
    BY <1>10, <1>17
  <2>2. CellAt(g, p + (w + q)) = CellAt(h \o o, w + q)
    BY <1>15, <2>1
  <2> QED BY <1>13, <1>17, <2>1, <2>2
<1>18. ASSUME NEW q \in Int, s + n <= q PROVE CellAt(g, q + d) = CellAt(f, q)
  <2>1. p + (w + n) <= q /\ q - (w + n) + (w + l) = q + d
    BY <1>9, <1>10, <1>18
  <2> QED BY <1>15, <2>1
<1>19. Len(g) = Len(f) + d
  <2>1. Len(f) \in Nat
    BY <1>1, Cells
  <2> QED BY <1>9, <1>15, <2>1
<1>20. RoomCells(g, f, p, s, n, l, d)
  BY <1>9, <1>15, <1>16, <1>18, <1>19 DEF RoomCells
<1>21. p = TypeAt(f, EndOf(B, k - 1)) + 1
  BY <1>4, <1>6, <1>10
<1>22. RoomPlaces(g, f, B, k, o, p, s, n, w, d)
  BY <1>5, <1>6, <1>8, <1>10, <1>17, <1>20, <1>21 DEF RoomPlaces
<1> QED BY <1>1, <1>2, <1>3, <1>7, <1>22

\* The blocks of a room whose k-th has become d cells longer.
NewBlocks(B, k, d) ==
  [j \in 1..Len(B) |->
     IF j < k THEN B[j]
     ELSE IF j = k THEN Block(B[j].type, B[j].start, B[j].len + d)
     ELSE Block(B[j].type, B[j].start + d, B[j].len)]

\* The j-th block is of n cells at s; it begins at e, its type or name is at t.
Between(f, B, j, e, t, s, n) ==
  /\ e = EndOf(B, j - 1) /\ t = TypeAt(f, e) /\ s = B[j].start /\ n = B[j].len
  /\ EndOf(B, j) = s + n /\ e <= t /\ t + 1 < s /\ s + n <= Len(f)
  /\ BlockAt(f, e, B[j]) /\ B[j] \in BlockSet
  /\ B[j] = Block(B[j].type, s, n)
  /\ CellAt(f, t + 1)[1] = "len" /\ CellAt(f, t + 1)[2] = n

LEMMA BlockBetween ==
  ASSUME NEW f \in Files, NEW B, Path(f, B), NEW j \in 1..Len(B)
  PROVE  \E e \in Nat, t \in Nat, s \in Nat, n \in Nat : Between(f, B, j, e, t, s, n)
<1>1. /\ EndOf(B, j - 1) \in Nat /\ BlockAt(f, EndOf(B, j - 1), B[j]) /\ B[j] \in BlockSet
      /\ EndOf(B, j) = B[j].start + B[j].len
  BY PathBlock
<1>2. PICK e \in Nat : e = EndOf(B, j - 1)
  BY <1>1
<1>3. PICK w \in {1, 2} : w = LengthCells(RoomVersion(f))
  BY LengthCellsAre
<1>4. /\ B[j].start + B[j].len <= Len(f) /\ TypeAt(f, e) \in Nat
      /\ B[j].start - w = TypeAt(f, e) + 1 /\ e <= TypeAt(f, e)
      /\ CellAt(f, TypeAt(f, e) + 1)[2] = B[j].len
  BY <1>1, <1>2, <1>3, BlockIs
<1>5. PICK t \in Nat, s \in Nat, n \in Nat : t = TypeAt(f, e) /\ s = B[j].start /\ n = B[j].len
  BY <1>1, <1>4 DEF BlockSet
<1>6. t + 1 < s /\ e <= t /\ s + n <= Len(f)
  <2>1. s - w = t + 1
    BY <1>4, <1>5
  <2>2. t + 1 < s
    BY <2>1
  <2> QED BY <1>4, <1>5, <2>2
<1>7. CellAt(f, TypeAt(f, e) + 1)[1] = "len"
  BY <1>1, <1>2, Zenon DEF BlockAt, BlockLike
<1>8. B[j] = Block(B[j].type, s, n)
  BY <1>1, <1>5 DEF BlockSet, Block
<1>9. Between(f, B, j, e, t, s, n)
  BY <1>1, <1>2, <1>4, <1>5, <1>6, <1>7, <1>8 DEF Between
<1> QED BY <1>9

\* A block before the script stays what it is.
LEMMA BlockStays ==
  ASSUME NEW f \in Files, NEW g \in Files, NEW B, Path(f, B), NEW k \in 1..Len(B), NEW p \in Nat,
         p = TypeAt(f, EndOf(B, k - 1)) + 1, \A q \in Int : q < p => CellAt(g, q) = CellAt(f, q),
         p <= Len(g), NEW j \in 1..Len(B), j < k
  PROVE  BlockAt(g, EndOf(B, j - 1), B[j]) /\ EndOf(B, j) < p
<1>0. PICK e \in Nat, t \in Nat, s \in Nat, n \in Nat : Between(f, B, j, e, t, s, n)
  BY BlockBetween
<1>1. /\ e = EndOf(B, j - 1) /\ t = TypeAt(f, e) /\ s = B[j].start /\ n = B[j].len
      /\ EndOf(B, j) = s + n /\ e <= t /\ t + 1 < s /\ s + n <= Len(f)
      /\ BlockAt(f, e, B[j]) /\ B[j] \in BlockSet
      /\ B[j] = Block(B[j].type, s, n)
      /\ CellAt(f, t + 1)[1] = "len" /\ CellAt(f, t + 1)[2] = n
  BY <1>0 DEF Between
<1>2. PICK x \in Nat : x = EndOf(B, k - 1) /\ x < p
  <2>0. PICK y \in Nat, u \in Nat, v \in Nat, m \in Nat : Between(f, B, k, y, u, v, m)
    BY BlockBetween
  <2>1. y = EndOf(B, k - 1) /\ u = TypeAt(f, y) /\ y <= u
    BY <2>0 DEF Between
  <2>2. y < p
    <3>1. p = u + 1
      BY <2>1
    <3> QED BY <2>1, <3>1
  <2> QED BY <2>1, <2>2
<1>3. Len(B) \in Nat
  BY LenProperties DEF Path
<1>4. s + n < p
  <2>1. j \in 0..Len(B) /\ k - 1 \in 0..Len(B) /\ j <= k - 1
    BY <1>3
  <2>2. EndOf(B, j) <= EndOf(B, k - 1)
    BY <2>1, PathMonotone
  <2>3. s + n <= x
    BY <1>1, <1>2, <2>2
  <2> QED BY <1>2, <2>3
<1>5. RoomVersion(g) = RoomVersion(f)
  <2>1. 0 \in Int /\ 0 < p
    BY <1>4
  <2>2. CellAt(g, 0) = CellAt(f, 0)
    BY <2>1
  <2> QED BY <2>2 DEF RoomVersion
<1>6. ASSUME B[j].type = BLOCKTYPE_COMPSCRIPT3 PROVE SignatureAt(g, s)
  <2>1. LettersAt(f, s)
    <3>1. SignatureAt(f, StartAt(f, e))
      <4>0. PICK b : b = B[j] /\ BlockAt(f, e, b)
        BY <1>1
      <4>1. CellAt(f, TypeAt(f, e))[2] = B[j].type
        BY <4>0, BlockIs
      <4> QED BY <1>1, <1>6, <4>1, Zenon DEF BlockAt, BlockLike
    <3>2. StartAt(f, e) = s
      BY <1>1, BlockIs, SMTT(30)
    <3> QED BY <3>1, <3>2, SignatureIs
  <2>2. CellAt(f, s + n)[1] \in {"block", "name"}
    <3>1. j + 1 \in 1..Len(B) /\ (j + 1) - 1 = j
      BY <1>3
    <3>2. BlockAt(f, EndOf(B, j), B[j + 1])
      BY <3>1, PathBlock
    <3> QED BY <1>1, <3>2, NoLetter
  <2>3. \A i \in 0..3 : CellAt(f, s + i)[1] \in {"S", "C", "O", "M"}
    <3>1. s + 0 = s
      OBVIOUS
    <3>2. /\ CellAt(f, s + 0)[1] = "S" /\ CellAt(f, s + 1)[1] = "C"
          /\ CellAt(f, s + 2)[1] = "O" /\ CellAt(f, s + 3)[1] = "M"
      BY <2>1, <3>1 DEF LettersAt
    <3>3. \A i \in 0..3 : i = 0 \/ i = 1 \/ i = 2 \/ i = 3
      OBVIOUS
    <3> QED BY <3>2, <3>3
  <2>4. n > 3
    <3>1. n \notin 0..3
      BY <2>2, <2>3
    <3> QED BY <3>1
  <2>5. s + 3 < p
    BY <1>4, <2>4
  <2>6. /\ CellAt(g, s) = CellAt(f, s) /\ CellAt(g, s + 1) = CellAt(f, s + 1)
        /\ CellAt(g, s + 2) = CellAt(f, s + 2) /\ CellAt(g, s + 3) = CellAt(f, s + 3)
    <3>1. s < p /\ s + 1 < p /\ s + 2 < p
      BY <2>5
    <3> QED BY <2>5, <3>1
  <2>7. LettersAt(g, s)
    BY <2>1, <2>6 DEF LettersAt
  <2> QED BY <2>7, SignatureIs
<1>7. BlockAt(g, e + 0, Block(B[j].type, s + 0, n))
  <2>1. \A q \in Int : e <= q /\ q <= TypeAt(f, e) => CellAt(g, q + 0) = CellAt(f, q)
    <3> TAKE q \in Int
    <3> HAVE e <= q /\ q <= TypeAt(f, e)
    <3>1. q <= t
      BY <1>1
    <3>2. q < p /\ q + 0 = q
      <4>1. t + 1 < s /\ s + n < p
        BY <1>1, <1>4
      <4> QED BY <3>1, <4>1
    <3> QED BY <3>2
  <2>2. t + 1 + 0 = t + 1 /\ t + 1 < p /\ s + 0 = s /\ e + 0 = e /\ 0 \in Int
    <3>1. t + 1 < s /\ s + n < p
      BY <1>1, <1>4
    <3> QED BY <3>1
  <2>3. CellAt(g, TypeAt(f, e) + 1 + 0)[1] = "len" /\ CellAt(g, TypeAt(f, e) + 1 + 0)[2] = n
    BY <1>1, <2>2, SMTT(30)
  <2>4. B[j].start + 0 + n <= Len(g)
    <3>1. Len(g) \in Nat
      BY Cells
    <3>2. s + 0 + n <= Len(g)
      BY <1>4, <3>1
    <3> QED BY <1>1, <3>2
  <2>5. B[j].type = BLOCKTYPE_COMPSCRIPT3 => SignatureAt(g, B[j].start + 0)
    BY <1>1, <1>6, <2>2
  <2>6. BlockAt(g, e + 0, Block(B[j].type, B[j].start + 0, n))
    BY <1>1, <1>5, <2>1, <2>2, <2>3, <2>4, <2>5, BlockMoves, SMTT(30)
  <2> QED BY <1>1, <2>6
<1>8. e + 0 = e /\ s + 0 = s
  OBVIOUS
<1> QED BY <1>1, <1>4, <1>7, <1>8

\* A block behind the script moves.
LEMMA BlockBehind ==
  ASSUME NEW f \in Files, NEW g \in Files, NEW B, Path(f, B), NEW z \in Nat, NEW d \in Int,
         RoomVersion(g) = RoomVersion(f), Len(g) = Len(f) + d, z + d \in Nat,
         \A q \in Int : z <= q => CellAt(g, q + d) = CellAt(f, q),
         NEW j \in 1..Len(B), z <= EndOf(B, j - 1), B[j].type # BLOCKTYPE_COMPSCRIPT3
  PROVE  /\ BlockAt(g, EndOf(B, j - 1) + d, Block(B[j].type, B[j].start + d, B[j].len))
         /\ B[j].start + d \in Nat /\ z <= B[j].start
<1>0. PICK e \in Nat, t \in Nat, s \in Nat, n \in Nat : Between(f, B, j, e, t, s, n)
  BY BlockBetween
<1>1. /\ e = EndOf(B, j - 1) /\ t = TypeAt(f, e) /\ s = B[j].start /\ n = B[j].len
      /\ EndOf(B, j) = s + n /\ e <= t /\ t + 1 < s /\ s + n <= Len(f)
      /\ BlockAt(f, e, B[j]) /\ B[j] \in BlockSet
      /\ CellAt(f, t + 1)[1] = "len" /\ CellAt(f, t + 1)[2] = n
  BY <1>0 DEF Between
<1>2. z <= e /\ Len(f) \in Nat
  BY <1>1, Cells
<1>3. e + d \in Nat /\ s + d \in Nat /\ z <= s /\ t + 1 \in Int /\ z <= t + 1
  <2>1. z <= e /\ e <= t /\ t + 1 < s
    BY <1>1, <1>2
  <2> QED BY <2>1
<1>4. \A q \in Int : e <= q /\ q <= TypeAt(f, e) => CellAt(g, q + d) = CellAt(f, q)
  <2> TAKE q \in Int
  <2> HAVE e <= q /\ q <= TypeAt(f, e)
  <2>1. z <= q
    BY <1>2
  <2> QED BY <2>1
<1>5. CellAt(g, TypeAt(f, e) + 1 + d)[1] = "len" /\ CellAt(g, TypeAt(f, e) + 1 + d)[2] = n
  <2>1. CellAt(g, t + 1 + d) = CellAt(f, t + 1)
    BY <1>3
  <2> QED BY <1>1, <2>1
<1>6. B[j].start + d + n <= Len(g)
  <2>1. s + n <= Len(f) /\ Len(f) \in Int
    BY <1>1, <1>2
  <2>2. s + d + n <= Len(f) + d
    BY <2>1
  <2> QED BY <1>1, <2>2
<1>7. BlockAt(g, e + d, Block(B[j].type, B[j].start + d, n))
  BY <1>1, <1>3, <1>4, <1>5, <1>6, BlockMoves
<1> QED BY <1>1, <1>3, <1>7

LEMMA BlockFields ==
  ASSUME NEW type, NEW start, NEW len
  PROVE  LET b == Block(type, start, len)
         IN  b.type = type /\ b.start = start /\ b.len = len
  BY DEF Block

\* The blocks are as many, and end where the blocks did or d cells further.
LEMMA NewEnds ==
  ASSUME NEW f \in Files, NEW B, Path(f, B), NEW k \in 1..Len(B), NEW d \in Int,
         B[k].len + d \in Nat, \A j \in 1..Len(B) : j > k => B[j].start + d \in Nat
  PROVE  LET C == NewBlocks(B, k, d)
         IN  /\ C \in Seq(BlockSet) /\ Len(C) = Len(B) /\ DOMAIN C = 1..Len(B)
             /\ \A j \in 1..Len(B) :
                   /\ j < k => C[j] = B[j]
                   /\ j = k => C[j] = Block(B[j].type, B[j].start, B[j].len + d)
                   /\ j > k => C[j] = Block(B[j].type, B[j].start + d, B[j].len)
             /\ \A j \in 0..Len(B) : EndOf(C, j) = IF j < k THEN EndOf(B, j) ELSE EndOf(B, j) + d
<1> DEFINE C == NewBlocks(B, k, d)
<1>1. Len(B) \in Nat /\ B \in Seq(BlockSet) /\ \A j \in 1..Len(B) : B[j] \in BlockSet
  BY PathBlock, LenProperties DEF Path
<1>2. ASSUME NEW j \in 1..Len(B)
      PROVE  /\ j < k => C[j] = B[j]
             /\ j = k => C[j] = Block(B[j].type, B[j].start, B[j].len + d)
             /\ j > k => C[j] = Block(B[j].type, B[j].start + d, B[j].len)
  <2>1. C[j] = IF j < k THEN B[j]
               ELSE IF j = k THEN Block(B[j].type, B[j].start, B[j].len + d)
               ELSE Block(B[j].type, B[j].start + d, B[j].len)
    BY DEF NewBlocks
  <2>2. (j < k => ~(j = k)) /\ (j > k => ~(j < k) /\ ~(j = k)) /\ (j = k => ~(j < k))
    BY <1>1
  <2> QED BY <2>1, <2>2
<1>3. ASSUME NEW j \in 1..Len(B) PROVE C[j] \in BlockSet
  <2>1. B[j].type \in {c[2] : c \in CELLS} /\ B[j].start \in Nat /\ B[j].len \in Nat
    BY <1>1 DEF BlockSet
  <2>2. CASE j < k
    BY <1>1, <1>2, <2>2
  <2>3. CASE j = k
    <3>1. C[j] = Block(B[j].type, B[j].start, B[j].len + d) /\ B[j].len + d \in Nat
      BY <1>2, <2>3
    <3> QED BY <2>1, <3>1 DEF Block, BlockSet
  <2>4. CASE j > k
    <3>1. C[j] = Block(B[j].type, B[j].start + d, B[j].len) /\ B[j].start + d \in Nat
      BY <1>2, <2>4
    <3> QED BY <2>1, <3>1 DEF Block, BlockSet
  <2>5. j < k \/ j = k \/ j > k
    BY <1>1
  <2> QED BY <2>2, <2>3, <2>4, <2>5
<1>4. C = [j \in 1..Len(B) |-> C[j]] /\ DOMAIN C = 1..Len(B)
  BY DEF NewBlocks
<1> HIDE DEF C
<1>5. C \in [1..Len(B) -> BlockSet]
  BY <1>3, <1>4
<1>6. C \in Seq(BlockSet) /\ Len(C) = Len(B)
  <2>1. C \in Seq(BlockSet)
    BY <1>1, <1>5, SeqDef
  <2> QED BY <1>1, <1>4, <2>1, LenProperties
<1>7. ASSUME NEW j \in 0..Len(B)
      PROVE  EndOf(C, j) = IF j < k THEN EndOf(B, j) ELSE EndOf(B, j) + d
  <2>1. CASE j = 0
    <3>1. j < k
      BY <1>1, <2>1
    <3> QED BY <2>1, <3>1 DEF EndOf
  <2>2. CASE j # 0
    <3>1. j \in 1..Len(B)
      BY <1>1, <2>2
    <3>2. PICK a \in Nat, b \in Nat : a = B[j].start /\ b = B[j].len
      BY <1>1, <3>1 DEF BlockSet
    <3>3. EndOf(B, j) = a + b /\ EndOf(C, j) = C[j].start + C[j].len
      BY <2>2, <3>2 DEF EndOf
    <3>4. CASE j < k
      BY <1>2, <3>1, <3>2, <3>3, <3>4
    <3>5. CASE j = k
      <4>1. C[j].start = a /\ C[j].len = b + d
        <5>1. C[j] = Block(B[j].type, a, b + d)
          BY <1>2, <3>1, <3>2, <3>5
        <5> QED BY <5>1, BlockFields
      <4>2. ~(j < k) /\ a + (b + d) = (a + b) + d
        BY <3>5
      <4> QED BY <3>3, <4>1, <4>2
    <3>6. CASE j > k
      <4>1. C[j].start = a + d /\ C[j].len = b
        <5>1. C[j] = Block(B[j].type, a + d, b)
          BY <1>2, <3>1, <3>2, <3>6
        <5> QED BY <5>1, BlockFields
      <4>2. ~(j < k) /\ (a + d) + b = (a + b) + d
        BY <3>6
      <4> QED BY <3>3, <4>1, <4>2
    <3>7. j < k \/ j = k \/ j > k
      BY <1>1
    <3> QED BY <3>4, <3>5, <3>6, <3>7
  <2> QED BY <2>1, <2>2
<1> QED BY <1>2, <1>4, <1>6, <1>7 DEF C

EndsMoved(C, B, k, d) ==
  /\ C \in Seq(BlockSet) /\ Len(C) = Len(B)
  /\ \A j \in 1..Len(B) :
        /\ j < k => C[j] = B[j]
        /\ j = k => C[j] = Block(B[j].type, B[j].start, B[j].len + d)
        /\ j > k => C[j] = Block(B[j].type, B[j].start + d, B[j].len)
  /\ \A j \in 0..Len(B) : EndOf(C, j) = IF j < k THEN EndOf(B, j) ELSE EndOf(B, j) + d

LEMMA EndsMove ==
  ASSUME NEW f \in Files, NEW B, Path(f, B), NEW k \in 1..Len(B), NEW d \in Int,
         B[k].len + d \in Nat, \A j \in 1..Len(B) : j > k => B[j].start + d \in Nat
  PROVE  EndsMoved(NewBlocks(B, k, d), B, k, d)
<1> DEFINE C == NewBlocks(B, k, d)
<1>1. /\ C \in Seq(BlockSet) /\ Len(C) = Len(B) /\ DOMAIN C = 1..Len(B)
      /\ \A j \in 1..Len(B) :
            /\ j < k => C[j] = B[j]
            /\ j = k => C[j] = Block(B[j].type, B[j].start, B[j].len + d)
            /\ j > k => C[j] = Block(B[j].type, B[j].start + d, B[j].len)
      /\ \A j \in 0..Len(B) : EndOf(C, j) = IF j < k THEN EndOf(B, j) ELSE EndOf(B, j) + d
  BY NewEnds
<1> HIDE DEF C
<1>2. EndsMoved(C, B, k, d)
  BY <1>1 DEF EndsMoved
<1> QED BY <1>2 DEF C

\* A room whose script has become another is a room: each block is one of it, at
\* its place, with its length, and the end is behind the last one.
LEMMA RoomReplaced ==
  ASSUME NEW g, NEW f, NEW B, NEW k, NEW o, RoomBecomes(g, f, B, k, o),
         NEW d, d = Len(o) - B[k].len
  PROVE  /\ g \in Files /\ Len(g) = Len(f) + d /\ d \in Int
         /\ ReadsAs(g, NewBlocks(B, k, d)) /\ RoomVersion(g) = RoomVersion(f)
         /\ B[k].len + d = Len(o) /\ \A j \in 1..Len(B) : j > k => B[j].start + d \in Nat
<1> DEFINE C == NewBlocks(B, k, d)
<1>1. /\ k \in 1..Len(B) /\ Len(B) \in Nat /\ B[k] \in BlockSet /\ Path(f, B) /\ f \in Files
      /\ o \in Files /\ Len(o) \in Nat /\ Len(o) >= 6
  BY RoomCellsAre
<1>2. PICK p \in Nat, s \in Nat, n \in Nat, w \in {1, 2}, c \in Int :
         RoomPlaces(g, f, B, k, o, p, s, n, w, c)
  BY RoomCellsAre
<1>3. PICK l \in Nat : l = Len(o)
  BY <1>1
<1>4. /\ p = TypeAt(f, EndOf(B, k - 1)) + 1 /\ s = p + w /\ s = B[k].start /\ n = B[k].len
      /\ s + n <= Len(f) /\ p > 1
  BY <1>2, <1>3 DEF RoomPlaces
<1>5. g \in Files /\ Len(g) = Len(f) + c /\ c = l - n /\ CellAt(g, p) = <<"len", l>>
  BY <1>2, <1>3 DEF RoomPlaces, RoomCells
<1>18. \A q \in Int : 0 <= q /\ q < l => CellAt(g, s + q) = CellAt(o, q)
  BY <1>2, <1>3 DEF RoomPlaces
<1>19. /\ \A q \in Int : q < p => CellAt(g, q) = CellAt(f, q)
       /\ \A q \in Int : s + n <= q => CellAt(g, q + c) = CellAt(f, q)
  BY <1>2, <1>3 DEF RoomPlaces, RoomCells
<1>6. c = d /\ B[k].len + d = l
  <2>1. d = l - n
    BY <1>3, <1>4
  <2>2. n + (l - n) = l
    OBVIOUS
  <2> QED BY <1>4, <1>5, <2>1, <2>2
<1>7. PICK lf \in Nat, lg \in Nat : lf = Len(f) /\ lg = Len(g)
  BY <1>1, <1>5, Cells
<1>8. PICK z \in Nat : z = s + n /\ z + d \in Nat /\ z + d = s + l /\ z + d <= Len(g)
  <2>1. s + n <= lf /\ lg = lf + d /\ d = l - n
    BY <1>4, <1>5, <1>6, <1>7
  <2>2. s + n \in Nat /\ s + n + d = s + l /\ s + l \in Nat /\ s + l <= lg
    BY <2>1
  <2> QED BY <1>7, <2>2
<1>9. RoomVersion(g) = RoomVersion(f)
  <2>1. CellAt(g, 0) = CellAt(f, 0)
    BY <1>4, <1>19
  <2> QED BY <2>1 DEF RoomVersion
<1>10. EndOf(B, k) = z /\ k \in 0..Len(B)
  <2>1. EndOf(B, k) = B[k].start + B[k].len
    BY <1>1, PathBlock
  <2>2. EndOf(B, k) = s + n
    BY <1>4, <2>1
  <2> QED BY <1>1, <1>8, <2>2
<1>11. ASSUME NEW j \in 1..Len(B), j > k
       PROVE  /\ BlockAt(g, EndOf(B, j - 1) + d, Block(B[j].type, B[j].start + d, B[j].len))
              /\ B[j].start + d \in Nat
  <2>1. B[j].type # BLOCKTYPE_COMPSCRIPT3
    <3>1. ~(j <= k)
      BY <1>1, <1>11
    <3> QED BY <3>1 DEF RoomBecomes, LastOf
  <2>2. z <= EndOf(B, j - 1)
    <3>1. j - 1 \in 0..Len(B) /\ k <= j - 1
      BY <1>1, <1>11
    <3> QED BY <1>1, <1>10, <3>1, PathMonotone
  <2>3. \A q \in Int : z <= q => CellAt(g, q + d) = CellAt(f, q)
    BY <1>6, <1>8, <1>19
  <2>4. Len(g) = Len(f) + d /\ d \in Int
    BY <1>5, <1>6
  <2> QED BY <1>1, <1>5, <1>8, <1>9, <2>1, <2>2, <2>3, <2>4, BlockBehind, ZenonT(60)
<1>12. /\ C \in Seq(BlockSet) /\ Len(C) = Len(B)
       /\ \A j \in 1..Len(B) :
             /\ j < k => C[j] = B[j]
             /\ j = k => C[j] = Block(B[j].type, B[j].start, B[j].len + d)
             /\ j > k => C[j] = Block(B[j].type, B[j].start + d, B[j].len)
       /\ \A j \in 0..Len(B) : EndOf(C, j) = IF j < k THEN EndOf(B, j) ELSE EndOf(B, j) + d
  <2>1. d \in Int /\ B[k].len + d \in Nat
    BY <1>6
  <2>2. \A j \in 1..Len(B) : j > k => B[j].start + d \in Nat
    BY <1>11
  <2>3. k \in 1..Len(B) /\ Path(f, B) /\ f \in Files
    BY <1>1
  <2>4. EndsMoved(C, B, k, d)
    BY <2>1, <2>2, <2>3, EndsMove
  <2> HIDE DEF C
  <2> QED BY <2>4 DEF EndsMoved
<1> HIDE DEF C
<1>13. ASSUME NEW j \in 1..Len(B), j < k PROVE BlockAt(g, EndOf(C, j - 1), C[j])
  <2>1. j - 1 \in 0..Len(B) /\ j - 1 < k
    <3>1. Len(B) \in Nat /\ k \in 1..Len(B)
      BY <1>1
    <3> QED BY <1>13, <3>1
  <2>2. EndOf(C, j - 1) = EndOf(B, j - 1) /\ C[j] = B[j]
    BY <1>12, <1>13, <2>1
  <2>3. p <= Len(g)
    <3>1. p <= s + l
      <4>1. s = p + w
        BY <1>4
      <4> QED BY <4>1
    <3>2. s + l <= lg
      BY <1>7, <1>8
    <3>3. p <= lg
      BY <3>1, <3>2
    <3> QED BY <1>7, <3>3
  <2>4. \A q \in Int : q < p => CellAt(g, q) = CellAt(f, q)
    BY <1>19
  <2> QED BY <1>1, <1>4, <1>5, <1>13, <2>2, <2>3, <2>4, BlockStays, Zenon
<1>14. BlockAt(g, EndOf(C, k - 1), C[k])
  <2>1. k - 1 \in 0..Len(B) /\ k - 1 < k
    BY <1>1
  <2>2. PICK e \in Nat, t \in Nat, x \in Nat, y \in Nat : Between(f, B, k, e, t, x, y)
    BY <1>1, BlockBetween
  <2>3. /\ e = EndOf(B, k - 1) /\ t = TypeAt(f, e) /\ e <= t /\ BlockAt(f, e, B[k])
    BY <2>2 DEF Between
  <2>4. p = t + 1
    BY <1>4, <2>3
  <2>5. \A q \in Int : e <= q /\ q <= TypeAt(f, e) => CellAt(g, q + 0) = CellAt(f, q)
    <3> TAKE q \in Int
    <3> HAVE e <= q /\ q <= TypeAt(f, e)
    <3>1. q <= t
      BY <2>3
    <3>2. q < p /\ q + 0 = q
      BY <2>4, <3>1
    <3> QED BY <1>19, <3>2
  <2>6. CellAt(g, TypeAt(f, e) + 1 + 0)[1] = "len" /\ CellAt(g, TypeAt(f, e) + 1 + 0)[2] = l
    <3>1. TypeAt(f, e) + 1 + 0 = p
      BY <2>3, <2>4
    <3> QED BY <1>5, <3>1
  <2>7. B[k].start + 0 + l <= Len(g) /\ B[k].start + 0 = s /\ e + 0 = e
    <3>1. s + 0 + l <= Len(g) /\ s + 0 = s /\ e + 0 = e
      <4>1. s + l <= lg
        BY <1>7, <1>8
      <4>2. s + 0 + l <= lg /\ s + 0 = s /\ e + 0 = e
        BY <4>1
      <4> QED BY <1>7, <4>2
    <3> QED BY <1>4, <3>1
  <2>8. SignatureAt(g, s)
    <3>1. Measured(o)
      BY DEF RoomBecomes
    <3>2. LettersAt(o, 0)
      <4>1. ASI_read_script(o, 0) = l /\ l # 0
        BY <1>1, <1>3, <3>1 DEF Measured
      <4> QED BY <1>1, <4>1, ScriptIs
    <3>3. /\ CellAt(g, s + 0) = CellAt(o, 0) /\ CellAt(g, s + 1) = CellAt(o, 1)
          /\ CellAt(g, s + 2) = CellAt(o, 2) /\ CellAt(g, s + 3) = CellAt(o, 3)
      <4>1. 0 < l /\ 1 < l /\ 2 < l /\ 3 < l
        <5>1. l >= 6
          BY <1>1, <1>3
        <5> QED BY <5>1
      <4> QED BY <1>18, <4>1
    <3>4. s + 0 = s /\ 0 + 1 = 1 /\ 0 + 2 = 2 /\ 0 + 3 = 3
      OBVIOUS
    <3>5. LettersAt(g, s)
      BY <3>2, <3>3, <3>4 DEF LettersAt
    <3> QED BY <3>5, SignatureIs
  <2>9. BlockAt(g, e + 0, Block(B[k].type, B[k].start + 0, l))
    <3>1. B[k].type = BLOCKTYPE_COMPSCRIPT3 => SignatureAt(g, B[k].start + 0)
      BY <2>7, <2>8
    <3>2. e + 0 \in Nat /\ 0 \in Int
      BY <2>7
    <3> QED BY <1>1, <1>5, <1>9, <2>3, <2>5, <2>6, <2>7, <3>1, <3>2, BlockMoves, ZenonT(60)
  <2>10. C[k] = Block(B[k].type, B[k].start, l)
    BY <1>1, <1>6, <1>12
  <2>11. EndOf(C, k - 1) = e
    BY <1>12, <2>1, <2>3
  <2> QED BY <1>4, <2>7, <2>9, <2>10, <2>11
<1>15. ASSUME NEW j \in 1..Len(B), j > k PROVE BlockAt(g, EndOf(C, j - 1), C[j])
  <2>1. j - 1 \in 0..Len(B) /\ ~(j - 1 < k)
    BY <1>1, <1>15
  <2>2. EndOf(C, j - 1) = EndOf(B, j - 1) + d
    BY <1>12, <2>1
  <2> QED BY <1>11, <1>12, <1>15, <2>2
<1>16. Path(g, C)
  <2>1. \A j \in 1..Len(B) : j < k \/ j = k \/ j > k
    BY <1>1
  <2> QED BY <1>12, <1>13, <1>14, <1>15, <2>1 DEF Path
<1>17. EndAt(g, EndOf(C, Len(C)))
  <2>1. Len(B) \in 0..Len(B) /\ ~(Len(B) < k)
    BY <1>1
  <2>2. PICK e : e = EndOf(B, Len(B))
    OBVIOUS
  <2>3. e \in Nat /\ z <= e
    BY <1>1, <1>10, <2>1, <2>2, PathEnds, PathMonotone
  <2>4. CellAt(g, e + d) = CellAt(f, e) /\ CellAt(g, e + 1 + d) = CellAt(f, e + 1)
    <3>1. z <= e + 1
      BY <2>3
    <3>2. \A q \in Int : z <= q => CellAt(g, q + d) = CellAt(f, q)
      BY <1>6, <1>8, <1>19
    <3> QED BY <2>3, <3>1, <3>2
  <2>5. EndAt(f, e)
    BY <2>2 DEF RoomBecomes, ReadsAs
  <2>6. EndAt(g, e + d)
    BY <1>6, <2>3, <2>4, <2>5, EndMoves
  <2>7. EndOf(C, Len(C)) = e + d
    BY <1>12, <2>1, <2>2
  <2> QED BY <2>6, <2>7
<1> QED BY <1>3, <1>5, <1>6, <1>9, <1>11, <1>16, <1>17 DEF ReadsAs, C

\* The part of a file that has the cells of o is o.
LEMMA PartIs ==
  ASSUME NEW f \in Files, NEW o \in Files, NEW s \in Nat, NEW l \in Nat, l = Len(o),
         s + l <= Len(f), \A q \in Int : 0 <= q /\ q < l => CellAt(f, s + q) = CellAt(o, q)
  PROVE  SubSeq(f, s + 1, s + l) = o
<1>1. s + 1 \in Nat \ {0} /\ s + l \in Nat /\ s + 1 <= (s + l) + 1 /\ (s + l) - (s + 1) + 1 = l
      /\ s + 1 - 1 = s
  OBVIOUS
<1>2. PICK m \in Nat, n \in Nat : m = s + 1 /\ n = s + l /\ n - m + 1 = l /\ m - 1 = s
  BY <1>1
<1>3. /\ SubSeq(f, m, n) \in Files /\ Len(SubSeq(f, m, n)) = n - m + 1
      /\ \A q \in Int : 0 <= q /\ q < n - m + 1 =>
            CellAt(SubSeq(f, m, n), q) = CellAt(f, m - 1 + q)
  <2>1. m \in Nat \ {0} /\ n <= Len(f) /\ m <= n + 1
    BY <1>1, <1>2
  <2> QED BY <2>1, Part
<1>4. PICK h : h = SubSeq(f, m, n)
  OBVIOUS
<1>5. h \in Files /\ Len(h) = l /\ \A q \in Int : 0 <= q /\ q < l => CellAt(h, q) = CellAt(f, s + q)
  BY <1>2, <1>3, <1>4
<1>6. \A p \in 0..Len(h) - 1 : CellAt(h, p) = CellAt(o, p)
  <2> TAKE p \in 0..Len(h) - 1
  <2>1. p \in Int /\ 0 <= p /\ p < l
    BY <1>5
  <2> QED BY <1>5, <2>1
<1>7. h = o
  BY <1>5, <1>6, SameFile
<1> QED BY <1>2, <1>4, <1>7

\* The b cells of g from x on are those of f from a on.
SameCells(g, x, f, a, b) ==
  /\ a + b <= Len(f) /\ x + b <= Len(g)
  /\ \A q \in Int : 0 <= q /\ q < b => CellAt(g, x + q) = CellAt(f, a + q)

PartOf(f, a, b) == SubSeq(f, a + 1, a + b)

LEMMA SamePart ==
  ASSUME NEW f \in Files, NEW g \in Files, NEW a \in Nat, NEW x \in Nat, NEW b \in Nat,
         SameCells(g, x, f, a, b)
  PROVE  PartOf(g, x, b) = PartOf(f, a, b)
<1> DEFINE h == SubSeq(f, a + 1, a + b)
<1>1. a + 1 \in Nat \ {0} /\ a + b \in Nat /\ a + 1 <= (a + b) + 1 /\ (a + b) - (a + 1) + 1 = b
      /\ a + 1 - 1 = a
  OBVIOUS
<1>2. PICK m \in Nat \ {0}, n \in Nat :
         m = a + 1 /\ n = a + b /\ n - m + 1 = b /\ m - 1 = a /\ m <= n + 1
  BY <1>1
<1>3. /\ SubSeq(f, m, n) \in Files /\ Len(SubSeq(f, m, n)) = n - m + 1
      /\ \A q \in Int : 0 <= q /\ q < n - m + 1 =>
            CellAt(SubSeq(f, m, n), q) = CellAt(f, m - 1 + q)
  <2>1. n <= Len(f)
    BY <1>2 DEF SameCells
  <2> QED BY <1>2, <2>1, Part
<1>4. h \in Files /\ Len(h) = b /\ \A q \in Int : 0 <= q /\ q < b => CellAt(h, q) = CellAt(f, a + q)
  BY <1>2, <1>3
<1> HIDE DEF h
<1>5. x + b <= Len(g) /\ \A q \in Int : 0 <= q /\ q < b => CellAt(g, x + q) = CellAt(h, q)
  BY <1>4 DEF SameCells
<1>6. SubSeq(g, x + 1, x + b) = h
  BY <1>4, <1>5, PartIs
<1> QED BY <1>6 DEF h, PartOf

\* What a room holds, by its blocks.
ContentAt(f, B, j) == <<B[j].type, SubSeq(f, B[j].start + 1, B[j].start + B[j].len)>>

LEMMA ContentsAre ==
  ASSUME NEW f \in Files, NEW B, ReadsAs(f, B)
  PROVE  /\ RoomFile_read(f).outcome = "ok" /\ DOMAIN RoomContents(f) = 1..Len(B)
         /\ \A j \in 1..Len(B) : RoomContents(f)[j] = ContentAt(f, B, j)
         /\ \A k : k \in LastScript(RoomContents(f)) <=> LastOf(B, BLOCKTYPE_COMPSCRIPT3, k)
<1>1. RoomFile_read(f).outcome = "ok" /\ RoomFile_read(f).blocks = B
  BY RoomReadAs
<1>2. DOMAIN B = 1..Len(B)
  BY LenProperties DEF ReadsAs, Path
<1>3. RoomContents(f) =
        [k \in 1..Len(B) |-> <<B[k].type, SubSeq(f, B[k].start + 1, B[k].start + B[k].len)>>]
  BY <1>1, <1>2 DEF RoomContents
<1>4. DOMAIN RoomContents(f) = 1..Len(B)
      /\ \A j \in 1..Len(B) : RoomContents(f)[j] = ContentAt(f, B, j)
  BY <1>3 DEF ContentAt
<1>5. \A j \in 1..Len(B) : RoomContents(f)[j][1] = B[j].type
  BY <1>4 DEF ContentAt
<1>6. \A k : k \in LastScript(RoomContents(f)) <=> LastOf(B, BLOCKTYPE_COMPSCRIPT3, k)
  BY <1>4, <1>5 DEF LastScript, LastOf
<1> QED BY <1>1, <1>4, <1>6

\* Only the script of a room becomes another: every other block holds what it held.
LEMMA OthersStay ==
  ASSUME NEW g, NEW f, NEW B, NEW k, NEW o, RoomBecomes(g, f, B, k, o),
         NEW d, d = Len(o) - B[k].len, NEW j \in 1..Len(B), j # k
  PROVE  ContentAt(g, NewBlocks(B, k, d), j) = ContentAt(f, B, j)
<1> DEFINE C == NewBlocks(B, k, d)
<1>1. /\ k \in 1..Len(B) /\ Len(B) \in Nat /\ Path(f, B) /\ f \in Files
  BY RoomCellsAre
<1>2. PICK p \in Nat, s \in Nat, n \in Nat, w \in {1, 2}, c \in Int :
         RoomPlaces(g, f, B, k, o, p, s, n, w, c)
  BY RoomCellsAre
<1>3. p = TypeAt(f, EndOf(B, k - 1)) + 1 /\ s = B[k].start /\ n = B[k].len
  BY <1>2 DEF RoomPlaces
<1>4. g \in Files /\ Len(g) = Len(f) + c /\ c = Len(o) - n
  BY <1>2 DEF RoomPlaces, RoomCells
<1>5. /\ \A q \in Int : q < p => CellAt(g, q) = CellAt(f, q)
      /\ \A q \in Int : s + n <= q => CellAt(g, q + c) = CellAt(f, q)
  BY <1>2 DEF RoomPlaces, RoomCells
<1>6. c = d
  BY <1>3, <1>4
<1>7. PICK lf \in Nat, lg \in Nat : lf = Len(f) /\ lg = Len(g) /\ lg = lf + d
  BY <1>1, <1>4, <1>6, Cells
<1>8. ReadsAs(g, C) /\ Path(g, C) /\ C \in Seq(BlockSet)
  BY RoomReplaced DEF ReadsAs, Path
<1>9. /\ d \in Int /\ B[k].len + d \in Nat
      /\ \A i \in 1..Len(B) : i > k => B[i].start + d \in Nat
  <2>1. B[k].len + d = Len(o) /\ Len(o) \in Nat /\ d \in Int
    BY RoomReplaced, RoomCellsAre
  <2> QED BY <2>1, RoomReplaced
<1>10. /\ Len(C) = Len(B)
       /\ j < k => C[j] = B[j]
       /\ j > k => C[j] = Block(B[j].type, B[j].start + d, B[j].len)
  BY <1>1, <1>9, NewEnds, SMTT(30)
<1> HIDE DEF C
<1>11. PICK a \in Nat, b \in Nat : /\ a = B[j].start /\ b = B[j].len /\ a + b = EndOf(B, j)
                                   /\ a + b <= lf
  <2>1. PICK e \in Nat, t \in Nat, x \in Nat, y \in Nat : Between(f, B, j, e, t, x, y)
    BY <1>1, BlockBetween
  <2> QED BY <1>7, <2>1 DEF Between
<1>12. CASE j < k
  <2>1. a + b < p
    <3>1. p <= Len(g)
      <4>1. PICK l \in Nat : l = Len(o)
        BY RoomCellsAre
      <4>2. s = p + w /\ s + n <= lf /\ d = l - n
        BY <1>2, <1>4, <1>6, <1>7, <4>1 DEF RoomPlaces
      <4>3. p <= lg
        <5>1. lg = lf + (l - n)
          BY <1>7, <4>2
        <5> QED BY <4>2, <5>1
      <4> QED BY <1>7, <4>3
    <3>2. BlockAt(g, EndOf(B, j - 1), B[j]) /\ EndOf(B, j) < p
      BY <1>1, <1>3, <1>4, <1>5, <1>12, <3>1, BlockStays, ZenonT(60)
    <3> QED BY <1>11, <3>2
  <2>2. C[j] = B[j]
    BY <1>10, <1>12
  <2>3. \A q \in Int : 0 <= q /\ q < b => CellAt(g, a + q) = CellAt(f, a + q)
    <3> TAKE q \in Int
    <3> HAVE 0 <= q /\ q < b
    <3>1. a + q \in Int /\ a + q < p
      BY <2>1
    <3> QED BY <1>5, <3>1
  <2>4. a + b <= lg
    <3>1. PICK x \in Nat, y \in Nat : x = C[j].start /\ y = C[j].len /\ x + y <= Len(g)
      <4>1. PICK e \in Nat, t \in Nat, u \in Nat, v \in Nat : Between(g, C, j, e, t, u, v)
        BY <1>4, <1>8, <1>10, BlockBetween
      <4> QED BY <4>1 DEF Between
    <3>2. x = a /\ y = b
      BY <1>11, <2>2, <3>1
    <3>3. x + y <= lg
      BY <1>7, <3>1
    <3> QED BY <3>2, <3>3
  <2>5. SubSeq(g, a + 1, a + b) = SubSeq(f, a + 1, a + b)
    <3>1. f \in Files /\ g \in Files /\ lf = Len(f) /\ lg = Len(g)
      BY <1>1, <1>4, <1>7
    <3>2. a + b <= lf /\ a + b <= lg
      BY <1>11, <2>4
    <3>3. SameCells(g, a, f, a, b)
      BY <2>3, <3>1, <3>2 DEF SameCells
    <3>4. PartOf(g, a, b) = PartOf(f, a, b)
      BY <3>1, <3>3, SamePart
    <3> QED BY <3>4, Zenon DEF PartOf
  <2> QED BY <1>11, <2>2, <2>5 DEF ContentAt, C
<1>13. CASE j > k
  <2>1. s + n <= a
    <3>1. B[j].type # BLOCKTYPE_COMPSCRIPT3
      <4>1. ~(j <= k)
        BY <1>1, <1>13
      <4> QED BY <4>1 DEF RoomBecomes, LastOf
    <3>2. s + n = EndOf(B, k) /\ k \in 0..Len(B) /\ j - 1 \in 0..Len(B) /\ k <= j - 1
      BY <1>1, <1>3, <1>13, PathBlock
    <3>3. PICK e \in Nat, t \in Nat, x \in Nat, y \in Nat : Between(f, B, j, e, t, x, y)
      BY <1>1, BlockBetween
    <3>4. e = EndOf(B, j - 1) /\ a = x /\ e <= t /\ t + 1 < x
      BY <1>11, <3>3 DEF Between
    <3>5. s + n <= e
      BY <1>1, <3>2, <3>4, PathMonotone
    <3> QED BY <3>4, <3>5
  <2>2. PICK x \in Nat : x = a + d /\ C[j].start = x /\ C[j].len = b /\ C[j].type = B[j].type
    BY <1>9, <1>10, <1>11, <1>13, BlockFields, SMTT(30)
  <2>3. \A q \in Int : 0 <= q /\ q < b => CellAt(g, x + q) = CellAt(f, a + q)
    <3> TAKE q \in Int
    <3> HAVE 0 <= q /\ q < b
    <3>1. a + q \in Int /\ s + n <= a + q /\ (a + q) + d = x + q
      <4>1. d \in Int /\ x = a + d
        BY <1>9, <2>2
      <4> QED BY <2>1, <4>1, SMTT(30)
    <3> QED BY <1>5, <1>6, <3>1
  <2>4. x + b <= lg
    <3>1. x = a + c /\ lg = lf + c /\ a + b <= lf
      BY <1>6, <1>7, <1>11, <2>2
    <3> QED BY <3>1
  <2>5. SubSeq(g, x + 1, x + b) = SubSeq(f, a + 1, a + b)
    <3>1. f \in Files /\ g \in Files /\ lf = Len(f) /\ lg = Len(g)
      BY <1>1, <1>4, <1>7
    <3>2. a + b <= lf /\ x + b <= lg
      BY <1>11, <2>4
    <3>3. SameCells(g, x, f, a, b)
      BY <2>3, <3>1, <3>2 DEF SameCells
    <3>4. PartOf(g, x, b) = PartOf(f, a, b)
      BY <3>1, <3>3, SamePart
    <3> QED BY <3>4, Zenon DEF PartOf
  <2> QED BY <1>11, <2>2, <2>5 DEF ContentAt, C
<1>14. j < k \/ j > k
  BY <1>1
<1> QED BY <1>12, <1>13, <1>14

\* g is the room f with o for its script, which is the k-th block.
RoomWith(g, f, k, o) ==
  LET old == RoomContents(f)
      new == RoomContents(g)
  IN  /\ g \in Files /\ RoomFile_read(g).outcome = "ok" /\ Forward(g)
      /\ DOMAIN new = DOMAIN old /\ LastScript(new) = LastScript(old) /\ LastScript(old) = {k}
      /\ k \in DOMAIN old /\ new[k][1] = old[k][1] /\ new[k][2] = o
      /\ \A j \in DOMAIN old : j # k => new[j] = old[j]

\* The script of the new room is the object, and it is the last one again.
LEMMA ContentsBecome ==
  ASSUME NEW g, NEW f, NEW B, NEW k, NEW o, RoomBecomes(g, f, B, k, o)
  PROVE  RoomWith(g, f, k, o)
<1>1. PICK d : d = Len(o) - B[k].len
  OBVIOUS
<1>2. PICK C : C = NewBlocks(B, k, d)
  OBVIOUS
<1>3. /\ k \in 1..Len(B) /\ Len(B) \in Nat /\ Path(f, B) /\ f \in Files
      /\ ReadsAs(f, B) /\ LastOf(B, BLOCKTYPE_COMPSCRIPT3, k)
  BY RoomCellsAre DEF RoomBecomes
<1>4. /\ g \in Files /\ ReadsAs(g, C) /\ d \in Int /\ B[k].len + d = Len(o)
      /\ \A i \in 1..Len(B) : i > k => B[i].start + d \in Nat
  BY <1>1, <1>2, RoomReplaced
<1>5. Len(o) \in Nat /\ o \in Files
  BY RoomCellsAre
<1>6. /\ Len(C) = Len(B)
      /\ \A j \in 1..Len(B) :
            /\ j < k => C[j] = B[j]
            /\ j = k => C[j] = Block(B[j].type, B[j].start, B[j].len + d)
            /\ j > k => C[j] = Block(B[j].type, B[j].start + d, B[j].len)
  <2>1. B[k].len + d \in Nat
    BY <1>4, <1>5
  <2> QED BY <1>2, <1>3, <1>4, <2>1, NewEnds
<1>7. ASSUME NEW j \in 1..Len(B) PROVE C[j].type = B[j].type
  <2>1. j < k \/ j = k \/ j > k
    BY <1>3
  <2> QED BY <1>6, <2>1, BlockFields
<1>8. PICK s \in Nat, l \in Nat : /\ s = B[k].start /\ l = Len(o) /\ C[k].start = s /\ C[k].len = l
                                  /\ C[k].type = B[k].type
  <2>1. B[k].start \in Nat
    BY <1>3, PathBlock DEF BlockSet
  <2>2. C[k] = Block(B[k].type, B[k].start, Len(o))
    BY <1>3, <1>4, <1>6
  <2> QED BY <1>5, <2>1, <2>2, BlockFields
<1>9. SubSeq(g, s + 1, s + l) = o
  <2>1. PICK p \in Nat, x \in Nat, n \in Nat, w \in {1, 2}, c \in Int :
           RoomPlaces(g, f, B, k, o, p, x, n, w, c)
    BY RoomCellsAre
  <2>2. x = s /\ \A q \in Int : 0 <= q /\ q < l => CellAt(g, s + q) = CellAt(o, q)
    BY <1>8, <2>1 DEF RoomPlaces
  <2>3. s + l <= Len(g)
    <3>1. PICK e \in Nat, t \in Nat, u \in Nat, v \in Nat : Between(g, C, k, e, t, u, v)
      BY <1>3, <1>4, <1>6, BlockBetween DEF ReadsAs
    <3> QED BY <1>8, <3>1 DEF Between
  <2> QED BY <1>4, <1>5, <1>8, <2>2, <2>3, PartIs
<1>10. ContentAt(g, C, k) = <<B[k].type, o>>
  BY <1>8, <1>9 DEF ContentAt
<1>11. \A j \in 1..Len(B) : j # k => ContentAt(g, C, j) = ContentAt(f, B, j)
  BY <1>1, <1>2, OthersStay
<1>12. LastOf(C, BLOCKTYPE_COMPSCRIPT3, k) /\ \A i : LastOf(C, BLOCKTYPE_COMPSCRIPT3, i) <=> LastOf(B, BLOCKTYPE_COMPSCRIPT3, i)
  BY <1>3, <1>6, <1>7 DEF LastOf
<1>20. Forward(g)
  <2>1. RoomFile_read(g).blocks = C /\ C \in Seq(BlockSet)
    BY <1>4, RoomReadAs DEF ReadsAs, Path
  <2> QED BY <1>4, <2>1, ForwardIs
<1>13. /\ RoomFile_read(g).outcome = "ok" /\ DOMAIN RoomContents(g) = 1..Len(C)
       /\ \A j \in 1..Len(C) : RoomContents(g)[j] = ContentAt(g, C, j)
       /\ \A i : i \in LastScript(RoomContents(g)) <=> LastOf(C, BLOCKTYPE_COMPSCRIPT3, i)
  BY <1>4, ContentsAre
<1>14. /\ DOMAIN RoomContents(f) = 1..Len(B)
       /\ \A j \in 1..Len(B) : RoomContents(f)[j] = ContentAt(f, B, j)
       /\ \A i : i \in LastScript(RoomContents(f)) <=> LastOf(B, BLOCKTYPE_COMPSCRIPT3, i)
  BY <1>3, ContentsAre
<1>15. LastScript(RoomContents(g)) = LastScript(RoomContents(f))
  BY <1>12, <1>13, <1>14
<1>16. /\ RoomContents(g)[k] = <<B[k].type, o>> /\ RoomContents(f)[k][1] = B[k].type
       /\ k \in LastScript(RoomContents(f))
  <2>1. RoomContents(g)[k] = <<B[k].type, o>>
    BY <1>3, <1>6, <1>10, <1>13
  <2>2. RoomContents(f)[k] = ContentAt(f, B, k)
    BY <1>3, <1>14
  <2>3. ContentAt(f, B, k)[1] = B[k].type
    BY DEF ContentAt
  <2> QED BY <1>3, <1>14, <2>1, <2>2, <2>3
<1>17. \A j \in 1..Len(B) : j # k => RoomContents(g)[j] = RoomContents(f)[j]
  BY <1>6, <1>11, <1>13, <1>14
<1>18. LastScript(RoomContents(f)) = {k}
  <2>1. \A i : LastOf(B, BLOCKTYPE_COMPSCRIPT3, i) => i = k
    <3> TAKE i
    <3> HAVE LastOf(B, BLOCKTYPE_COMPSCRIPT3, i)
    <3>1. i \in 1..Len(B) /\ i <= k /\ k <= i
      BY <1>3 DEF LastOf
    <3> QED BY <1>3, <3>1
  <2> QED BY <1>14, <1>16, <2>1
<1>19. k \in DOMAIN RoomContents(f) /\ RoomContents(g)[k][1] = RoomContents(f)[k][1]
       /\ RoomContents(g)[k][2] = o
  BY <1>3, <1>14, <1>16
<1> QED BY <1>4, <1>6, <1>13, <1>14, <1>15, <1>17, <1>18, <1>19, <1>20 DEF RoomWith

\* The script of a room that ASI_read_script measures is as long as its block.
LEMMA ScriptOfRoom ==
  ASSUME NEW f \in Files, NEW B, ReadsAs(f, B), NEW k, LastOf(B, BLOCKTYPE_COMPSCRIPT3, k),
         Measured(RoomContents(f)[k][2])
  PROVE  ASI_read_script(f, B[k].start) = B[k].len
<1>1. k \in 1..Len(B) /\ Path(f, B)
  BY DEF LastOf, ReadsAs
<1>2. PICK e \in Nat, t \in Nat, s \in Nat, n \in Nat : Between(f, B, k, e, t, s, n)
  BY <1>1, BlockBetween
<1>3. s = B[k].start /\ n = B[k].len /\ s + n <= Len(f)
  BY <1>2 DEF Between
<1>4. PICK h : h = SubSeq(f, s + 1, s + n)
  OBVIOUS
<1>5. Measured(h)
  <2>1. RoomContents(f)[k] = ContentAt(f, B, k)
    BY <1>1, ContentsAre
  <2>2. ContentAt(f, B, k)[2] = SubSeq(f, B[k].start + 1, B[k].start + B[k].len)
    BY DEF ContentAt
  <2> QED BY <1>3, <1>4, <2>1, <2>2
<1>6. /\ h \in Files /\ Len(h) = n
      /\ \A q \in Int : 0 <= q /\ q < n => CellAt(h, q) = CellAt(f, s + q)
  <2>1. PICK a \in Nat \ {0}, b \in Nat :
           a = s + 1 /\ b = s + n /\ b - a + 1 = n /\ a - 1 = s /\ a <= b + 1
    <3>1. s + 1 \in Nat \ {0} /\ s + n \in Nat /\ (s + n) - (s + 1) + 1 = n /\ s + 1 - 1 = s
          /\ s + 1 <= (s + n) + 1
      OBVIOUS
    <3> QED BY <3>1
  <2>2. b <= Len(f)
    BY <1>3, <2>1
  <2>3. /\ SubSeq(f, a, b) \in Files /\ Len(SubSeq(f, a, b)) = b - a + 1
        /\ \A q \in Int : 0 <= q /\ q < b - a + 1 =>
              CellAt(SubSeq(f, a, b), q) = CellAt(f, a - 1 + q)
    BY <2>1, <2>2, Part
  <2> QED BY <1>4, <2>1, <2>3
<1>7. PICK m : m = ASI_read_script(h, 0) /\ m # 0 /\ m = n
  <2>1. n # 0
    BY <1>5, <1>6, EmptySeq DEF Measured, Files
  <2> QED BY <1>5, <1>6, <2>1 DEF Measured
<1>8. \A i \in Int : 0 <= i /\ i < m => CellAt(f, s + i) = CellAt(h, 0 + i)
  <2> TAKE i \in Int
  <2> HAVE 0 <= i /\ i < m
  <2>1. 0 + i = i
    OBVIOUS
  <2> QED BY <1>6, <1>7, <2>1
<1>9. ASI_read_script(f, s) = m
  BY <1>6, <1>7, <1>8, SameScript
<1> QED BY <1>3, <1>7, <1>9

\* What agsinject writes for a room with the object o at s.
RoomCopy(f, s, o) ==
  LET w == LengthCells(RoomVersion(f))
  IN  SubSeq(f, 1, s - w) \o LengthOf(w, Len(o)) \o o

LEMMA RoomCopied ==
  ASSUME NEW f \in Files, RoomFile_read(f).outcome = "ok", Forward(f),
         NEW s, s = BlockOf(RoomFile_read(f), BLOCKTYPE_COMPSCRIPT3).start, s # 0,
         \A i \in LastScript(RoomContents(f)) : Measured(RoomContents(f)[i][2]),
         NEW o \in Objects, Measured(o)
  PROVE  \E k : RoomWith(RoomCopy(f, s, o) \o Rest(f, s, ASI_read_script(f, s)), f, k, o)
<1> DEFINE B == RoomFile_read(f).blocks
           b == BlockOf(RoomFile_read(f), BLOCKTYPE_COMPSCRIPT3)
<1>1. ReadsAs(f, B)
  BY RoomIs, ForwardIs
<1>2. PICK k : /\ LastOf(B, BLOCKTYPE_COMPSCRIPT3, k) /\ b = B[k] /\ b \in BlockSet
               /\ b.start - LengthCells(RoomVersion(f)) \in Nat /\ b.start + b.len <= Len(f)
  <2>1. PICK k : /\ LastOf(B, BLOCKTYPE_COMPSCRIPT3, k) /\ b = B[k]
                 /\ b.start - LengthCells(RoomVersion(f)) \in Nat
    BY RoomStart
  <2>2. k \in 1..Len(B) /\ Path(f, B)
    BY <1>1, <2>1 DEF LastOf, ReadsAs
  <2>3. EndOf(B, k - 1) \in Nat /\ BlockAt(f, EndOf(B, k - 1), b) /\ b \in BlockSet
    BY <2>1, <2>2, PathBlock
  <2>4. b.start + b.len <= Len(f)
    BY <2>3, BlockIs
  <2> QED BY <2>1, <2>3, <2>4
<1>3. ASI_read_script(f, B[k].start) = B[k].len
  <2>1. k \in LastScript(RoomContents(f))
    BY <1>1, <1>2, ContentsAre
  <2> QED BY <1>1, <1>2, <2>1, ScriptOfRoom
<1> HIDE DEF B
<1>4. PICK w \in {1, 2} : w = LengthCells(RoomVersion(f))
  BY LengthCellsAre
<1>5. PICK n \in Nat, p \in Nat, lf \in Nat, x \in Nat :
         /\ n = B[k].len /\ p = s - w /\ lf = Len(f)
         /\ x = s /\ s = B[k].start /\ x + n <= lf
  <2>1. b.start \in Nat /\ b.len \in Nat /\ Len(f) \in Nat
    BY <1>2, Cells DEF BlockSet
  <2> QED BY <1>2, <1>4, <2>1
<1>6. PICK h, a, r : h = LengthOf(w, Len(o)) /\ a = SubSeq(f, 1, p) /\ r = SubSeq(f, s + n + 1, lf)
  OBVIOUS
<1>7. h \in Files /\ o \in Files /\ h \o o \in Files
  <2>1. LengthOf(w, Len(o)) \in Files
    BY LengthOfIs
  <2>2. h \in Files
    BY <1>6, <2>1
  <2>3. o \in Files
    BY ObjectsAre
  <2> QED BY <2>2, <2>3, Joined
<1>8. p + (w + n) = s + n
  <2>1. x - w + (w + n) = x + n
    OBVIOUS
  <2> QED BY <1>5, <2>1
<1>9. PICK v \in Nat : v = w + n /\ p + v <= Len(f) /\ p + v + 1 = s + n + 1
  <2>1. w + n \in Nat
    OBVIOUS
  <2>2. p + (w + n) <= lf /\ p + (w + n) + 1 = s + n + 1
    BY <1>5, <1>8
  <2> QED BY <1>5, <2>1, <2>2
<1>10. SplicedAt(a \o (h \o o) \o r, f, h \o o, p, v)
  <2>1. SplicedAt(SubSeq(f, 1, p) \o (h \o o) \o SubSeq(f, p + v + 1, Len(f)), f, h \o o, p, v)
    BY <1>7, <1>9, Spliced
  <2> QED BY <1>5, <1>6, <1>9, <2>1
<1>11. a \in Files
  <2>1. 1 \in Nat \ {0} /\ p <= Len(f) /\ 1 <= p + 1
    <3>1. p <= lf
      <4>1. p + v <= lf
        BY <1>5, <1>9
      <4> QED BY <4>1
    <3> QED BY <1>5, <3>1
  <2> QED BY <1>6, <2>1, Part
<1>12. a \o (h \o o) = (a \o h) \o o
  BY <1>7, <1>11, ConcatAssociative, SMTT(30) DEF Files
<1>13. RoomCopy(f, s, o) \o Rest(f, s, ASI_read_script(f, s)) = (a \o h) \o o \o r
  <2>1. RoomCopy(f, s, o) = (a \o h) \o o
    BY <1>4, <1>5, <1>6 DEF RoomCopy
  <2>2. Rest(f, s, ASI_read_script(f, s)) = r
    BY <1>3, <1>5, <1>6 DEF Rest
  <2> QED BY <2>1, <2>2
<1>14. PICK g : g = a \o (h \o o) \o r
  OBVIOUS
<1>15. RoomBecomes(g, f, B, k, o)
  <2>1. SplicedAt(g, f, LengthOf(LengthCells(RoomVersion(f)), Len(o)) \o o,
                  B[k].start - LengthCells(RoomVersion(f)),
                  LengthCells(RoomVersion(f)) + B[k].len)
    BY <1>4, <1>5, <1>6, <1>9, <1>10, <1>14
  <2> QED BY <1>1, <1>2, <2>1 DEF RoomBecomes
<1>16. RoomWith(g, f, k, o)
  BY <1>15, ContentsBecome
<1> QED BY <1>12, <1>13, <1>14, <1>16

-----------------------------------------------------------------------------
(* agsinject on a room                                                     *)

\* What RoomKept assumes.
RoomAssumed ==
  LET old == RoomContents(reg.before)
  IN  /\ Injecting /\ target.room
      /\ RoomFile_read(reg.before).outcome = "ok" /\ Forward(reg.before)
      /\ \A i \in LastScript(old) : Measured(old[i][2])
      /\ \A j \in Wanted : ObjectOf(j).cells # <<>> => Measured(ObjectOf(j).cells)

\* The last of the first k arguments whose object is wanted.
LastWanted(j, k) == j \in Wanted \cap 1..k /\ \A m \in Wanted \cap 1..k : m <= j

\* The room f is what the room should be after the first k arguments.
RoomAfter(f, k) ==
  LET old == RoomContents(reg.before)
      new == RoomContents(f)
  IN  /\ RoomFile_read(f).outcome = "ok" /\ Forward(f)
      /\ DOMAIN new = DOMAIN old /\ LastScript(new) = LastScript(old)
      /\ \A i \in DOMAIN old : i \notin LastScript(old) => new[i] = old[i]
      /\ \A i \in LastScript(old) : Measured(new[i][2]) /\ new[i][1] = old[i][1]
      /\ IF Wanted \cap 1..k = {} THEN \A i \in DOMAIN old : new[i] = old[i]
         ELSE /\ LastScript(old) # {}
              /\ \E j : /\ LastWanted(j, k)
                        /\ \A i \in LastScript(old) : new[i][2] = ObjectOf(j).cells

RoomInv ==
  RoomAssumed =>
    /\ pc \in InjectPCs => reg.at - 1 \in 0..Len(cmd.args) /\ RoomAfter(target.cells, reg.at - 1)
    /\ pc = "shell" => \E k \in 0..Len(cmd.args) : /\ RoomAfter(target.cells, k)
                                                   /\ status = "ok" => k = Len(cmd.args)
    /\ pc \in InjectPCs \ {"inject"} => reg.at \in Wanted
    /\ pc = "rest" => /\ reg.tmp = RoomCopy(target.cells, reg.start, Object.cells)
                      /\ reg.start # 0
    /\ pc = "rename" => RoomAfter(reg.tmp, reg.at)
    /\ pc # "loop"

LEMMA RoomAfterKept ==
  ASSUME cmd' = cmd, reg'.before = reg.before, reg'.objs = reg.objs, reg'.stamp = reg.stamp,
         NEW f, NEW k, RoomAfter(f, k)
  PROVE  RoomAfter(f, k)'
<1>1. Wanted' = Wanted /\ \A j : ObjectOf(j)' = ObjectOf(j)
  BY SameCommand
<1>2. \A j : LastWanted(j, k)' <=> LastWanted(j, k)
  BY <1>1 DEF LastWanted
<1> QED BY <1>1, <1>2 DEF RoomAfter

LEMMA RoomAssumedBefore ==
  ASSUME RoomAssumed', cmd' = cmd, reg'.before = reg.before, reg'.objs = reg.objs,
         reg'.stamp = reg.stamp, target'.room = target.room, reg.short => reg'.short
  PROVE  RoomAssumed
<1>1. Wanted' = Wanted /\ \A j : ObjectOf(j)' = ObjectOf(j)
  BY SameCommand
<1> QED BY <1>1 DEF RoomAssumed, Injecting

LEMMA RoomStops ==
  ASSUME TypeInv, RoomInv, pc \in InjectPCs, pc' = "shell", UNCHANGED <<target, cmd, reg>>,
         status' = "ok" => reg.at - 1 = Len(cmd.args)
  PROVE  RoomInv'
<1> SUFFICES ASSUME RoomAssumed'
             PROVE  \E k \in 0..Len(cmd'.args) : /\ RoomAfter(target.cells, k)'
                                                 /\ status' = "ok" => k = Len(cmd'.args)
  <2>1. pc' \notin InjectPCs /\ pc' \notin {"rest", "rename"}
    BY DEF InjectPCs
  <2> QED BY <2>1 DEF RoomInv
<1>1. RoomAssumed
  BY RoomAssumedBefore
<1>2. PICK k : k = reg.at - 1 /\ k \in 0..Len(cmd.args) /\ RoomAfter(target.cells, k)
  BY <1>1 DEF RoomInv
<1>3. PICK f : f = target.cells
  OBVIOUS
<1>4. RoomAfter(f, k)'
  BY <1>2, <1>3, RoomAfterKept
<1> QED BY <1>2, <1>3, <1>4

LEMMA RoomOther ==
  ASSUME TypeInv, pc \notin InjectPCs, pc \notin {"shell", "loop"}, cmd' = cmd
  PROVE  RoomInv'
  BY DEF TypeInv, CmdOK, RoomInv, RoomAssumed, Injecting

LEMMA RoomShell ==
  ASSUME TypeInv, RoomInv, pc = "shell", UNCHANGED <<target, cmd, pc, reg, status>>
  PROVE  RoomInv'
<1> SUFFICES ASSUME RoomAssumed'
             PROVE  \E k \in 0..Len(cmd'.args) : /\ RoomAfter(target.cells, k)'
                                                 /\ status' = "ok" => k = Len(cmd'.args)
  <2>1. pc' \notin InjectPCs /\ pc' \notin {"rest", "rename"}
    BY DEF InjectPCs
  <2> QED BY <2>1 DEF RoomInv
<1>1. RoomAssumed
  BY RoomAssumedBefore
<1>2. PICK k \in 0..Len(cmd.args) : RoomAfter(target.cells, k) /\ (status = "ok" => k = Len(cmd.args))
  BY <1>1 DEF RoomInv
<1>3. PICK f : f = target.cells
  OBVIOUS
<1>4. RoomAfter(f, k)'
  BY <1>2, <1>3, RoomAfterKept
<1> QED BY <1>2, <1>3, <1>4

LEMMA RoomRun ==
  ASSUME TypeInv, Run
  PROVE  RoomInv'
<1> SUFFICES ASSUME RoomAssumed'
             PROVE  RoomInv'
  BY DEF RoomInv
<1>1. cmd' \in COMMANDS /\ cmd'.tool = "inject"
  BY DEF Run, RoomAssumed, Injecting
<1>2. pc' = "inject" /\ UNCHANGED target
  BY <1>1 DEF Run
<1>3. reg'.before = target.cells /\ reg'.at = 1 /\ reg'.at - 1 = 0
  BY DEF Run, NewReg
<1>4. Len(cmd'.args) \in Nat /\ 0 \in 0..Len(cmd'.args)
  BY <1>1, CommandsAssumption
<1>5. PICK f : f = target.cells
  OBVIOUS
<1>6. RoomAfter(f, 0)'
  <2>1. Wanted' \cap 1..0 = {}
    OBVIOUS
  <2>2. reg'.before = f
    BY <1>3, <1>5
  <2> QED BY <2>1, <2>2, Zenon DEF RoomAssumed, RoomAfter
<1>7. (RoomAfter(target.cells, reg.at - 1))'
  BY <1>2, <1>3, <1>5, <1>6
<1> QED BY <1>2, <1>3, <1>4, <1>7 DEF RoomInv, InjectPCs

\* One more argument without an object that is wanted.
LEMMA RoomPassed ==
  ASSUME NEW f, NEW a \in Nat \ {0}, RoomAfter(f, a - 1), a \notin Wanted
  PROVE  RoomAfter(f, a)
<1>1. Wanted \cap 1..a = Wanted \cap 1..a - 1
  <2>1. \A j : j \in Wanted \cap 1..a <=> j \in Wanted \cap 1..a - 1
    OBVIOUS
  <2> QED BY <2>1
<1>2. \A j : LastWanted(j, a) <=> LastWanted(j, a - 1)
  BY <1>1 DEF LastWanted
<1> QED BY <1>1, <1>2, Zenon DEF RoomAfter

LEMMA RoomNextArg ==
  ASSUME TypeInv, RoomInv, NextArg
  PROVE  RoomInv'
<1>1. /\ UNCHANGED <<target, objs, cmd>> /\ pc = "inject" /\ pc \in InjectPCs
      /\ \/ pc' = "shell" /\ UNCHANGED reg /\ (status' = "ok" => reg.at > Len(cmd.args))
         \/ NextArgGoesOn
  BY NextArgIs DEF InjectPCs
<1>2. CASE pc' = "shell" /\ UNCHANGED reg /\ (status' = "ok" => reg.at > Len(cmd.args))
  <2>1. ASSUME RoomAssumed, status' = "ok" PROVE reg.at - 1 = Len(cmd.args)
    <3>1. reg.at - 1 \in 0..Len(cmd.args) /\ reg.at \in Nat
      BY <1>1, <2>1 DEF RoomInv, TypeInv, InjectOK
    <3>2. PICK n \in Nat : n = Len(cmd.args)
      BY <1>1, CommandsAssumption DEF TypeInv, CmdOK, InjectPCs
    <3> QED BY <1>2, <2>1, <3>1, <3>2
  <2>2. CASE RoomAssumed
    BY <1>1, <1>2, <2>1, <2>2, RoomStops
  <2>3. CASE ~RoomAssumed
    <3>1. ~RoomAssumed'
      BY <1>1, <1>2, <2>3, RoomAssumedBefore
    <3> QED BY <3>1 DEF RoomInv
  <2> QED BY <2>2, <2>3
<1>3. CASE NextArgGoesOn
  <2> SUFFICES ASSUME RoomAssumed'
               PROVE  RoomInv'
    BY DEF RoomInv
  <2>1. DOMAIN reg = RegFields /\ reg.at \in Nat \ {0} /\ target.cells \in Files /\ reg.objs = objs
    BY <1>1 DEF TypeInv, RegOK, InjectOK, TargetOK
  <2>2. /\ reg'.before = reg.before /\ reg'.objs = reg.objs /\ reg'.stamp = reg.stamp
        /\ reg'.short = reg.short
        /\ \/ /\ pc' = pc /\ reg'.at = reg.at + 1
              /\ cmd.stamps /\ ~ts_is_newer(reg.stamp, Object.time)
           \/ /\ pc' = "search" /\ reg'.at = reg.at
              /\ cmd.stamps => ts_is_newer(reg.stamp, Object.time)
    BY <1>3, <2>1 DEF NextArgGoesOn, After, RegFields
  <2>3. RoomAssumed
    BY <1>1, <2>2, RoomAssumedBefore
  <2>4. /\ cmd \in COMMANDS /\ cmd.tool = "inject" /\ reg.at \in 1..Len(cmd.args)
        /\ Len(cmd.args) \in Nat /\ reg.at \in DOMAIN cmd.args /\ Object = ObjectOf(reg.at)
    <3>1. cmd \in COMMANDS /\ cmd.tool = "inject" /\ reg.at <= Len(cmd.args)
      BY <1>1, <1>3 DEF TypeInv, CmdOK, InjectPCs, NextArgGoesOn
    <3>2. Len(cmd.args) \in Nat
      BY <3>1, CommandsAssumption
    <3>3. reg.at \in 1..Len(cmd.args)
      BY <2>1, <3>1, <3>2
    <3> QED BY <1>1, <3>1, <3>2, <3>3, ObjectIs
  <2>5. PICK a, f : a \in 1..Len(cmd.args) /\ a = reg.at /\ f = target.cells
    BY <2>4
  <2>6. RoomAfter(f, a - 1) /\ a \in Nat \ {0} /\ a - 1 \in 0..Len(cmd.args)
    BY <1>1, <2>1, <2>3, <2>5 DEF RoomInv
  <2>7. CASE /\ pc' = pc /\ reg'.at = reg.at + 1
             /\ cmd.stamps /\ ~ts_is_newer(reg.stamp, Object.time)
    <3>1. a \notin Wanted
      BY <2>4, <2>5, <2>7 DEF Wanted
    <3>2. RoomAfter(f, a)'
      <4>1. RoomAfter(f, a)
        BY <2>6, <3>1, RoomPassed
      <4> QED BY <1>1, <2>2, <4>1, RoomAfterKept
    <3>3. reg'.at - 1 = a /\ a \in 0..Len(cmd.args) /\ target'.cells = f
      BY <1>1, <2>4, <2>5, <2>7
    <3> QED BY <1>1, <2>7, <3>2, <3>3 DEF RoomInv, InjectPCs
  <2>8. CASE /\ pc' = "search" /\ reg'.at = reg.at
             /\ cmd.stamps => ts_is_newer(reg.stamp, Object.time)
    <3>1. reg.at \in Wanted /\ Wanted' = Wanted
      BY <1>1, <2>2, <2>4, <2>8, SameCommand DEF Wanted
    <3>2. PICK k : k = a - 1
      OBVIOUS
    <3>3. RoomAfter(f, k)'
      BY <1>1, <2>2, <2>6, <3>2, RoomAfterKept
    <3>4. reg'.at - 1 = k /\ k \in 0..Len(cmd.args) /\ target'.cells = f
      BY <1>1, <2>5, <2>6, <2>8, <3>2
    <3> QED BY <1>1, <2>8, <3>1, <3>3, <3>4 DEF RoomInv, InjectPCs
  <2> QED BY <2>2, <2>7, <2>8
<1> QED BY <1>1, <1>2, <1>3

\* A step of agsinject with an argument, up to the rename.
LEMMA RoomLocals ==
  ASSUME TypeInv, RoomInv, pc \in InjectPCs \ {"inject"}, UNCHANGED <<target, cmd>>,
         reg'.before = reg.before, reg'.objs = reg.objs, reg'.stamp = reg.stamp,
         reg'.at = reg.at, reg.short => reg'.short, pc' \in {"search", "copy", "rest", "rename"},
         RoomAssumed' =>
            /\ pc' = "rest" => /\ reg'.tmp = RoomCopy(target.cells, reg'.start, Object'.cells)
                               /\ reg'.start # 0
            /\ pc' = "rename" => RoomAfter(reg.tmp, reg.at)'
  PROVE  RoomInv'
<1> SUFFICES ASSUME RoomAssumed'
             PROVE  /\ reg'.at - 1 \in 0..Len(cmd'.args) /\ RoomAfter(target.cells, reg.at - 1)'
                    /\ reg'.at \in Wanted'
  BY DEF RoomInv
<1>1. RoomAssumed
  BY RoomAssumedBefore
<1>2. PICK k, f : /\ k = reg.at - 1 /\ k \in 0..Len(cmd.args) /\ f = target.cells
                  /\ RoomAfter(f, k)
  BY <1>1 DEF RoomInv
<1>3. RoomAfter(f, k)' /\ Wanted' = Wanted
  BY <1>2, RoomAfterKept, SameCommand
<1>4. reg.at \in Wanted
  BY <1>1 DEF RoomInv
<1>5. reg'.at - 1 = k /\ target'.cells = f
  BY <1>2
<1> QED BY <1>2, <1>3, <1>4, <1>5

LEMMA RoomSearchRoom ==
  ASSUME TypeInv, RoomInv, SearchRoom
  PROVE  RoomInv'
<1> DEFINE room == RoomFile_read(target.cells)
           start == BlockOf(room, BLOCKTYPE_COMPSCRIPT3).start
<1>1. UNCHANGED <<target, objs, cmd>> /\ pc = "search" /\ target.room
  BY DEF SearchRoom, Same
<1>2. DOMAIN reg = RegFields /\ pc \in InjectPCs \ {"inject"}
  BY <1>1 DEF TypeInv, RegOK, InjectPCs
<1>3. CASE room.outcome # "ok"
  <2>1. UNCHANGED reg /\ (pc' = "loop" \/ (pc' = "shell" /\ status' = room.outcome))
    BY <1>3 DEF SearchRoom, Unreadable, Exit
  <2>2. CASE pc' = "loop"
    <3>1. RoomAssumed' => RoomAssumed
      BY <1>1, <2>1, RoomAssumedBefore
    <3>2. RoomAssumed => room.outcome = "ok"
      BY <1>2 DEF RoomInv, RoomAfter
    <3> QED BY <1>3, <3>1, <3>2 DEF RoomInv
  <2>3. CASE pc' = "shell" /\ status' = room.outcome
    BY <1>1, <1>2, <1>3, <2>1, <2>3, RoomStops
  <2> QED BY <2>1, <2>2, <2>3
<1>4. CASE room.outcome = "ok"
  <2>1. pc' = "copy" /\ reg' = [reg EXCEPT !.start = start]
    BY <1>4 DEF SearchRoom
  <2>2. /\ reg'.before = reg.before /\ reg'.objs = reg.objs /\ reg'.stamp = reg.stamp
        /\ reg'.at = reg.at /\ reg'.short = reg.short
    <3> HIDE DEF start
    <3> QED BY <1>2, <2>1 DEF RegFields
  <2> QED BY <1>1, <1>2, <2>1, <2>2, RoomLocals
<1> QED BY <1>3, <1>4

LEMMA RoomCopyHeader ==
  ASSUME TypeInv, RoomInv, CopyHeader
  PROVE  RoomInv'
<1> DEFINE o == Object.cells
<1>1. UNCHANGED <<target, objs, cmd>> /\ pc = "copy"
  BY DEF CopyHeader, Same
<1>2. DOMAIN reg = RegFields /\ pc \in InjectPCs \ {"inject"}
  BY <1>1 DEF TypeInv, RegOK, InjectPCs
<1>3. CASE pc' = "shell" /\ UNCHANGED reg /\ status' # "ok"
  BY <1>1, <1>2, <1>3, RoomStops
<1>4. CASE /\ ~(o = <<>> \/ (target.room /\ reg.start = 0)) /\ pc' = "rest"
           /\ reg' = [reg EXCEPT !.tmp = Header(o) \o o]
  <2>1. /\ reg'.before = reg.before /\ reg'.objs = reg.objs /\ reg'.stamp = reg.stamp
        /\ reg'.at = reg.at /\ reg'.short = reg.short /\ reg'.start = reg.start
        /\ reg'.tmp = Header(o) \o o
    <3> HIDE DEF o
    <3> QED BY <1>2, <1>4 DEF RegFields
  <2>2. Object' = Object
    BY <1>1, <2>1 DEF Object, Arg
  <2>3. ASSUME RoomAssumed'
        PROVE  reg'.tmp = RoomCopy(target.cells, reg.start, o) /\ reg.start # 0
    <3>1. target.room
      BY <1>1, <2>3 DEF RoomAssumed
    <3>2. Header(o) = SubSeq(target.cells, 1, reg.start - LengthCells(RoomVersion(target.cells)))
                        \o LengthOf(LengthCells(RoomVersion(target.cells)), Len(o))
      BY <3>1, Zenon DEF Header, RoomLength, LengthOf
    <3> QED BY <1>4, <2>1, <3>1, <3>2, Zenon DEF RoomCopy
  <2> QED BY <1>1, <1>2, <1>4, <2>1, <2>2, <2>3, RoomLocals
<1> QED BY <1>3, <1>4 DEF CopyHeader, Exit

\* One more argument with an object that is wanted.
LEMMA RoomTaken ==
  ASSUME NEW f, NEW g, NEW k, NEW o, NEW a \in Nat \ {0}, RoomAfter(f, a - 1),
         RoomWith(g, f, k, o), a \in Wanted, ObjectOf(a).cells = o, Measured(o)
  PROVE  RoomAfter(g, a)
<1> DEFINE old == RoomContents(reg.before)
           mid == RoomContents(f)
           new == RoomContents(g)
<1>1. /\ DOMAIN mid = DOMAIN old /\ LastScript(mid) = LastScript(old)
      /\ \A i \in DOMAIN old : i \notin LastScript(old) => mid[i] = old[i]
      /\ \A i \in LastScript(old) : mid[i][1] = old[i][1]
  BY DEF RoomAfter
<1>2. /\ RoomFile_read(g).outcome = "ok" /\ Forward(g)
      /\ DOMAIN new = DOMAIN mid /\ LastScript(new) = LastScript(mid) /\ LastScript(mid) = {k}
      /\ k \in DOMAIN mid /\ new[k][1] = mid[k][1] /\ new[k][2] = o
      /\ \A j \in DOMAIN mid : j # k => new[j] = mid[j]
  BY DEF RoomWith
<1> HIDE DEF old, mid, new
<1>3. a \in Wanted \cap 1..a /\ LastWanted(a, a)
  <2>1. a \in 1..a /\ \A m \in 1..a : m <= a
    OBVIOUS
  <2> QED BY <2>1 DEF LastWanted
<1>4. Wanted \cap 1..a # {}
  BY <1>3
<1>5. LastScript(old) = {k} /\ DOMAIN new = DOMAIN old /\ LastScript(new) = LastScript(old)
  BY <1>1, <1>2
<1>6. \A i \in DOMAIN old : i \notin LastScript(old) => new[i] = old[i]
  BY <1>1, <1>2, <1>5
<1>7. \A i \in LastScript(old) : /\ Measured(new[i][2]) /\ new[i][1] = old[i][1]
                                 /\ new[i][2] = ObjectOf(a).cells
  <2>1. k \in LastScript(old)
    BY <1>5
  <2>2. Measured(new[k][2]) /\ new[k][1] = old[k][1] /\ new[k][2] = ObjectOf(a).cells
    BY <1>1, <1>2, <2>1
  <2> QED BY <1>5, <2>2
<1>8. /\ LastScript(old) # {}
      /\ \E j : LastWanted(j, a) /\ \A i \in LastScript(old) : new[i][2] = ObjectOf(j).cells
  BY <1>3, <1>5, <1>7
<1> QED BY <1>2, <1>4, <1>5, <1>6, <1>7, <1>8, Zenon DEF RoomAfter, old, new

LEMMA RoomCopyRest ==
  ASSUME TypeInv, RoomInv, CopyRest
  PROVE  RoomInv'
<1> DEFINE n    == ASI_read_script(target.cells, reg.start)
           full == reg.tmp \o Rest(target.cells, reg.start, n)
<1>1. UNCHANGED <<target, objs, cmd>> /\ pc = "rest"
  BY DEF CopyRest, Same
<1>2. DOMAIN reg = RegFields /\ pc \in InjectPCs \ {"inject"}
  BY <1>1 DEF TypeInv, RegOK, InjectPCs
<1>3. CASE pc' = "shell" /\ UNCHANGED reg /\ status' # "ok"
  BY <1>1, <1>2, <1>3, RoomStops
<1>4. CASE /\ n # 0 /\ pc' = "rename"
           /\ \E short \in BOOLEAN :
                 reg' = [reg EXCEPT !.tmp = IF short THEN Front(full) ELSE full,
                                    !.tmptime = clock, !.short = @ \/ short]
  <2>1. /\ reg'.before = reg.before /\ reg'.objs = reg.objs /\ reg'.stamp = reg.stamp
        /\ reg'.at = reg.at /\ (reg.short => reg'.short)
        /\ ~reg'.short => reg'.tmp = full
    <3> HIDE DEF full
    <3> QED BY <1>2, <1>4 DEF RegFields
  <2>2. RoomAssumed' => RoomAssumed
    BY <1>1, <2>1, RoomAssumedBefore
  <2>3. ASSUME RoomAssumed'
        PROVE  RoomAfter(reg.tmp, reg.at)'
    <3>1. /\ RoomAssumed /\ reg.at \in Wanted /\ reg.start # 0
          /\ reg.tmp = RoomCopy(target.cells, reg.start, Object.cells)
      BY <1>1, <1>2, <2>2, <2>3 DEF RoomInv
    <3>2. PICK f, a, s, o : f = target.cells /\ a = reg.at /\ s = reg.start /\ o = Object.cells
      OBVIOUS
    <3>3. /\ f \in Files /\ RoomFile_read(f).outcome = "ok"
          /\ s = BlockOf(RoomFile_read(f), BLOCKTYPE_COMPSCRIPT3).start /\ s # 0
          /\ a \in Nat \ {0} /\ a \in 1..Len(cmd.args) /\ o # <<>>
      <4>1. target.room
        BY <3>1 DEF RoomAssumed
      <4> QED BY <1>1, <1>2, <3>1, <3>2, <4>1
              DEF TypeInv, TargetOK, InjectOK, InjectPCs, StartOK
    <3>4. o \in Objects /\ o = ObjectOf(a).cells /\ Measured(o)
      <4>1. Object.cells \in Objects /\ Object = ObjectOf(reg.at)
        BY <1>2, <3>2, <3>3, ObjectIs
      <4> QED BY <3>1, <3>2, <3>3, <4>1 DEF RoomAssumed
    <3>5. RoomAfter(f, a - 1)
      BY <1>2, <3>1, <3>2 DEF RoomInv
    <3>6. /\ Forward(f)
          /\ \A i \in LastScript(RoomContents(f)) : Measured(RoomContents(f)[i][2])
      BY <3>5 DEF RoomAfter
    <3>7. PICK g, k : /\ g = RoomCopy(f, s, o) \o Rest(f, s, ASI_read_script(f, s))
                      /\ RoomWith(g, f, k, o)
      <4>1. PICK k : RoomWith(RoomCopy(f, s, o) \o Rest(f, s, ASI_read_script(f, s)), f, k, o)
        BY <3>3, <3>4, <3>6, RoomCopied
      <4> QED BY <4>1
    <3>8. RoomAfter(g, a)
      BY <3>1, <3>2, <3>3, <3>4, <3>5, <3>7, RoomTaken
    <3>9. RoomAfter(g, a)'
      BY <1>1, <2>1, <3>8, RoomAfterKept
    <3>10. reg'.tmp = g /\ reg'.at = a
      <4>1. ~reg'.short
        BY <2>3 DEF RoomAssumed, Injecting
      <4>2. full = g
        BY <3>1, <3>2, <3>7
      <4> QED BY <2>1, <3>2, <4>1, <4>2
    <3> QED BY <3>9, <3>10
  <2> QED BY <1>1, <1>2, <1>4, <2>1, <2>3, RoomLocals
<1> QED BY <1>3, <1>4 DEF CopyRest, Exit

LEMMA RoomRename ==
  ASSUME TypeInv, RoomInv, Rename
  PROVE  RoomInv'
<1>1. UNCHANGED <<objs, cmd>> /\ pc = "rename"
  BY DEF Rename, Same
<1>2. CASE pc' = "shell" /\ UNCHANGED <<target, reg>> /\ status' # "ok"
  BY <1>1, <1>2, RoomStops DEF InjectPCs
<1>3. CASE /\ target' = [target EXCEPT !.cells = reg.tmp, !.time = reg.tmptime]
           /\ reg' = [reg EXCEPT !.at = After(@)] /\ pc' = "inject"
  <2> SUFFICES ASSUME RoomAssumed'
               PROVE  RoomInv'
    BY DEF RoomInv
  <2>1. DOMAIN reg = RegFields /\ reg.at \in 1..Len(cmd.args) /\ pc \in InjectPCs
    BY <1>1 DEF TypeInv, RegOK, InjectOK, InjectPCs
  <2>2. /\ reg'.before = reg.before /\ reg'.objs = reg.objs /\ reg'.stamp = reg.stamp
        /\ reg'.short = reg.short /\ reg'.at = reg.at + 1
    BY <1>3, <2>1 DEF RegFields, After
  <2>3. target'.cells = reg.tmp /\ target'.room = target.room
    BY <1>3 DEF TypeInv, TargetOK
  <2>4. RoomAssumed
    BY <1>1, <2>2, <2>3, RoomAssumedBefore
  <2>5. PICK a, g : a \in 1..Len(cmd.args) /\ a = reg.at /\ g = reg.tmp
    BY <2>1
  <2>6. RoomAfter(g, a)
    BY <1>1, <2>4, <2>5 DEF RoomInv
  <2>7. RoomAfter(g, a)'
    BY <1>1, <2>2, <2>6, RoomAfterKept
  <2>8. Len(cmd.args) \in Nat
    BY <2>1, ObjectIs, CommandsAssumption
  <2>9. reg'.at - 1 = a /\ a \in 0..Len(cmd.args) /\ target'.cells = g
    BY <2>2, <2>3, <2>5, <2>8
  <2> QED BY <1>1, <1>3, <2>7, <2>9 DEF RoomInv, InjectPCs
<1> QED BY <1>2, <1>3 DEF Rename, Exit

LEMMA RoomNext ==
  ASSUME TypeInv, RoomInv, [Next]_vars
  PROVE  RoomInv'
<1>1. CASE Kill
  <2>1. pc # "shell" /\ pc' = "shell" /\ UNCHANGED <<target, cmd, reg>> /\ status' # "ok"
    BY <1>1 DEF Kill, Exit
  <2>2. CASE pc \in InjectPCs
    BY <2>1, <2>2, RoomStops
  <2>3. CASE pc \notin InjectPCs /\ pc # "loop"
    BY <2>1, <2>3, RoomOther
  <2>4. CASE pc = "loop"
    <3>1. RoomAssumed' => RoomAssumed
      BY <2>1, RoomAssumedBefore
    <3> QED BY <2>4, <3>1 DEF RoomInv
  <2> QED BY <2>2, <2>3, <2>4
<1>2. CASE Compile
  BY <1>2, RoomShell DEF Compile
<1>3. CASE UNCHANGED vars
  <2>1. UNCHANGED <<target, objs, cmd, pc, reg, status>>
    BY <1>3 DEF vars
  <2> SUFFICES ASSUME RoomAssumed' PROVE RoomInv'
    BY DEF RoomInv
  <2>2. RoomAssumed
    BY <2>1, RoomAssumedBefore
  <2>3. \A f, k : RoomAfter(f, k) => RoomAfter(f, k)'
    BY <2>1, RoomAfterKept
  <2>4. Wanted' = Wanted /\ Object' = Object
    BY <2>1, SameCommand DEF Object, Arg
  <2> QED BY <2>1, <2>2, <2>3, <2>4 DEF RoomInv
<1>4. CASE OpenData \/ OpenFlags \/ dump_script \/ ExtractDone \/ dumprooms \/ WriteFlag \/ AlphaDone
  <2>1. pc \notin InjectPCs /\ pc \notin {"shell", "loop"} /\ cmd' = cmd
    BY <1>4 DEF OpenData, OpenFlags, dump_script, ExtractDone, dumprooms, WriteFlag, AlphaDone,
                Same, InjectPCs
  <2> QED BY <2>1, RoomOther
<1>5. CASE SearchGame
  <2>1. target'.room = target.room /\ ~target.room
    BY <1>5 DEF SearchGame
  <2> QED BY <2>1 DEF RoomInv, RoomAssumed
<1> QED BY <1>1, <1>2, <1>3, <1>4, <1>5, RoomRun, RoomNextArg, RoomSearchRoom, RoomCopyHeader,
           RoomCopyRest, RoomRename
        DEF Next, Tool

LEMMA RoomInit ==
  ASSUME Init
  PROVE  RoomInv
  BY DEF Init, RoomInv, RoomAssumed, Injecting, NoCommand

LEMMA WantedIs ==
  ASSUME TypeInv, Injecting
  PROVE  Wanted \in SUBSET (1..Len(cmd.args)) /\ Len(cmd.args) \in Nat
<1>1. cmd \in COMMANDS /\ cmd.tool = "inject"
  BY DEF TypeInv, CmdOK, Injecting, NoCommand
<1>2. DOMAIN cmd.args = 1..Len(cmd.args) /\ Len(cmd.args) \in Nat
  BY <1>1, CommandsAssumption
<1> QED BY <1>2 DEF Wanted

LEMMA RoomInvKept ==
  ASSUME TypeInv, RoomInv
  PROVE  RoomKept
<1> DEFINE old == RoomContents(reg.before)
           new == RoomContents(target.cells)
<1> SUFFICES ASSUME RoomAssumed
             PROVE  /\ RoomFile_read(target.cells).outcome = "ok"
                    /\ DOMAIN new = DOMAIN old
                    /\ \A k \in DOMAIN old :
                          \/ new[k] = old[k]
                          \/ /\ k \in LastScript(old) /\ new[k][1] = old[k][1]
                             /\ \E j \in Wanted : new[k][2] = ObjectOf(j).cells
                    /\ Ended("inject", {"ok"}) /\ Wanted # {} =>
                          \E k \in LastScript(old) : new[k][2] = ObjectOf(Max(Wanted)).cells
  BY Zenon DEF RoomKept, RoomAssumed
<1>1. pc = "shell" \/ pc \in InjectPCs
  BY DEF TypeInv, CmdOK, RoomAssumed, Injecting, RoomInv
<1>2. PICK n \in 0..Len(cmd.args) :
         RoomAfter(target.cells, n) /\ (pc = "shell" /\ status = "ok" => n = Len(cmd.args))
  BY <1>1 DEF RoomInv, InjectPCs
<1>3. /\ RoomFile_read(target.cells).outcome = "ok"
      /\ DOMAIN new = DOMAIN old
      /\ \A i \in DOMAIN old : i \notin LastScript(old) => new[i] = old[i]
      /\ \A i \in LastScript(old) : new[i][1] = old[i][1]
  BY <1>2 DEF RoomAfter
<1>4. IF Wanted \cap 1..n = {} THEN \A i \in DOMAIN old : new[i] = old[i]
      ELSE /\ LastScript(old) # {}
           /\ \E j : /\ LastWanted(j, n)
                     /\ \A i \in LastScript(old) : new[i][2] = ObjectOf(j).cells
  BY <1>2, Zenon DEF RoomAfter
<1> HIDE DEF old, new
<1>5. CASE Wanted \cap 1..n = {}
  <2>1. Ended("inject", {"ok"}) => Wanted = {}
    <3>1. Wanted \in SUBSET (1..Len(cmd.args))
      BY WantedIs DEF RoomAssumed
    <3> QED BY <1>2, <1>5, <3>1 DEF Ended
  <2> QED BY <1>3, <1>4, <1>5, <2>1
<1>6. CASE Wanted \cap 1..n # {}
  <2>1. PICK j : LastWanted(j, n) /\ \A i \in LastScript(old) : new[i][2] = ObjectOf(j).cells
    BY <1>4, <1>6
  <2>2. j \in Wanted /\ LastScript(old) # {}
    BY <1>4, <1>6, <2>1 DEF LastWanted
  <2>3. ASSUME Ended("inject", {"ok"}) PROVE j = Max(Wanted)
    <3>1. Wanted \in SUBSET (1..Len(cmd.args)) /\ Len(cmd.args) \in Nat
      BY WantedIs DEF RoomAssumed
    <3>2. n = Len(cmd.args) /\ Wanted \cap 1..n = Wanted
      BY <1>2, <2>3, <3>1 DEF Ended
    <3>3. j \in Wanted /\ \A m \in Wanted : m <= j
      BY <2>1, <3>2 DEF LastWanted
    <3>4. Max(Wanted) \in Wanted /\ \A m \in Wanted : m <= Max(Wanted)
      <4>0. PICK S : S = Wanted
        OBVIOUS
      <4>1. PICK N \in Nat : S = Wanted /\ N = Len(cmd.args)
        BY <3>1, <4>0
      <4>2. S \in SUBSET Nat /\ S # {} /\ \A x \in S : x <= N
        BY <3>1, <3>3, <4>1
      <4>3. Max(S) \in S /\ \A y \in S : y <= Max(S)
        BY <4>2, MaxIs
      <4> QED BY <4>1, <4>3
    <3>5. PICK x : x = Max(Wanted)
      OBVIOUS
    <3>6. j \in Nat /\ x \in Nat /\ j <= x /\ x <= j
      <4>1. \A m \in Wanted : m \in Nat
        BY <3>1
      <4>2. x \in Wanted /\ j \in Wanted /\ j <= x /\ x <= j
        BY <3>3, <3>4, <3>5, Zenon
      <4> QED BY <4>1, <4>2
    <3>7. j = x
      BY <3>6
    <3> QED BY <3>5, <3>7
  <2>4. Ended("inject", {"ok"}) =>
           \E k \in LastScript(old) : new[k][2] = ObjectOf(Max(Wanted)).cells
    BY <2>1, <2>2, <2>3
  <2>5. \A k \in DOMAIN old :
           \/ new[k] = old[k]
           \/ /\ k \in LastScript(old) /\ new[k][1] = old[k][1]
              /\ \E i \in Wanted : new[k][2] = ObjectOf(i).cells
    BY <1>3, <2>1, <2>2
  <2> QED BY <1>3, <2>4, <2>5
<1> QED BY <1>5, <1>6

\* Whatever is killed, refused or not renamed, a room that agsinject works on can
\* be read, and its blocks are those it had but for the script, which is the old
\* one or an object asked for, and the last one when agsinject says so
\* (agsinject.c, RoomFile.c).
THEOREM RoomIsKept == Spec => []RoomKept
<1>1. Init => TypeInv /\ RoomInv
  BY TypeInit, RoomInit
<1>2. TypeInv /\ RoomInv /\ [Next]_vars => TypeInv' /\ RoomInv'
  BY TypeNext, RoomNext
<1>3. TypeInv /\ RoomInv => RoomKept
  BY RoomInvKept
<1> QED BY <1>1, <1>2, <1>3, PTL DEF Spec

-----------------------------------------------------------------------------
(* Reading for ever                                                        *)

LoopInv ==
  /\ pc \in {"extract", "dump"} => ~target.room
  /\ pc = "loop" /\ target.room => cmd.tool = "alpha" \/ ~Forward(target.cells)

\* A reading of blocks that is never over goes back.
LEMMA ReadingGoesBack ==
  ASSUME NEW f \in Files, RoomFile_read(f).outcome = "reading"
  PROVE  ~Forward(f)
<1>1. RoomFile_read(f).blocks \notin Seq(BlockSet)
  BY RoomIs
<1> QED BY <1>1, ForwardIs

\* Reading a room leaves it as it is.
LEMMA LoopRoom ==
  ASSUME TypeInv, LoopInv, SearchRoom \/ dumprooms
  PROVE  LoopInv'
<1>1. UNCHANGED <<target, cmd>> /\ target.cells \in Files
  BY DEF SearchRoom, dumprooms, Same, TypeInv, TargetOK
<1>2. pc' \in {"shell", "copy"} \/ (pc' = "loop" /\ RoomFile_read(target.cells).outcome = "reading")
  <2>1. PICK room : room = RoomFile_read(target.cells)
    OBVIOUS
  <2>2. CASE room.outcome # "ok"
    <3>1. Unreadable(room.outcome)
      BY <2>1, <2>2 DEF SearchRoom, dumprooms
    <3> QED BY <2>1, <3>1 DEF Unreadable, Exit
  <2>3. CASE room.outcome = "ok" /\ SearchRoom
    BY <2>1, <2>3 DEF SearchRoom
  <2>4. CASE room.outcome = "ok" /\ dumprooms
    <3>1. PICK off : off = ARF_find_code_start(target.cells, 0)
      OBVIOUS
    <3>2. CASE off # BlockOf(room, BLOCKTYPE_COMPSCRIPT3).start \/ off = NotFound
      <4>1. Exit("trapped")
        BY <2>1, <2>4, <3>1, <3>2 DEF dumprooms
      <4> QED BY <4>1 DEF Exit
    <3>3. CASE ~(off # BlockOf(room, BLOCKTYPE_COMPSCRIPT3).start \/ off = NotFound)
      <4>1. \E how : Exit(how)
        BY <2>1, <2>4, <3>1, <3>3 DEF dumprooms
      <4> QED BY <4>1 DEF Exit
    <3> QED BY <3>2, <3>3
  <2> QED BY <2>2, <2>3, <2>4
<1>3. CASE pc' \in {"shell", "copy"}
  BY <1>3 DEF LoopInv
<1>4. CASE pc' = "loop" /\ RoomFile_read(target.cells).outcome = "reading"
  <2>1. ~Forward(target.cells)
    BY <1>1, <1>4, ReadingGoesBack
  <2>2. ~Forward(target'.cells)
    BY <1>1, <2>1
  <2> QED BY <1>4, <2>2 DEF LoopInv, Forward
<1> QED BY <1>2, <1>3, <1>4

LEMMA LoopNext ==
  ASSUME TypeInv, LoopInv, [Next]_vars
  PROVE  LoopInv'
<1>1. CASE UNCHANGED vars
  BY <1>1 DEF vars, LoopInv, Forward
<1>2. CASE Compile
  BY <1>2 DEF Compile, LoopInv
<1>3. CASE Run
  <2>1. /\ cmd' \in COMMANDS /\ UNCHANGED target
        /\ pc' = IF cmd'.tool = "extract" /\ target.room THEN "dumprooms" ELSE cmd'.tool
    BY <1>3 DEF Run
  <2>2. cmd'.tool \in {"inject", "extract", "alpha"}
    BY <2>1, CommandsAssumption
  <2> QED BY <2>1, <2>2 DEF LoopInv
<1>4. CASE Kill \/ ExtractDone \/ AlphaDone
  BY <1>4 DEF Kill, ExtractDone, AlphaDone, Exit, LoopInv
<1>5. CASE NextArg \/ SearchGame \/ CopyHeader \/ CopyRest \/ Rename
  <2>1. pc' \in InjectPCs \cup {"shell"}
    <3>1. CASE NextArg
      <4>1. pc = "inject" /\ (pc' = "shell" \/ NextArgGoesOn)
        BY <3>1, NextArgIs
      <4> QED BY <4>1 DEF NextArgGoesOn, InjectPCs
    <3>2. CASE SearchGame
      BY <3>2 DEF SearchGame, Exit, InjectPCs
    <3>3. CASE CopyHeader
      BY <3>3 DEF CopyHeader, Exit, InjectPCs
    <3>4. CASE CopyRest
      <4>1. (\E how \in {"failed", "trapped"} : Exit(how)) \/ pc' = "rename"
        BY <3>4, Zenon DEF CopyRest
      <4> QED BY <4>1 DEF Exit, InjectPCs
    <3>5. CASE Rename
      BY <3>5 DEF Rename, Exit, InjectPCs
    <3> QED BY <1>5, <3>1, <3>2, <3>3, <3>4, <3>5
  <2> QED BY <2>1 DEF LoopInv, InjectPCs
<1>6. CASE SearchRoom \/ dumprooms
  BY <1>6, LoopRoom
<1>7. CASE OpenData \/ dump_script
  <2>1. pc \in {"extract", "dump"} /\ UNCHANGED target
    BY <1>7 DEF OpenData, dump_script
  <2> QED BY <2>1 DEF LoopInv
<1>8. CASE OpenFlags
  <2>1. pc = "alpha" /\ UNCHANGED cmd
    BY <1>8 DEF OpenFlags, Same
  <2>2. cmd.tool = "alpha"
    BY <2>1 DEF TypeInv, CmdOK, InjectPCs
  <2>3. pc' \in {"loop", "shell", "flags"}
    <3>1. Open("gamebase", "flags")
      BY <1>8 DEF OpenFlags
    <3> QED BY <3>1 DEF Open, Exit
  <2> QED BY <2>1, <2>2, <2>3 DEF LoopInv
<1>9. CASE WriteFlag
  BY <1>9 DEF WriteFlag, LoopInv
<1> QED BY <1>1, <1>2, <1>3, <1>4, <1>5, <1>6, <1>7, <1>8, <1>9 DEF Next, Tool

\* What keeps agsinject or agscriptxtract reading a room is a block that goes
\* back: of a room whose blocks follow each other the reading is over before it
\* has made as many steps as the file has cells (RoomFile.c:98-115).
THEOREM RoomsLoopBack ==
  Spec => [](pc = "loop" /\ target.room /\ cmd.tool # "alpha" => EndlessRoom)
<1> DEFINE Back == pc = "loop" /\ target.room /\ cmd.tool # "alpha" => EndlessRoom
<1>1. Init => TypeInv /\ LoopInv
  <2>1. Init => LoopInv
    BY DEF Init, LoopInv
  <2> QED BY <2>1, TypeInit
<1>2. TypeInv /\ LoopInv /\ [Next]_vars => TypeInv' /\ LoopInv'
  BY TypeNext, LoopNext
<1>3. TypeInv /\ LoopInv => Back
  BY DEF LoopInv, EndlessRoom
<1> QED BY <1>1, <1>2, <1>3, PTL DEF Spec

-----------------------------------------------------------------------------
(* Reading the sections of a game                                          *)

AdfFields == {"pos", "aoe", "reading", "open", "junk", "version", "game", "numsprites",
              "spriteflagsstart", "scripts"}
IsAdf(a) == a = [k \in AdfFields |-> a[k]]

\* Sections of some kinds, whose readers give some errors and close the file or do not.
SectionSet(kinds, errors, closes) ==
  [kind : kinds, wrong : errors, short : errors \cup {"none"}, closes : {closes}]

LEMMA SectionIs ==
  ASSUME NEW kinds, NEW errors, NEW closes,
         NEW kind \in kinds, NEW wrong \in errors, NEW short \in errors \cup {"none"}, NEW junk
  PROVE  /\ Section(kind, wrong, short, closes) \in Seq(SectionSet(kinds, errors, closes))
         /\ IfCounted(junk, Section(kind, wrong, short, closes))
               \in Seq(SectionSet(kinds, errors, closes))
<1>1. [kind |-> kind, wrong |-> wrong, short |-> short, closes |-> closes]
         \in SectionSet(kinds, errors, closes)
  BY DEF SectionSet
<1>2. [kind |-> kind, wrong |-> wrong, short |-> "none", closes |-> closes]
         \in SectionSet(kinds, errors, closes)
  BY DEF SectionSet
<1>3. \A c \in SectionSet(kinds, errors, closes) : <<c>> \in Seq(SectionSet(kinds, errors, closes))
  <2> TAKE c \in SectionSet(kinds, errors, closes)
  <2> QED OBVIOUS
<1>4. Section(kind, wrong, short, closes) \in Seq(SectionSet(kinds, errors, closes))
  BY <1>1, <1>3 DEF Section
<1>5. IfCounted(junk, Section(kind, wrong, short, closes)) =
        IF junk = 0 THEN << [kind |-> kind, wrong |-> wrong, short |-> "none", closes |-> closes] >>
        ELSE Section(kind, wrong, short, closes)
  BY DEF Section, IfCounted
<1>6. << [kind |-> kind, wrong |-> wrong, short |-> "none", closes |-> closes] >>
         \in Seq(SectionSet(kinds, errors, closes))
  BY <1>2, <1>3
<1> QED BY <1>4, <1>5, <1>6

LEMMA WhenIs ==
  ASSUME NEW S, NEW s \in Seq(S), NEW cond
  PROVE  When(cond, s) \in Seq(S)
<1>1. <<>> \in Seq(S)
  BY EmptySeq
<1> QED BY <1>1 DEF When

\* What a reader of sections has read, or where it has stopped.
Passed(f, s, a, b) ==
  /\ b = [a EXCEPT !.pos = @ + Len(s)]
  /\ \A k \in DOMAIN s : ~Fails(f, s[k], a.pos + (k - 1))
StoppedAt(f, s, a, b, k) ==
  b = StopAt(f, s, a, k) /\ Fails(f, s[k], a.pos + (k - 1))

LEMMA ReadIs ==
  ASSUME NEW f, NEW s, NEW a, DOMAIN s \in SUBSET Nat
  PROVE  LET b == Read(f, s, a)
         IN  IF a.reading THEN Passed(f, s, a, b) \/ \E k \in DOMAIN s : StoppedAt(f, s, a, b, k)
             ELSE b = a
<1> DEFINE failing == {k \in DOMAIN s : Fails(f, s[k], a.pos + (k - 1))}
<1>1. Read(f, s, a) = IF ~a.reading THEN a
                      ELSE IF failing = {} THEN [a EXCEPT !.pos = @ + Len(s)]
                      ELSE StopAt(f, s, a, Min(failing))
  BY DEF Read
<1>2. ASSUME failing = {} PROVE Passed(f, s, a, [a EXCEPT !.pos = @ + Len(s)])
  BY <1>2 DEF Passed
<1>3. ASSUME failing # {}
      PROVE  \E k \in DOMAIN s : StoppedAt(f, s, a, StopAt(f, s, a, Min(failing)), k)
  <2>1. failing \in SUBSET Nat
    OBVIOUS
  <2>2. Min(failing) \in failing
    <3> HIDE DEF failing
    <3> QED BY <1>3, <2>1, MinIs
  <2>3. PICK k : k = Min(failing) /\ k \in failing
    BY <2>2
  <2>4. StoppedAt(f, s, a, StopAt(f, s, a, k), k)
    BY <2>3 DEF StoppedAt
  <2> QED BY <2>3, <2>4
<1> HIDE DEF failing
<1> QED BY <1>1, <1>2, <1>3

\* What no reader of sections touches.
SameGame(a, b) ==
  /\ b.junk = a.junk /\ b.version = a.version /\ b.game = a.game /\ b.numsprites = a.numsprites
  /\ b.spriteflagsstart = a.spriteflagsstart /\ b.scripts = a.scripts

\* The game behind sections that were read, and behind one that was not.
ReadOn(s, a, b) ==
  /\ IsAdf(b) /\ SameGame(a, b) /\ b.pos = a.pos + Len(s)
  /\ b.aoe = a.aoe /\ b.open = a.open /\ b.reading = a.reading
StoppedOn(f, s, a, b, k) ==
  /\ IsAdf(b) /\ SameGame(a, b) /\ b.pos = a.pos + (k - 1) /\ b.open = ~s[k].closes
  /\ b.reading = FALSE
  /\ \/ Kind(f, a.pos + (k - 1)) = "eof" /\ b.aoe = s[k].short /\ s[k].short # "none"
     \/ Kind(f, a.pos + (k - 1)) # "eof" /\ b.aoe = s[k].wrong

LEMMA PassedIs ==
  ASSUME NEW f, NEW s, NEW a, NEW b, IsAdf(a), Passed(f, s, a, b)
  PROVE  ReadOn(s, a, b)
  BY DEF IsAdf, AdfFields, Passed, SameGame, ReadOn

LEMMA MovedIs ==
  ASSUME NEW a, IsAdf(a), NEW pos, NEW b, b = [a EXCEPT !.pos = pos]
  PROVE  /\ IsAdf(b) /\ SameGame(a, b) /\ b.pos = pos
         /\ b.aoe = a.aoe /\ b.open = a.open /\ b.reading = a.reading
  BY DEF IsAdf, AdfFields, SameGame

LEMMA StoppedIs ==
  ASSUME NEW f, NEW s, NEW a, NEW b, NEW k, IsAdf(a), StoppedAt(f, s, a, b, k)
  PROVE  StoppedOn(f, s, a, b, k)
<1>1. PICK aoe : aoe = IF Kind(f, a.pos + (k - 1)) = "eof" THEN s[k].short ELSE s[k].wrong
  OBVIOUS
<1>2. PICK c : c = [a EXCEPT !.pos = a.pos + (k - 1)]
  OBVIOUS
<1>3. IsAdf(c) /\ SameGame(a, c) /\ c.pos = a.pos + (k - 1)
  BY <1>2, MovedIs
<1>4. b = Stop(c, aoe, s[k].closes)
  BY <1>1, <1>2 DEF StoppedAt, StopAt
<1>5. IsAdf(b) /\ SameGame(c, b) /\ b.pos = c.pos /\ b.aoe = aoe /\ b.open = ~s[k].closes
      /\ b.reading = FALSE
  BY <1>3, <1>4 DEF IsAdf, AdfFields, Stop, SameGame
<1>6. SameGame(a, b)
  BY <1>3, <1>5 DEF SameGame
<1>7. Fails(f, s[k], a.pos + (k - 1))
  BY DEF StoppedAt
<1> QED BY <1>1, <1>3, <1>5, <1>6, <1>7 DEF Fails, StoppedOn

-----------------------------------------------------------------------------
(* From the signature of a game to its scripts                             *)

Names == {"sig", "verstr", "oldhdr", "capabilities", "gamebase", "guid", "fonts", "iteminfo",
          "cursors", "interaction", "globalvars", "dictionary"}
BaseErrors  == {"read", "signature", "header", "gamebase"}
WorldErrors == BaseErrors \cup {"cursors", "interaction", "dictionary", "aborted"}

BaseSections  == Seq(SectionSet(Names, BaseErrors, TRUE))
WorldReaders == Seq(SectionSet(Names, WorldErrors, TRUE))

LEMMA BaseLists ==
  ASSUME NEW a
  PROVE  /\ Capabilities(a) \in BaseSections /\ FontSections(a) \in BaseSections
         /\ FAIL("gamebase", "gamebase") \in BaseSections
<1>1. \A kind \in Names, error \in BaseErrors :
         /\ FAIL(kind, error) \in BaseSections
         /\ IfCounted(a.junk, FAIL(kind, error)) \in BaseSections
  BY SectionIs DEF FAIL, BaseSections
<1>2. /\ FAIL("gamebase", "gamebase") \in BaseSections /\ FAIL("guid", "gamebase") \in BaseSections
      /\ FAIL("fonts", "gamebase") \in BaseSections
      /\ IfCounted(a.junk, FAIL("capabilities", "header")) \in BaseSections
  BY <1>1 DEF Names, BaseErrors
<1>3. \A c, s : s \in BaseSections => When(c, s) \in BaseSections
  BY WhenIs DEF BaseSections
<1>4. Capabilities(a) \in BaseSections
  BY <1>2, <1>3 DEF Capabilities
<1>5. \A s, t \in BaseSections : s \o t \in BaseSections
  BY ConcatProperties DEF BaseSections
<1>6. FontSections(a) \in BaseSections
  BY <1>2, <1>3, <1>5 DEF FontSections
<1> QED BY <1>2, <1>4, <1>6

LEMMA WorldLists ==
  ASSUME NEW a
  PROVE  WorldSections(a) \in WorldReaders
<1>1. \A kind \in Names, error \in WorldErrors :
         /\ FAIL(kind, error) \in WorldReaders
         /\ IfCounted(a.junk, FAIL(kind, error)) \in WorldReaders
         /\ \A short \in WorldErrors : Section(kind, error, short, TRUE) \in WorldReaders
  BY SectionIs DEF FAIL, WorldReaders
<1>2. /\ FAIL("iteminfo", "gamebase") \in WorldReaders
      /\ FAIL("cursors", "cursors") \in WorldReaders
      /\ IfCounted(a.junk, FAIL("globalvars", "interaction")) \in WorldReaders
      /\ IfCounted(a.junk, FAIL("dictionary", "dictionary")) \in WorldReaders
      /\ IfCounted(a.junk, FAIL("interaction", "interaction")) \in WorldReaders
      /\ Section("interaction", "interaction", "aborted", TRUE) \in WorldReaders
  BY <1>1 DEF Names, WorldErrors, BaseErrors
<1>3. \A c, s : s \in WorldReaders => When(c, s) \in WorldReaders
  BY WhenIs DEF WorldReaders
<1>4. \A s, t \in WorldReaders : s \o t \in WorldReaders
  BY ConcatProperties DEF WorldReaders
<1>5. Interactions(a) \in WorldReaders
  BY <1>2 DEF Interactions
<1>6. PICK s1, s2, s3, s4, s5, s6 \in WorldReaders :
         /\ s1 = When(a.game.inventories > 0, FAIL("iteminfo", "gamebase"))
         /\ s2 = FAIL("cursors", "cursors")
         /\ s3 = When(a.game.characters > 0, Interactions(a))
         /\ s4 = When(a.game.inventories > (IF a.version > 32 THEN 1 ELSE 0), Interactions(a))
         /\ s5 = When(a.version <= 32, IfCounted(a.junk, FAIL("globalvars", "interaction")))
         /\ s6 = When(a.game.hasdict, IfCounted(a.junk, FAIL("dictionary", "dictionary")))
  BY <1>2, <1>3, <1>5
<1>7. WorldSections(a) = s1 \o s2 \o s3 \o s4 \o s5 \o s6
  BY <1>6 DEF WorldSections
<1> QED BY <1>4, <1>7

\* No letter of a signature is between the version and a position.
Unlettered(f, pos) == \A q \in 2..pos - 1 : Kind(f, q) \notin {"S", "C", "O", "M"}

\* The file ends in its header, which ADF_open does not call an error.
Cut(f) == Len(f) <= 3 /\ FontsEnd(f) = {}

\* How far a game has been read, or which of some errors has stopped it.
Stage(f, a, errors) ==
  /\ IsAdf(a) /\ a.junk \in Nat /\ a.version \in Int /\ a.pos \in Nat /\ a.scripts = <<>>
  /\ a.reading \in BOOLEAN
  /\ IF a.reading
     THEN /\ a.aoe = "success" /\ a.open = TRUE /\ Unlettered(f, a.pos)
          /\ a.pos >= 1 /\ (a.pos >= 2 \/ Len(f) <= 1)
     ELSE a.aoe \in errors \/ (a.aoe = "success" /\ Cut(f))

LEMMA UnletteredOn ==
  ASSUME NEW f, NEW s, NEW a, NEW b, NEW n \in Nat, NEW p \in Nat, p = a.pos,
         DOMAIN s = 1..n, \A k \in 1..n : s[k].kind \in Names,
         Passed(f, s, a, b), Unlettered(f, p)
  PROVE  Unlettered(f, p + n)
<1> SUFFICES ASSUME NEW q \in 2..(p + n) - 1 PROVE Kind(f, q) \notin {"S", "C", "O", "M"}
  BY DEF Unlettered
<1>1. CASE q < p
  BY <1>1 DEF Unlettered
<1>2. CASE q >= p
  <2>1. PICK k \in 1..n : q = p + (k - 1)
    <3>1. q \in Int /\ q <= (p + n) - 1
      OBVIOUS
    <3>2. PICK k \in Int : k = (q - p) + 1
      BY <3>1
    <3>3. k \in 1..n /\ q = p + (k - 1)
      BY <1>2, <3>1, <3>2, SMTT(30)
    <3> QED BY <3>3
  <2>2. ~Fails(f, s[k], q)
    BY <2>1 DEF Passed
  <2>3. Kind(f, q) \in Names \cup {"eof"}
    BY <2>1, <2>2 DEF Fails
  <2> QED BY <2>3 DEF Names
<1> QED BY <1>1, <1>2

\* Reading more sections of a game before its scripts.
StageReads(f, errors, s, a, n) ==
  /\ Len(s) = n /\ DOMAIN s = 1..n
  /\ \A k \in 1..n :
        /\ s[k].kind \in Names /\ s[k].wrong \in errors
        /\ \/ s[k].short \in errors \cup {"none"}
           \/ s[k].short = "success" /\ (a.reading /\ Kind(f, a.pos + (k - 1)) = "eof" => Cut(f))
StageOn(f, errors, s, a, n, b) ==
  /\ Stage(f, b, errors) /\ SameGame(a, b)
  /\ ~a.reading => b = a
  /\ b.reading => a.reading /\ Passed(f, s, a, b) /\ b.pos = a.pos + n

LEMMA StageSections ==
  ASSUME NEW f \in Files, NEW errors, NEW a, Stage(f, a, errors), NEW s, NEW n \in Nat,
         StageReads(f, errors, s, a, n), NEW b, b = Read(f, s, a)
  PROVE  StageOn(f, errors, s, a, n, b)
<1> SUFFICES /\ Stage(f, b, errors) /\ SameGame(a, b)
             /\ ~a.reading => b = a
             /\ b.reading => a.reading /\ Passed(f, s, a, b) /\ b.pos = a.pos + n
  BY DEF StageOn
<1> USE DEF StageReads
<1>0. DOMAIN s \in SUBSET Nat
  OBVIOUS
<1>1. CASE ~a.reading
  <2>1. b = a
    BY <1>0, <1>1, ReadIs
  <2> QED BY <1>1, <2>1 DEF SameGame
<1>2. CASE a.reading /\ Passed(f, s, a, b)
  <2>1. /\ IsAdf(b) /\ SameGame(a, b) /\ b.pos = a.pos + n
        /\ b.aoe = a.aoe /\ b.open = a.open /\ b.reading = a.reading
    <3>1. IsAdf(a)
      BY DEF Stage
    <3>2. ReadOn(s, a, b)
      BY <1>2, <3>1, PassedIs
    <3> QED BY <3>2 DEF ReadOn
  <2>2. PICK p \in Nat : p = a.pos /\ p >= 1 /\ (p >= 2 \/ Len(f) <= 1) /\ Unlettered(f, p)
    BY <1>2 DEF Stage
  <2>3. Unlettered(f, p + n)
    BY <1>2, <2>2, UnletteredOn
  <2>4. p + n \in Nat /\ p + n >= 1 /\ (p >= 2 => p + n >= 2)
    BY <2>2
  <2>5. Stage(f, b, errors)
    BY <1>2, <2>1, <2>2, <2>3, <2>4 DEF Stage, SameGame
  <2> QED BY <1>2, <2>1, <2>5
<1>3. CASE a.reading /\ \E k \in DOMAIN s : StoppedAt(f, s, a, b, k)
  <2>1. PICK k \in 1..n : StoppedAt(f, s, a, b, k)
    BY <1>3
  <2>2. /\ IsAdf(b) /\ SameGame(a, b) /\ b.pos = a.pos + (k - 1) /\ b.reading = FALSE
        /\ \/ Kind(f, a.pos + (k - 1)) = "eof" /\ b.aoe = s[k].short /\ s[k].short # "none"
           \/ Kind(f, a.pos + (k - 1)) # "eof" /\ b.aoe = s[k].wrong
    <3>1. IsAdf(a)
      BY DEF Stage
    <3>2. StoppedOn(f, s, a, b, k)
      BY <2>1, <3>1, StoppedIs
    <3> QED BY <3>2, Zenon DEF StoppedOn
  <2>3. b.aoe \in errors \/ (b.aoe = "success" /\ Cut(f))
    BY <1>3, <2>2
  <2>4. b.pos \in Nat
    <3>1. PICK p \in Nat : p = a.pos
      BY DEF Stage
    <3> QED BY <2>2, <3>1
  <2>5. Stage(f, b, errors)
    BY <2>2, <2>3, <2>4 DEF Stage, SameGame
  <2> QED BY <1>3, <2>2, <2>5
<1> QED BY <1>0, <1>1, <1>2, <1>3, ReadIs

LEMMA StageRead ==
  ASSUME NEW f \in Files, NEW errors, NEW a, Stage(f, a, errors),
         NEW s \in Seq(SectionSet(Names, errors, TRUE)), NEW b, b = Read(f, s, a)
  PROVE  Len(s) \in Nat /\ DOMAIN s = 1..Len(s) /\ StageOn(f, errors, s, a, Len(s), b)
<1>1. PICK n \in Nat : n = Len(s) /\ DOMAIN s = 1..n /\ \A k \in 1..n : s[k] \in SectionSet(Names, errors, TRUE)
  <2>1. Len(s) \in Nat /\ DOMAIN s = 1..Len(s) /\ \A k \in 1..Len(s) : s[k] \in SectionSet(Names, errors, TRUE)
    BY LenProperties, ElementOfSeq
  <2> QED BY <2>1
<1>2. \A k \in 1..n : s[k].kind \in Names /\ s[k].wrong \in errors /\ s[k].short \in errors \cup {"none"}
  BY <1>1 DEF SectionSet
<1>3. StageReads(f, errors, s, a, n)
  BY <1>1, <1>2 DEF StageReads
<1>4. StageOn(f, errors, s, a, n, b)
  BY <1>3, StageSections
<1> QED BY <1>1, <1>4

\* A file ends where no cell is.
LEMMA EndIs ==
  ASSUME NEW f \in Files, NEW p \in Nat
  PROVE  /\ Kind(f, p) = "eof" <=> p >= Len(f)
         /\ p < Len(f) => p + 1 \in DOMAIN f /\ CellAt(f, p) = f[p + 1] /\ f[p + 1] \in CELLS
<1>1. DOMAIN f = 1..Len(f) /\ Len(f) \in Nat /\ f \in [1..Len(f) -> CELLS]
  BY Cells
<1>2. CellAt(f, p) = IF p < Len(f) THEN f[p + 1] ELSE <<"eof">>
  <2>1. CellAt(f, p) = IF 0 <= p /\ p < Len(f) THEN f[p + 1] ELSE <<"eof">>
    BY Cells
  <2> QED BY <2>1
<1>3. ASSUME p < Len(f) PROVE p + 1 \in DOMAIN f /\ f[p + 1] \in CELLS
  <2>1. p + 1 \in 1..Len(f)
    BY <1>1, <1>3
  <2> QED BY <1>1, <2>1
<1>4. CASE p < Len(f)
  <2>1. f[p + 1][1] # "eof"
    BY <1>3, <1>4, CellsAssumption
  <2>2. Kind(f, p) # "eof"
    BY <1>2, <1>4, <2>1 DEF Kind
  <2>3. ~(p >= Len(f))
    BY <1>1, <1>4
  <2> QED BY <1>2, <1>3, <1>4, <2>2, <2>3
<1>5. CASE ~(p < Len(f))
  <2>1. CellAt(f, p) = <<"eof">>
    BY <1>2, <1>5
  <2>2. Kind(f, p) = "eof"
    BY <2>1 DEF Kind
  <2>3. p >= Len(f)
    BY <1>1, <1>5
  <2> QED BY <1>5, <2>2, <2>3
<1> QED BY <1>4, <1>5

\* A count, which is a number also where none stands.
LEMMA CountIs ==
  ASSUME NEW f \in Files, NEW a, NEW p \in Nat, a.pos = p, a.junk \in Nat
  PROVE  /\ Count(f, a) \in Nat
         /\ p < Len(f) /\ f[p + 1][1] \in {"sprites", "count"} => Count(f, a) = f[p + 1][2]
         /\ p >= Len(f) => Count(f, a) = a.junk
<1>1. Count(f, a) = IF CellAt(f, p)[1] \in {"sprites", "count"} THEN CellAt(f, p)[2] ELSE a.junk
  BY DEF Count
<1>2. CASE p < Len(f)
  <2>1. CellAt(f, p) = f[p + 1] /\ f[p + 1] \in CELLS
    BY <1>2, EndIs
  <2>2. f[p + 1][1] \in {"sprites", "count"} => f[p + 1][2] \in Nat
    BY <2>1, CellsAssumption
  <2>3. ~(p >= Len(f))
    BY <1>2, Cells
  <2> QED BY <1>1, <2>1, <2>2, <2>3
<1>3. CASE ~(p < Len(f))
  <2>1. CellAt(f, p) = <<"eof">>
    <3>1. CellAt(f, p) = IF 0 <= p /\ p < Len(f) THEN f[p + 1] ELSE <<"eof">>
      BY Cells
    <3> QED BY <1>3, <3>1
  <2>2. <<"eof">>[1] \notin {"sprites", "count"}
    OBVIOUS
  <2> QED BY <1>1, <1>3, <2>1, <2>2
<1> QED BY <1>2, <1>3

\* A version, which may be below zero.
LEMMA VersionIs ==
  ASSUME NEW f \in Files, NEW a, NEW p \in Nat, a.pos = p, a.junk \in Nat
  PROVE  /\ Version(f, a) \in Int
         /\ p < Len(f) /\ Len(f[p + 1]) > 1 => Version(f, a) = f[p + 1][2]
<1>1. Version(f, a) = IF Len(CellAt(f, p)) > 1 THEN CellAt(f, p)[2] ELSE a.junk
  BY DEF Version
<1>2. CASE p < Len(f)
  <2>1. CellAt(f, p) = f[p + 1] /\ f[p + 1] \in CELLS
    BY <1>2, EndIs
  <2>2. Len(f[p + 1]) > 1 => f[p + 1][2] \in Int
    BY <2>1, CellsAssumption
  <2> QED BY <1>1, <2>1, <2>2
<1>3. CASE ~(p < Len(f))
  <2>1. CellAt(f, p) = <<"eof">>
    <3>1. CellAt(f, p) = IF 0 <= p /\ p < Len(f) THEN f[p + 1] ELSE <<"eof">>
      BY Cells
    <3> QED BY <1>3, <3>1
  <2>2. ~(Len(<<"eof">>) > 1)
    OBVIOUS
  <2> QED BY <1>1, <1>3, <2>1, <2>2
<1> QED BY <1>2, <1>3

CountedOn(f, a, p, b) ==
  /\ IsAdf(b) /\ SameGame(a, b) /\ b.aoe = a.aoe /\ b.open = a.open /\ b.reading = a.reading
  /\ b.pos = IF p < Len(f) THEN p + 1 ELSE p

LEMMA CountRead ==
  ASSUME NEW f \in Files, NEW a, IsAdf(a), NEW p \in Nat, a.pos = p, NEW b, b = ReadCount(f, a)
  PROVE  CountedOn(f, a, p, b)
<1>1. b = IF p >= Len(f) THEN a ELSE [a EXCEPT !.pos = p + 1]
  BY EndIs DEF ReadCount
<1>2. Len(f) \in Nat
  BY Cells
<1>3. CASE p >= Len(f)
  <2>1. ~(p < Len(f))
    BY <1>2, <1>3
  <2> QED BY <1>1, <1>3, <2>1 DEF SameGame, CountedOn
<1>4. CASE ~(p >= Len(f))
  <2>1. p < Len(f)
    BY <1>2, <1>4
  <2>2. b = [a EXCEPT !.pos = p + 1]
    BY <1>1, <1>4
  <2>3. /\ IsAdf(b) /\ SameGame(a, b) /\ b.aoe = a.aoe /\ b.open = a.open
        /\ b.reading = a.reading /\ b.pos = p + 1
    BY <2>2 DEF IsAdf, AdfFields, SameGame
  <2> QED BY <2>1, <2>3 DEF CountedOn
<1> QED BY <1>3, <1>4

\* A game nothing was read of.
NothingRead(a, junk) ==
  /\ IsAdf(a) /\ a.pos = 0 /\ a.aoe = "success" /\ a.reading = TRUE /\ a.open = TRUE
  /\ a.junk = junk /\ a.numsprites = 0 /\ a.spriteflagsstart = 0 /\ a.scripts = <<>>

LEMMA NewIs ==
  ASSUME NEW junk, NEW a, a = NewADF(junk)
  PROVE  NothingRead(a, junk)
  BY DEF NewADF, IsAdf, AdfFields, NothingRead

\* What is read first.
LEMMA SignatureRead ==
  ASSUME NEW f \in Files, NEW junk \in Nat, NEW sig, sig = Read(f, Signature, NewADF(junk))
  PROVE  /\ IsAdf(sig) /\ sig.junk = junk /\ sig.numsprites = 0 /\ sig.spriteflagsstart = 0
         /\ sig.scripts = <<>> /\ sig.reading \in BOOLEAN
         /\ IF sig.reading
            THEN sig.aoe = "success" /\ sig.open = TRUE /\ sig.pos = 1 /\ Kind(f, 0) = "sig"
            ELSE sig.aoe \in BaseErrors
<1>1. PICK a : a = NewADF(junk)
  OBVIOUS
<1>2. /\ IsAdf(a) /\ a.pos = 0 /\ a.aoe = "success" /\ a.reading = TRUE /\ a.open = TRUE
      /\ a.junk = junk /\ a.numsprites = 0 /\ a.spriteflagsstart = 0 /\ a.scripts = <<>>
  <2>1. NothingRead(a, junk)
    BY <1>1, NewIs
  <2> QED BY <2>1 DEF NothingRead
<1>3. PICK s : s = Signature /\ Len(s) = 1 /\ DOMAIN s = 1..1
               /\ s[1] = [kind |-> "sig", wrong |-> "signature", short |-> "read", closes |-> TRUE]
  <2>1. PICK c : c = [kind |-> "sig", wrong |-> "signature", short |-> "read", closes |-> TRUE]
    OBVIOUS
  <2>2. PICK s : s = <<c>>
    OBVIOUS
  <2>3. s = Signature
    BY <2>1, <2>2 DEF Signature, Section
  <2>4. Len(s) = 1 /\ DOMAIN s = 1..1 /\ s[1] = c
    BY <2>2
  <2> QED BY <2>1, <2>3, <2>4
<1>4. a.pos + (1 - 1) = 0 /\ a.pos + 1 = 1 /\ DOMAIN s = {1} /\ DOMAIN s \in SUBSET Nat
  BY <1>2, <1>3
<1>5. Passed(f, s, a, sig) \/ StoppedAt(f, s, a, sig, 1)
  <2>1. Passed(f, s, a, sig) \/ \E k \in DOMAIN s : StoppedAt(f, s, a, sig, k)
    BY <1>1, <1>2, <1>3, <1>4, ReadIs
  <2> QED BY <1>4, <2>1
<1>6. CASE Passed(f, s, a, sig)
  <2>1. ReadOn(s, a, sig)
    BY <1>2, <1>6, PassedIs
  <2>2. Kind(f, 0) = "sig"
    <3>1. ~Fails(f, s[1], a.pos + (1 - 1))
      BY <1>4, <1>6 DEF Passed
    <3>2. ~Fails(f, s[1], 0)
      BY <1>4, <3>1
    <3> QED BY <1>3, <3>2 DEF Fails
  <2> QED BY <1>2, <1>3, <1>4, <2>1, <2>2, ZenonT(60) DEF ReadOn, SameGame
<1>7. CASE StoppedAt(f, s, a, sig, 1)
  <2>1. StoppedOn(f, s, a, sig, 1)
    BY <1>2, <1>7, StoppedIs
  <2>2. sig.aoe \in {s[1].short, s[1].wrong}
    BY <2>1, Zenon DEF StoppedOn
  <2>3. sig.aoe \in BaseErrors
    BY <1>3, <2>2 DEF BaseErrors
  <2>4. IsAdf(sig) /\ SameGame(a, sig) /\ sig.reading = FALSE
    BY <2>1, Zenon DEF StoppedOn
  <2> QED BY <1>2, <2>3, <2>4 DEF SameGame
<1> QED BY <1>5, <1>6, <1>7

\* One section, whose reader gives no error where the file ends.
Unended(s, kind, wrong) ==
  /\ Len(s) = 1 /\ DOMAIN s = 1..1
  /\ s[1].kind = kind /\ s[1].wrong = wrong /\ s[1].short = "success"

LEMMA HeaderSection ==
  ASSUME NEW kind \in Names, NEW wrong \in BaseErrors, NEW s,
         s = Section(kind, wrong, "success", TRUE)
  PROVE  Unended(s, kind, wrong)
<1>1. PICK c : c = [kind |-> kind, wrong |-> wrong, short |-> "success", closes |-> TRUE]
  OBVIOUS
<1>2. PICK t : t = <<c>>
  OBVIOUS
<1>3. t = s
  BY <1>1, <1>2 DEF Section
<1>4. Len(t) = 1 /\ DOMAIN t = 1..1 /\ t[1] = c
  BY <1>2
<1>5. c.kind = kind /\ c.wrong = wrong /\ c.short = "success"
  BY <1>1
<1> QED BY <1>3, <1>4, <1>5 DEF Unended

\* The game behind such a section, where it is to be read.
HeaderOn(f, a, cond, p, b) ==
  /\ Stage(f, b, BaseErrors) /\ SameGame(a, b)
  /\ ~a.reading => b = a
  /\ b.reading => a.reading /\ b.pos = (IF cond THEN p + 1 ELSE p) /\ (cond => p < Len(f))

LEMMA StageHeader ==
  ASSUME NEW f \in Files, NEW a, Stage(f, a, BaseErrors), NEW kind \in Names, NEW wrong \in BaseErrors,
         NEW cond, NEW s, s = When(cond, Section(kind, wrong, "success", TRUE)),
         NEW p \in Nat, p = a.pos,
         a.reading /\ p >= Len(f) => Cut(f),
         NEW b, b = Read(f, s, a)
  PROVE  HeaderOn(f, a, cond, p, b)
<1>1. CASE ~cond
  <2>1. s = <<>> /\ Len(s) = 0 /\ DOMAIN s = 1..0 /\ 1..0 = {}
    BY <1>1 DEF When
  <2>2. StageReads(f, BaseErrors, s, a, 0)
    BY <2>1 DEF StageReads
  <2>3. StageOn(f, BaseErrors, s, a, 0, b)
    BY <2>2, StageSections
  <2>4. p + 0 = p
    OBVIOUS
  <2> QED BY <1>1, <2>3, <2>4 DEF StageOn, HeaderOn
<1>2. CASE cond
  <2>1. s = Section(kind, wrong, "success", TRUE)
    BY <1>2 DEF When
  <2>2. /\ Len(s) = 1 /\ DOMAIN s = 1..1
        /\ s[1].kind = kind /\ s[1].wrong = wrong /\ s[1].short = "success"
    <3>1. Unended(s, kind, wrong)
      BY <2>1, HeaderSection
    <3> QED BY <3>1 DEF Unended
  <2>3. a.pos + (1 - 1) = p /\ a.pos + 1 = p + 1
    OBVIOUS
  <2>4. StageReads(f, BaseErrors, s, a, 1)
    <3>1. Kind(f, p) = "eof" <=> p >= Len(f)
      BY EndIs
    <3>2. a.reading /\ Kind(f, a.pos + (1 - 1)) = "eof" => Cut(f)
      BY <2>3, <3>1
    <3>3. \A k \in 1..1 : k = 1
      OBVIOUS
    <3>4. \A k \in 1..1 :
            /\ s[k].kind \in Names /\ s[k].wrong \in BaseErrors
            /\ \/ s[k].short \in BaseErrors \cup {"none"}
               \/ s[k].short = "success" /\ (a.reading /\ Kind(f, a.pos + (k - 1)) = "eof" => Cut(f))
      BY <2>2, <3>2, <3>3
    <3> QED BY <2>2, <3>4 DEF StageReads
  <2>5. StageOn(f, BaseErrors, s, a, 1, b)
    BY <2>4, StageSections
  <2>6. ASSUME b.reading PROVE p < Len(f)
    <3>1. ~Fails(f, s[1], a.pos + (1 - 1))
      <4>1. Passed(f, s, a, b)
        BY <2>5, <2>6 DEF StageOn
      <4>2. \A k \in DOMAIN s : ~Fails(f, s[k], a.pos + (k - 1))
        BY <4>1 DEF Passed
      <4>3. 1 \in 1..1
        OBVIOUS
      <4>4. ~Fails(f, s[1], a.pos + (1 - 1))
        BY <2>2, <4>2, <4>3, Zenon
      <4> QED BY <4>4
    <3>2. ~Fails(f, s[1], p)
      BY <2>3, <3>1
    <3>3. Kind(f, p) # "eof"
      <4>1. Kind(f, p) = kind \/ (Kind(f, p) = "eof" /\ s[1].short = "none")
        BY <2>2, <3>2 DEF Fails
      <4>2. kind # "eof"
        BY DEF Names
      <4> QED BY <2>2, <4>1, <4>2
    <3>4. ~(p >= Len(f)) /\ Len(f) \in Nat
      BY <3>3, EndIs, Cells
    <3> QED BY <3>4
  <2> QED BY <1>2, <2>3, <2>5, <2>6 DEF StageOn, HeaderOn
<1> QED BY <1>1, <1>2

\* The game is not yet known to be of any version.
Unread(a, v) == a.version = v /\ a.numsprites = 0 /\ a.spriteflagsstart = 0

\* What stands in a file for its version.
VersionOf(f, v) == Len(f) >= 2 /\ Len(f[2]) > 1 => v = f[2][2]

WithVersion(a, v, b) ==
  /\ IsAdf(b) /\ b.version = v /\ b.junk = a.junk /\ b.numsprites = a.numsprites
  /\ b.spriteflagsstart = a.spriteflagsstart /\ b.scripts = a.scripts
  /\ b.reading = a.reading /\ b.aoe = a.aoe /\ b.open = a.open /\ b.pos = a.pos

LEMMA VersionSet ==
  ASSUME NEW a, IsAdf(a), NEW v, NEW b, b = [a EXCEPT !.version = v]
  PROVE  WithVersion(a, v, b)
  BY DEF IsAdf, AdfFields, WithVersion

LEMMA HeaderRead ==
  ASSUME NEW f \in Files, NEW junk \in Nat, NEW sig, sig = Read(f, Signature, NewADF(junk)), sig.reading,
         NEW v, v = Version(f, sig), NEW h, h = ReadCount(f, [sig EXCEPT !.version = v]),
         NEW b, b = Read(f, VersionString(v), h)
  PROVE  /\ Stage(f, b, BaseErrors) /\ Unread(b, v) /\ VersionOf(f, v) /\ v \in Int
         /\ Kind(f, 0) = "sig" /\ (b.reading => b.pos \in {1, 2, 3})
<1>1. /\ IsAdf(sig) /\ sig.junk = junk /\ sig.numsprites = 0 /\ sig.spriteflagsstart = 0
      /\ sig.scripts = <<>> /\ sig.reading \in BOOLEAN
      /\ sig.aoe = "success" /\ sig.open = TRUE /\ sig.pos = 1 /\ Kind(f, 0) = "sig"
  BY SignatureRead
<1>2. /\ Version(f, sig) \in Int
      /\ 1 < Len(f) /\ Len(f[1 + 1]) > 1 => Version(f, sig) = f[1 + 1][2]
  BY <1>1, VersionIs
<1>3. v \in Int /\ VersionOf(f, v)
  <2>1. 1 + 1 = 2 /\ (Len(f) >= 2 => 1 < Len(f))
    BY Cells
  <2> QED BY <1>2, <2>1 DEF VersionOf
<1>4. PICK a : a = [sig EXCEPT !.version = v]
  OBVIOUS
<1>5. /\ IsAdf(a) /\ a.junk = junk /\ a.numsprites = 0 /\ a.spriteflagsstart = 0 /\ a.version = v
      /\ a.scripts = <<>> /\ a.reading = TRUE /\ a.aoe = "success" /\ a.open = TRUE /\ a.pos = 1
  <2>1. WithVersion(sig, v, a)
    BY <1>1, <1>4, VersionSet
  <2> QED BY <1>1, <2>1 DEF WithVersion
<1>6. /\ IsAdf(h) /\ SameGame(a, h) /\ h.aoe = a.aoe /\ h.open = a.open /\ h.reading = a.reading
      /\ h.pos = IF 1 < Len(f) THEN 1 + 1 ELSE 1
  <2>1. CountedOn(f, a, 1, h)
    BY <1>4, <1>5, CountRead
  <2> QED BY <2>1 DEF CountedOn
<1>7. PICK p \in Nat : p = h.pos /\ p \in {1, 2} /\ (p >= 2 \/ Len(f) <= 1)
  <2>1. Len(f) \in Nat
    BY Cells
  <2> QED BY <1>6, <2>1
<1>8. Unlettered(f, p)
  <2>1. \A q \in 2..p - 1 : FALSE
    BY <1>7
  <2> QED BY <2>1 DEF Unlettered
<1>9. Stage(f, h, BaseErrors)
  <2>1. /\ IsAdf(h) /\ h.junk \in Nat /\ h.version \in Int /\ h.pos \in Nat /\ h.scripts = <<>>
        /\ h.reading = TRUE /\ h.aoe = "success" /\ h.open = TRUE
    BY <1>3, <1>5, <1>6, <1>7 DEF SameGame
  <2>2. Unlettered(f, h.pos) /\ h.pos >= 1 /\ (h.pos >= 2 \/ Len(f) <= 1)
    BY <1>7, <1>8
  <2> QED BY <2>1, <2>2 DEF Stage
<1>10. h.reading /\ p >= Len(f) => Cut(f)
  <2>1. ASSUME p >= Len(f) PROVE FontsEnd(f) = {} /\ Len(f) <= 3
    <3>1. Len(f) <= 2 /\ DOMAIN f = 1..Len(f) /\ Len(f) \in Nat
      BY <1>7, <2>1, Cells
    <3> QED BY <3>1 DEF FontsEnd
  <2> QED BY <2>1 DEF Cut
<1>11. /\ Stage(f, b, BaseErrors) /\ SameGame(h, b)
       /\ b.reading => b.pos = IF v >= 12 THEN p + 1 ELSE p
  <2>1. "verstr" \in Names /\ "header" \in BaseErrors
    BY DEF Names, BaseErrors
  <2>2. VersionString(v) = When(v >= 12, Section("verstr", "header", "success", TRUE))
    BY DEF VersionString
  <2>3. PICK cond : cond = (v >= 12)
    OBVIOUS
  <2>4. PICK s : s = When(cond, Section("verstr", "header", "success", TRUE)) /\ b = Read(f, s, h)
    BY <2>2, <2>3
  <2>5. HeaderOn(f, h, cond, p, b)
    BY <1>7, <1>9, <1>10, <2>1, <2>4, StageHeader, ZenonT(60)
  <2> QED BY <2>3, <2>5 DEF HeaderOn
<1>12. Unread(b, v)
  BY <1>5, <1>6, <1>11 DEF Unread, SameGame
<1>13. b.reading => b.pos \in {1, 2, 3}
  BY <1>7, <1>11
<1> QED BY <1>1, <1>3, <1>11, <1>12, <1>13

-----------------------------------------------------------------------------
(* The flags of the sprites                                                *)

\* The flags of a game are where it was read to have them.
FlagsOK(f, a) ==
  /\ a.numsprites \in Nat /\ a.spriteflagsstart \in Nat
  /\ a.spriteflagsstart + a.numsprites <= Len(f)
  /\ Flags(f) = a.spriteflagsstart + 1..a.spriteflagsstart + a.numsprites
Flagged(f, a) == FlagsOK(f, a) \/ (a.reading = FALSE /\ a.aoe \in BaseErrors)

LEMMA NoFlags ==
  ASSUME NEW f \in Files, NEW a, a.numsprites = 0, a.spriteflagsstart = 0, Flags(f) = {}
  PROVE  FlagsOK(f, a)
<1>1. 0 + 1..0 + 0 = {} /\ 0 + 0 <= Len(f)
  BY Cells
<1> QED BY <1>1 DEF FlagsOK

LEMMA CutHasNone ==
  ASSUME NEW f, FlagsPlaced(f), Cut(f)
  PROVE  Flags(f) = {}
  BY DEF FlagsPlaced, Cut

\* What says where the flags are is not changed any more.
LEMMA FlaggedOn ==
  ASSUME NEW f, NEW a, NEW b, Flagged(f, a), SameGame(a, b), a.reading = FALSE => b = a
  PROVE  Flagged(f, b)
  BY DEF Flagged, FlagsOK, SameGame

\* The fonts are the last to be read before the sprites.
FontsLast(s, n) == Len(s) = n /\ DOMAIN s = 1..n /\ s[n].kind = "fonts" /\ s[n].short = "gamebase"

LEMMA FontsAre ==
  ASSUME NEW a
  PROVE  \E n \in Nat \ {0} : FontsLast(FontSections(a), n)
<1>1. PICK w : w = When(a.version > 32, FAIL("guid", "gamebase"))
  OBVIOUS
<1>2. w \in BaseSections
  <2>1. FAIL("guid", "gamebase") \in BaseSections
    <3>1. "guid" \in Names /\ "gamebase" \in BaseErrors
      BY DEF Names, BaseErrors
    <3> QED BY <3>1, SectionIs DEF FAIL, BaseSections
  <2> QED BY <1>1, <2>1, WhenIs DEF BaseSections
<1>3. PICK c : c = [kind |-> "fonts", wrong |-> "gamebase", short |-> "gamebase", closes |-> TRUE]
  OBVIOUS
<1>4. FontSections(a) = w \o <<c>>
  BY <1>1, <1>3 DEF FontSections, FAIL, Section
<1>5. PICK S : w \in Seq(S) /\ c \in S
  <2>1. \E T : w \in Seq(T)
    BY <1>2 DEF BaseSections
  <2>2. PICK T : w \in Seq(T)
    BY <2>1
  <2>3. w \in Seq(T \cup {c}) /\ c \in T \cup {c}
    BY <2>2
  <2> QED BY <2>3
<1>6. PICK s : s = Append(w, c)
  OBVIOUS
<1>7. s = FontSections(a)
  <2>1. w \o <<c>> = Append(w, c)
    BY <1>5, AppendIsConcat
  <2> QED BY <1>4, <1>6, <2>1
<1>8. s \in Seq(S) /\ Len(s) = Len(w) + 1 /\ s[Len(w) + 1] = c
  BY <1>5, <1>6, AppendProperties
<1>9. PICK n \in Nat \ {0} : n = Len(w) + 1 /\ Len(s) = n /\ DOMAIN s = 1..n /\ s[n] = c
  <2>1. Len(w) \in Nat /\ DOMAIN s = 1..Len(s)
    BY <1>5, <1>8, LenProperties
  <2>2. Len(w) + 1 \in Nat \ {0}
    BY <2>1
  <2> QED BY <1>8, <2>1, <2>2
<1>10. s[n].kind = "fonts" /\ s[n].short = "gamebase"
  BY <1>3, <1>9
<1>11. FontsLast(s, n)
  BY <1>9, <1>10 DEF FontsLast
<1> QED BY <1>7, <1>11

LEMMA FontsRead ==
  ASSUME NEW f \in Files, NEW a, Stage(f, a, BaseErrors), NEW g,
         NEW b, b = Read(f, FontSections(g), a)
  PROVE  /\ Stage(f, b, BaseErrors) /\ SameGame(a, b)
         /\ ~a.reading => b = a
         /\ b.reading => a.reading /\ b.pos >= a.pos + 1 /\ (b.pos > 2 => b.pos \in FontsEnd(f))
<1>1. FontSections(g) \in Seq(SectionSet(Names, BaseErrors, TRUE))
  BY BaseLists DEF BaseSections
<1>2. PICK n \in Nat \ {0} : FontsLast(FontSections(g), n)
  BY FontsAre
<1>3. PICK s : s = FontSections(g) /\ FontsLast(s, n) /\ s \in Seq(SectionSet(Names, BaseErrors, TRUE))
  BY <1>1, <1>2
<1>4. Len(s) = n /\ DOMAIN s = 1..n /\ s[n].kind = "fonts" /\ s[n].short = "gamebase"
  BY <1>3 DEF FontsLast
<1>5. StageOn(f, BaseErrors, s, a, n, b)
  BY <1>3, <1>4, StageRead
<1>6. ASSUME b.reading
      PROVE  a.reading /\ b.pos >= a.pos + 1 /\ (b.pos > 2 => b.pos \in FontsEnd(f))
  <2>1. a.reading /\ Passed(f, s, a, b) /\ b.pos = a.pos + n
    BY <1>5, <1>6 DEF StageOn
  <2>2. PICK p \in Nat : p = a.pos
    BY DEF Stage
  <2>3. PICK q \in Nat : q = p + (n - 1) /\ q + 1 = p + n /\ p + n >= p + 1
    <3>1. p + (n - 1) \in Nat /\ (p + (n - 1)) + 1 = p + n /\ p + n >= p + 1
      OBVIOUS
    <3> QED BY <3>1
  <2>4. Kind(f, q) = "fonts"
    <3>1. n \in DOMAIN s
      BY <1>4
    <3>2. ~Fails(f, s[n], q)
      BY <2>1, <2>2, <2>3, <3>1 DEF Passed
    <3> QED BY <1>4, <3>2 DEF Fails
  <2>5. q + 1 \in DOMAIN f /\ f[q + 1][1] = "fonts"
    <3>1. ~(q >= Len(f)) /\ Len(f) \in Nat
      BY <2>4, EndIs, Cells
    <3>2. q < Len(f)
      BY <3>1
    <3> QED BY <2>4, <3>2, EndIs DEF Kind
  <2>6. q + 1 > 2 => q + 1 \in FontsEnd(f)
    BY <2>5 DEF FontsEnd
  <2> QED BY <2>1, <2>2, <2>3, <2>6
<1> QED BY <1>5, <1>6 DEF StageOn

\* The flags as ReadSpriteFlags counts them.
PlacedAt(f, a, start, n) ==
  /\ start = IF a.version < 24 THEN a.pos ELSE ReadCount(f, a).pos
  /\ n = IF a.version < 24 THEN OLD_SPRITES ELSE Count(f, a)
WithFlags(a, n, start, c) ==
  /\ IsAdf(c) /\ c.numsprites = n /\ c.spriteflagsstart = start /\ c.pos = a.pos
  /\ c.junk = a.junk /\ c.version = a.version /\ c.game = a.game /\ c.scripts = a.scripts
  /\ c.reading = a.reading /\ c.aoe = a.aoe /\ c.open = a.open

FlagsPassed(f, a, n, start, b) ==
  \E c : /\ WithFlags(a, n, start, c)
         /\ b = IF start + n > Len(f) THEN Stop(c, "gamebase", TRUE)
                ELSE [c EXCEPT !.pos = start + n]

LEMMA SpriteFlagsAre ==
  ASSUME NEW f, NEW a, IsAdf(a), NEW start, NEW n, PlacedAt(f, a, start, n),
         NEW b, b = ReadSpriteFlags(f, a), a.reading = TRUE
  PROVE  FlagsPassed(f, a, n, start, b)
<1>1. PICK c : c = [a EXCEPT !.numsprites = n, !.spriteflagsstart = start]
  OBVIOUS
<1>2. b = IF start + n > Len(f) THEN Stop(c, "gamebase", TRUE) ELSE [c EXCEPT !.pos = start + n]
  BY <1>1 DEF ReadSpriteFlags, PlacedAt
<1>3. WithFlags(a, n, start, c)
  BY <1>1 DEF IsAdf, AdfFields, WithFlags
<1> QED BY <1>2, <1>3 DEF FlagsPassed

\* Where the number of sprites and their flags are in a game.
LEMMA FlagsAt ==
  ASSUME NEW f \in Files, FlagsPlaced(f), NEW a, IsAdf(a), a.junk \in Nat, a.version \in Int,
         NEW p \in Nat, p = a.pos, p \in FontsEnd(f), VersionOf(f, a.version)
  PROVE  \E start \in Nat, n \in Nat :
            /\ PlacedAt(f, a, start, n) /\ p <= start /\ p > 2
            /\ start = p \/ (start = p + 1 /\ Kind(f, p) = "sprites")
            /\ start + n <= Len(f) => Flags(f) = start + 1..start + n
<1>1. Len(f) \in Nat /\ DOMAIN f = 1..Len(f) /\ p <= Len(f) /\ p > 2 /\ p \in DOMAIN f
  <2>1. Len(f) \in Nat /\ DOMAIN f = 1..Len(f)
    BY Cells
  <2>2. p \in DOMAIN f /\ p > 2
    BY DEF FontsEnd
  <2> QED BY <2>1, <2>2
<1>2. f[2][2] = a.version
  <2>1. Len(f[2]) > 1 /\ Len(f) >= 2
    BY <1>1 DEF FlagsPlaced
  <2> QED BY <2>1 DEF VersionOf
<1>3. CASE a.version < 24
  <2>1. Flags(f) = p + 1..p + OLD_SPRITES \cap DOMAIN f
    BY <1>2, <1>3 DEF FlagsPlaced
  <2>2. OLD_SPRITES \in Nat /\ PlacedAt(f, a, p, OLD_SPRITES)
    BY <1>3, FilesAssumption DEF PlacedAt
  <2>3. ASSUME p + OLD_SPRITES <= Len(f) PROVE Flags(f) = p + 1..p + OLD_SPRITES
    <3>1. p + 1..p + OLD_SPRITES \cap 1..Len(f) = p + 1..p + OLD_SPRITES
      BY <1>1, <2>2, <2>3
    <3> QED BY <1>1, <2>1, <3>1
  <2>4. p <= p
    OBVIOUS
  <2> QED BY <1>1, <2>2, <2>3, <2>4
<1>4. CASE ~(a.version < 24)
  <2>1. IF p = Len(f) THEN Flags(f) = {}
        ELSE f[p + 1][1] = "sprites" /\ Flags(f) = p + 2..p + 1 + f[p + 1][2] \cap DOMAIN f
    BY <1>2, <1>4 DEF FlagsPlaced
  <2>2. PICK n \in Nat : n = Count(f, a)
    BY CountIs
  <2>3. PICK d : d = ReadCount(f, a)
    OBVIOUS
  <2>4. d.pos = IF p < Len(f) THEN p + 1 ELSE p
    <3>1. CountedOn(f, a, p, d)
      BY <2>3, CountRead
    <3> QED BY <3>1 DEF CountedOn
  <2>5. PlacedAt(f, a, d.pos, n)
    BY <1>4, <2>2, <2>3 DEF PlacedAt
  <2>6. CASE p = Len(f)
    <3>1. d.pos = p /\ p <= p
      BY <1>1, <2>4, <2>6
    <3>2. ASSUME p + n <= Len(f) PROVE Flags(f) = p + 1..p + n
      <4>1. n = 0 /\ p + 1..p + n = {}
        BY <1>1, <2>6, <3>2
      <4> QED BY <2>1, <2>6, <4>1
    <3> QED BY <1>1, <2>5, <3>1, <3>2
  <2>7. CASE p # Len(f)
    <3>1. d.pos = p + 1 /\ p < Len(f) /\ p <= p + 1 /\ p + 1 \in Nat
      BY <1>1, <2>4, <2>7
    <3>2. f[p + 1] \in CELLS /\ CellAt(f, p) = f[p + 1]
      BY <3>1, EndIs
    <3>3. Kind(f, p) = "sprites"
      BY <2>1, <2>7, <3>2 DEF Kind
    <3>4. f[p + 1][1] \in {"sprites", "count"}
      BY <2>1, <2>7
    <3>5. n = f[p + 1][2]
      BY <2>2, <3>1, <3>4, CountIs
    <3>6. Flags(f) = p + 2..p + 1 + n \cap DOMAIN f
      BY <2>1, <2>7, <3>5
    <3>7. ASSUME (p + 1) + n <= Len(f) PROVE Flags(f) = (p + 1) + 1..(p + 1) + n
      <4>1. p + 2..p + 1 + n \cap 1..Len(f) = (p + 1) + 1..(p + 1) + n
        BY <1>1, <3>7
      <4> QED BY <1>1, <3>6, <4>1
    <3>8. PlacedAt(f, a, p + 1, n)
      BY <2>5, <3>1
    <3> QED BY <1>1, <3>1, <3>3, <3>7, <3>8
  <2> QED BY <2>6, <2>7
<1> QED BY <1>3, <1>4

FlagsOn(f, a, b) ==
  /\ Stage(f, b, BaseErrors) /\ Flagged(f, b)
  /\ b.version = a.version /\ b.junk = a.junk /\ b.game = a.game
  /\ b.reading => b.pos > 2

LEMMA FlagsRead ==
  ASSUME NEW f \in Files, FlagsPlaced(f), NEW a, Stage(f, a, BaseErrors),
         a.numsprites = 0, a.spriteflagsstart = 0, VersionOf(f, a.version),
         a.reading => a.pos \in FontsEnd(f), NEW b, b = ReadSpriteFlags(f, a)
  PROVE  FlagsOn(f, a, b)
<1>1. CASE ~a.reading
  <2>1. b = a
    BY <1>1 DEF ReadSpriteFlags
  <2>2. a.aoe \in BaseErrors \/ Cut(f)
    BY <1>1 DEF Stage
  <2>3. a.reading = FALSE
    BY <1>1 DEF Stage
  <2>4. Cut(f) => FlagsOK(f, a)
    BY CutHasNone, NoFlags
  <2>5. Flagged(f, a)
    BY <2>2, <2>3, <2>4 DEF Flagged
  <2> QED BY <1>1, <2>1, <2>5 DEF FlagsOn
<1>2. CASE a.reading
  <2>1. /\ IsAdf(a) /\ a.junk \in Nat /\ a.version \in Int /\ a.scripts = <<>> /\ a.reading = TRUE
        /\ a.aoe = "success" /\ a.open = TRUE
    BY <1>2 DEF Stage
  <2>2. PICK p \in Nat : p = a.pos /\ p \in FontsEnd(f) /\ Unlettered(f, p)
    BY <1>2 DEF Stage
  <2>3. PICK start \in Nat, n \in Nat :
            /\ PlacedAt(f, a, start, n) /\ p <= start /\ p > 2
            /\ start = p \/ (start = p + 1 /\ Kind(f, p) = "sprites")
            /\ start + n <= Len(f) => Flags(f) = start + 1..start + n
    BY <2>1, <2>2, FlagsAt
  <2>4. PICK c : /\ WithFlags(a, n, start, c)
                 /\ b = IF start + n > Len(f) THEN Stop(c, "gamebase", TRUE)
                        ELSE [c EXCEPT !.pos = start + n]
    <3>1. FlagsPassed(f, a, n, start, b)
      BY <2>1, <2>3, SpriteFlagsAre
    <3> QED BY <3>1, Zenon DEF FlagsPassed
  <2>5. Len(f) \in Nat
    BY Cells
  <2>6. IsAdf(c) /\ c.scripts = <<>> /\ c.numsprites = n /\ c.spriteflagsstart = start
        /\ c.junk = a.junk /\ c.version = a.version /\ c.game = a.game
        /\ c.reading = TRUE /\ c.aoe = "success" /\ c.open = TRUE /\ c.pos = p
    BY <2>1, <2>2, <2>4 DEF WithFlags
  <2>7. CASE start + n > Len(f)
    <3>1. b = Stop(c, "gamebase", TRUE)
      BY <2>4, <2>7
    <3>2. IsAdf(b) /\ SameGame(c, b) /\ b.pos = c.pos /\ b.aoe = "gamebase" /\ b.reading = FALSE
      <4>1. IsAdf(c)
        BY <2>6
      <4> QED BY <3>1, <4>1 DEF IsAdf, AdfFields, Stop, SameGame
    <3>3. b.aoe \in BaseErrors
      BY <3>2 DEF BaseErrors
    <3>4. Flagged(f, b)
      BY <3>2, <3>3 DEF Flagged
    <3>5. Stage(f, b, BaseErrors)
      BY <2>1, <2>6, <3>2, <3>3 DEF Stage, SameGame
    <3> QED BY <2>6, <3>2, <3>4, <3>5 DEF FlagsOn, SameGame
  <2>8. CASE ~(start + n > Len(f))
    <3>1. b = [c EXCEPT !.pos = start + n]
      BY <2>4, <2>8
    <3>2. /\ IsAdf(b) /\ SameGame(c, b) /\ b.pos = start + n
          /\ b.aoe = "success" /\ b.open = TRUE /\ b.reading = TRUE
      <4>1. IsAdf(c) /\ c.aoe = "success" /\ c.open = TRUE /\ c.reading = TRUE
        BY <2>6
      <4> QED BY <3>1, <4>1 DEF IsAdf, AdfFields, SameGame
    <3>3. start + n <= Len(f)
      BY <2>5, <2>8
    <3>4. FlagsOK(f, b)
      BY <2>3, <2>6, <3>2, <3>3 DEF FlagsOK, SameGame
    <3>5. Unlettered(f, start + n)
      <4> SUFFICES ASSUME NEW q \in 2..(start + n) - 1 PROVE Kind(f, q) \notin {"S", "C", "O", "M"}
        BY DEF Unlettered
      <4>1. CASE q < p
        BY <2>2, <4>1 DEF Unlettered
      <4>2. CASE q >= p /\ q < start
        <5>1. q = p /\ Kind(f, p) = "sprites"
          BY <2>3, <4>2
        <5> QED BY <5>1
      <4>3. CASE q >= start
        <5>1. q + 1 \in Flags(f)
          <6>1. q + 1 \in start + 1..start + n
            BY <4>3
          <6> QED BY <2>3, <3>3, <6>1
        <5>2. q \in Nat /\ q < Len(f) /\ f[q + 1][1] = "flag"
          <6>1. q \in Nat /\ q < Len(f)
            BY <2>5, <3>3
          <6> QED BY <5>1, <6>1 DEF Flags
        <5>3. Kind(f, q) = "flag"
          BY <5>2, EndIs DEF Kind
        <5> QED BY <5>3
      <4> QED BY <2>3, <4>1, <4>2, <4>3
    <3>6. start + n \in Nat /\ start + n >= 1 /\ start + n >= 2 /\ start + n > 2
      BY <2>3
    <3>7. Stage(f, b, BaseErrors)
      BY <2>1, <2>6, <3>2, <3>5, <3>6 DEF Stage, SameGame
    <3> QED BY <2>6, <3>2, <3>4, <3>6, <3>7 DEF FlagsOn, SameGame, Flagged
  <2> QED BY <2>7, <2>8
<1> QED BY <1>1, <1>2

\* A game read up to its scripts, or the error that has stopped it before them.
GameStage(f, a) ==
  /\ IsAdf(a) /\ a.junk \in Nat /\ a.version \in Int /\ a.pos \in Nat /\ a.scripts = <<>>
  /\ a.reading \in BOOLEAN /\ Flagged(f, a) /\ VersionOf(f, a.version)
  /\ IF a.reading
     THEN a.aoe = "success" /\ a.open = TRUE /\ (Untripped(f) => Before(f, a.pos) = {})
     ELSE a.aoe \in WorldErrors \/ (a.aoe = "success" /\ Cut(f))

\* No script begins among what is read before the scripts.
LEMMA NoneYet ==
  ASSUME NEW f \in Files, Kind(f, 0) = "sig", NEW p \in Nat, p > 2, Unlettered(f, p)
  PROVE  Before(f, p) = {}
<1> SUFFICES ASSUME NEW q \in Signatures(f), q < p PROVE FALSE
  BY DEF Before
<1>1. q \in Nat /\ LettersAt(f, q)
  BY SignaturesFinite, Signed
<1>2. CellAt(f, q) = <<"S">> /\ CellAt(f, q + 1) = <<"C">>
  BY <1>1 DEF LettersAt
<1>3. Kind(f, q) = "S" /\ Kind(f, q + 1) = "C"
  BY <1>2 DEF Kind
<1>4. CASE q = 0
  BY <1>3, <1>4
<1>5. CASE q = 1
  <2>1. q + 1 = 2 /\ 2 \in 2..p - 1
    BY <1>5
  <2> QED BY <1>3, <2>1 DEF Unlettered
<1>6. CASE q >= 2
  <2>1. q \in 2..p - 1
    BY <1>1, <1>6
  <2> QED BY <1>3, <2>1 DEF Unlettered
<1> QED BY <1>1, <1>4, <1>5, <1>6

LEMMA StageLater ==
  ASSUME NEW f, NEW a, Stage(f, a, BaseErrors)
  PROVE  Stage(f, a, WorldErrors)
  BY DEF Stage, WorldErrors

\* The counts of the game are read with its base.
BaseOn(f, a, b) ==
  /\ Stage(f, b, BaseErrors) /\ b.version = a.version /\ b.junk = a.junk
  /\ b.numsprites = a.numsprites /\ b.spriteflagsstart = a.spriteflagsstart
  /\ b.reading => b.pos >= 2

LEMMA BaseRead ==
  ASSUME NEW f \in Files, NEW a, Stage(f, a, BaseErrors), NEW b, b = ADF_read_gamebase(f, a)
  PROVE  BaseOn(f, a, b)
<1>1. PICK s : s = FAIL("gamebase", "gamebase") /\ s \in Seq(SectionSet(Names, BaseErrors, TRUE)) /\ Len(s) = 1
  <2>1. PICK c : c = [kind |-> "gamebase", wrong |-> "gamebase", short |-> "gamebase", closes |-> TRUE]
    OBVIOUS
  <2>2. PICK s : s = <<c>>
    OBVIOUS
  <2>3. s = FAIL("gamebase", "gamebase") /\ Len(s) = 1
    BY <2>1, <2>2 DEF FAIL, Section
  <2>4. FAIL("gamebase", "gamebase") \in Seq(SectionSet(Names, BaseErrors, TRUE))
    BY BaseLists DEF BaseSections
  <2> QED BY <2>3, <2>4
<1>2. PICK d : d = Read(f, s, a)
  OBVIOUS
<1>3. StageOn(f, BaseErrors, s, a, 1, d)
  BY <1>1, <1>2, StageRead
<1>4. Stage(f, d, BaseErrors) /\ SameGame(a, d) /\ (d.reading => a.reading /\ d.pos = a.pos + 1)
  BY <1>3 DEF StageOn
<1>5. d.reading => d.pos >= 2
  <2>1. a.reading => a.pos \in Nat /\ a.pos >= 1
    BY DEF Stage
  <2>2. \A p \in Nat : p >= 1 => p + 1 >= 2
    OBVIOUS
  <2> QED BY <1>4, <2>1, <2>2
<1>6. \E g : b = IF d.reading THEN [d EXCEPT !.game = g] ELSE d
  BY <1>1, <1>2 DEF ADF_read_gamebase
<1>7. PICK g : b = IF d.reading THEN [d EXCEPT !.game = g] ELSE d
  BY <1>6
<1>8. CASE d.reading
  <2>1. b = [d EXCEPT !.game = g] /\ IsAdf(d)
    BY <1>4, <1>7, <1>8 DEF Stage
  <2>2. /\ IsAdf(b) /\ b.version = d.version /\ b.junk = d.junk /\ b.numsprites = d.numsprites
        /\ b.spriteflagsstart = d.spriteflagsstart /\ b.scripts = d.scripts
        /\ b.reading = d.reading /\ b.aoe = d.aoe /\ b.open = d.open /\ b.pos = d.pos
    BY <2>1 DEF IsAdf, AdfFields
  <2>3. Stage(f, b, BaseErrors)
    BY <1>4, <2>2 DEF Stage
  <2> QED BY <1>4, <1>5, <2>2, <2>3 DEF BaseOn, SameGame
<1>9. CASE ~d.reading
  <2>1. b = d
    BY <1>7, <1>9
  <2> QED BY <1>4, <1>5, <2>1 DEF BaseOn, SameGame
<1> QED BY <1>8, <1>9

LEMMA NewGame ==
  ASSUME NEW f \in Files, FlagsPlaced(f), Kind(f, 0) = "sig", NEW a, Stage(f, a, BaseErrors),
         NEW v, Unread(a, v), VersionOf(f, v), NEW b, b = ReadGame(f, a)
  PROVE  GameStage(f, b)
<1>1. PICK c : c = Read(f, Capabilities(a), a)
  OBVIOUS
<1>2. PICK base : base = ADF_read_gamebase(f, c)
  OBVIOUS
<1>3. PICK fonts : fonts = Read(f, FontSections(a), base)
  OBVIOUS
<1>4. PICK flags : flags = ReadSpriteFlags(f, fonts)
  OBVIOUS
<1>5. b = Read(f, WorldSections(flags), flags)
  BY <1>1, <1>2, <1>3, <1>4 DEF ReadGame
<1>6. Stage(f, c, BaseErrors) /\ SameGame(a, c)
  <2>1. PICK s : s = Capabilities(a) /\ s \in Seq(SectionSet(Names, BaseErrors, TRUE))
    BY BaseLists DEF BaseSections
  <2>2. StageOn(f, BaseErrors, s, a, Len(s), c)
    BY <1>1, <2>1, StageRead
  <2> QED BY <2>2 DEF StageOn
<1>7. BaseOn(f, c, base)
  BY <1>2, <1>6, BaseRead
<1>8. /\ Stage(f, base, BaseErrors) /\ base.version = v /\ base.numsprites = 0
      /\ base.spriteflagsstart = 0 /\ (base.reading => base.pos >= 2)
  BY <1>6, <1>7 DEF BaseOn, SameGame, Unread
<1>9. /\ Stage(f, fonts, BaseErrors) /\ SameGame(base, fonts)
      /\ fonts.reading => base.reading /\ fonts.pos >= base.pos + 1
                          /\ (fonts.pos > 2 => fonts.pos \in FontsEnd(f))
  BY <1>3, <1>8, FontsRead
<1>10. fonts.reading => fonts.pos \in FontsEnd(f)
  <2>1. base.pos \in Nat /\ fonts.pos \in Nat
    BY <1>8, <1>9 DEF Stage
  <2>2. \A p, q \in Nat : p >= 2 /\ q >= p + 1 => q > 2
    OBVIOUS
  <2> QED BY <1>8, <1>9, <2>1, <2>2
<1>11. fonts.version = v /\ fonts.numsprites = 0 /\ fonts.spriteflagsstart = 0
  BY <1>8, <1>9 DEF SameGame
<1>12. FlagsOn(f, fonts, flags)
  BY <1>4, <1>9, <1>10, <1>11, FlagsRead
<1>13. /\ Stage(f, flags, BaseErrors) /\ Flagged(f, flags) /\ flags.version = v
       /\ flags.reading => flags.pos > 2
  BY <1>11, <1>12 DEF FlagsOn
<1>14. PICK w : w = WorldSections(flags) /\ w \in Seq(SectionSet(Names, WorldErrors, TRUE))
  BY WorldLists DEF WorldReaders
<1>15. StageOn(f, WorldErrors, w, flags, Len(w), b) /\ Len(w) \in Nat
  <2>1. Stage(f, flags, WorldErrors) /\ b = Read(f, w, flags)
    BY <1>5, <1>13, <1>14, StageLater
  <2> QED BY <1>14, <2>1, StageRead
<1>16. /\ Stage(f, b, WorldErrors) /\ SameGame(flags, b) /\ (~flags.reading => b = flags)
       /\ b.reading => flags.reading /\ b.pos = flags.pos + Len(w)
  BY <1>15 DEF StageOn
<1>17. Flagged(f, b)
  BY <1>13, <1>16, FlaggedOn
<1>18. ASSUME b.reading PROVE Before(f, b.pos) = {}
  <2>1. flags.pos > 2 /\ b.pos = flags.pos + Len(w) /\ b.pos \in Nat /\ Unlettered(f, b.pos)
    BY <1>13, <1>16, <1>18 DEF Stage
  <2>2. flags.pos \in Nat
    BY <1>13 DEF Stage
  <2>3. \A p, n \in Nat : p > 2 => p + n > 2
    OBVIOUS
  <2>4. b.pos > 2
    BY <1>15, <2>1, <2>2, <2>3
  <2> QED BY <2>1, <2>4, NoneYet
<1>19. VersionOf(f, b.version)
  BY <1>13, <1>16 DEF SameGame
<1> QED BY <1>16, <1>17, <1>18, <1>19 DEF GameStage, Stage

\* Games of the old versions have no flags.
LEMMA OldHasNone ==
  ASSUME NEW f \in Files, FlagsPlaced(f), NEW v \in Int, v <= 12, VersionOf(f, v)
  PROVE  FontsEnd(f) = {} /\ Flags(f) = {}
<1>1. ASSUME NEW p \in FontsEnd(f) PROVE FALSE
  <2>1. Len(f[2]) > 1
    BY DEF FlagsPlaced
  <2>2. Len(f) >= 2
    <3>1. p \in DOMAIN f /\ p > 2 /\ DOMAIN f = 1..Len(f) /\ Len(f) \in Nat
      BY Cells DEF FontsEnd
    <3> QED BY <3>1
  <2>3. f[2][2] = v
    BY <2>1, <2>2 DEF VersionOf
  <2>4. f[2][2] < 24 => f[2][2] > 12
    BY DEF FlagsPlaced
  <2> QED BY <2>3, <2>4
<1> QED BY <1>1 DEF FlagsPlaced

LEMMA OldGame ==
  ASSUME NEW f \in Files, FlagsPlaced(f), Kind(f, 0) = "sig", NEW a, Stage(f, a, BaseErrors),
         a.reading => a.pos \in {1, 2, 3},
         NEW v \in Int, v <= 12, Unread(a, v), VersionOf(f, v), NEW b, b = ReadOldGame(f, a)
  PROVE  GameStage(f, b)
<1>1. FontsEnd(f) = {} /\ Flags(f) = {} /\ Len(f) \in Nat
  BY OldHasNone, Cells
<1>2. PICK p \in Nat : p = a.pos
  BY DEF Stage
<1>3. PICK c : c = Read(f, OldHeader, a)
  OBVIOUS
<1>4. HeaderOn(f, a, TRUE, p, c)
  <2>1. "oldhdr" \in Names /\ "gamebase" \in BaseErrors
    BY DEF Names, BaseErrors
  <2>2. PICK s : s = When(TRUE, Section("oldhdr", "gamebase", "success", TRUE))
    OBVIOUS
  <2>3. s = OldHeader
    BY <2>2 DEF When, OldHeader
  <2>4. a.reading /\ p >= Len(f) => Cut(f)
    <3>1. ASSUME a.reading, p >= Len(f) PROVE Len(f) <= 3
      <4>1. p <= 3
        BY <1>2, <3>1
      <4> QED BY <1>1, <3>1, <4>1
    <3> QED BY <1>1, <3>1 DEF Cut
  <2> QED BY <1>2, <1>3, <2>1, <2>2, <2>3, <2>4, StageHeader
<1>5. /\ Stage(f, c, BaseErrors) /\ SameGame(a, c)
      /\ c.reading => a.reading /\ c.pos = p + 1 /\ p < Len(f)
  BY <1>4 DEF HeaderOn
<1>6. c.version = v /\ c.numsprites = 0 /\ c.spriteflagsstart = 0
  BY <1>5 DEF SameGame, Unread
<1>7. PICK scom : scom = ARF_find_code_start(f, c.pos)
  OBVIOUS
<1>8. b = IF ~c.reading THEN c
          ELSE IF scom = NotFound THEN Stop(c, "gamebase", TRUE) ELSE [c EXCEPT !.pos = scom]
  BY <1>3, <1>7 DEF ReadOldGame
<1>9. IsAdf(c) /\ c.junk \in Nat /\ c.pos \in Nat /\ c.scripts = <<>> /\ c.reading \in BOOLEAN
  BY <1>5 DEF Stage
<1>10. CASE ~c.reading
  <2>1. b = c
    BY <1>8, <1>10
  <2>2. c.aoe \in BaseErrors \/ (c.aoe = "success" /\ Cut(f))
    BY <1>5, <1>10 DEF Stage
  <2>3. Flagged(f, c)
    BY <1>1, <1>6, NoFlags DEF Flagged
  <2>4. VersionOf(f, c.version) /\ c.version \in Int
    BY <1>6
  <2>5. c.aoe \in WorldErrors \/ (c.aoe = "success" /\ Cut(f))
    BY <2>2 DEF WorldErrors
  <2> QED BY <1>9, <1>10, <2>1, <2>3, <2>4, <2>5 DEF GameStage
<1>11. CASE c.reading /\ scom = NotFound
  <2>1. b = Stop(c, "gamebase", TRUE)
    BY <1>8, <1>11
  <2>2. IsAdf(b) /\ SameGame(c, b) /\ b.pos = c.pos /\ b.aoe = "gamebase" /\ b.reading = FALSE
    BY <1>9, <2>1 DEF IsAdf, AdfFields, Stop, SameGame
  <2>3. Flagged(f, b)
    BY <2>2 DEF Flagged, BaseErrors
  <2>4. b.aoe \in WorldErrors
    BY <2>2 DEF WorldErrors, BaseErrors
  <2> QED BY <1>6, <1>9, <2>2, <2>3, <2>4 DEF GameStage, SameGame
<1>12. CASE c.reading /\ scom # NotFound
  <2>1. b = [c EXCEPT !.pos = scom]
    BY <1>8, <1>12
  <2>2. c.reading = TRUE /\ c.aoe = "success" /\ c.open = TRUE /\ Unlettered(f, c.pos)
    BY <1>5, <1>12 DEF Stage
  <2>3. /\ IsAdf(b) /\ SameGame(c, b) /\ b.pos = scom
        /\ b.aoe = "success" /\ b.open = TRUE /\ b.reading = TRUE
    BY <1>9, <2>1, <2>2 DEF IsAdf, AdfFields, SameGame
  <2>4. PICK start \in Nat : start = c.pos /\ start = p + 1 /\ p < Len(f)
    BY <1>5, <1>12
  <2>5. start <= Len(f) /\ start > 2
    <3>1. p >= 2 \/ Len(f) <= 1
      BY <1>2, <1>5, <1>12 DEF Stage
    <3>2. p \in {1, 2, 3}
      BY <1>2, <1>5, <1>12
    <3> QED BY <1>1, <2>4, <3>1, <3>2
  <2>6. scom \in Signatures(f)
    BY <1>7, <1>12, <2>4, <2>5, SearchFinds
  <2>7. scom \in Nat /\ Signatures(f) \in SUBSET Nat
    BY <2>6, SignaturesFinite
  <2>8. ASSUME Untripped(f) PROVE Before(f, scom) = {}
    <3>1. Before(f, start) = {}
      BY <2>2, <2>4, <2>5, NoneYet
    <3>2. \A q \in Behind(f, start) : scom <= q
      <4>1. IF Behind(f, start) = {} THEN scom = NotFound
            ELSE scom \in Behind(f, start) /\ \A q \in Behind(f, start) : scom <= q
        BY <1>7, <2>4, <2>5, <2>8, Searched
      <4> QED BY <4>1
    <3>3. ASSUME NEW q \in Signatures(f), q < scom PROVE FALSE
      <4>1. CASE q < start
        BY <3>1, <4>1 DEF Before
      <4>2. CASE ~(q < start)
        <5>1. start <= q
          BY <2>7, <4>2
        <5>2. scom <= q
          BY <3>2, <5>1 DEF Behind
        <5> QED BY <2>7, <3>3, <5>2
      <4> QED BY <4>1, <4>2
    <3> QED BY <3>3 DEF Before
  <2>9. Flagged(f, b)
    <3>1. b.numsprites = 0 /\ b.spriteflagsstart = 0
      BY <1>6, <2>3 DEF SameGame
    <3> QED BY <1>1, <3>1, NoFlags DEF Flagged
  <2> QED BY <1>6, <1>9, <2>3, <2>7, <2>8, <2>9 DEF GameStage, SameGame
<1> QED BY <1>9, <1>10, <1>11, <1>12

LEMMA GameIs ==
  ASSUME NEW f \in Files, FlagsPlaced(f), NEW junk \in Nat,
         NEW sig, sig = Read(f, Signature, NewADF(junk)), sig.reading,
         NEW v, v = Version(f, sig),
         NEW h, h = Read(f, VersionString(v), ReadCount(f, [sig EXCEPT !.version = v])),
         NEW b, b = IF v <= 12 THEN ReadOldGame(f, h) ELSE ReadGame(f, h)
  PROVE  GameStage(f, b)
<1>1. PICK c : c = ReadCount(f, [sig EXCEPT !.version = v])
  OBVIOUS
<1>2. h = Read(f, VersionString(v), c)
  BY <1>1
<1>3. /\ Stage(f, h, BaseErrors) /\ Unread(h, v) /\ VersionOf(f, v) /\ v \in Int
      /\ Kind(f, 0) = "sig" /\ (h.reading => h.pos \in {1, 2, 3})
  BY <1>1, <1>2, HeaderRead
<1>4. CASE v <= 12
  <2>1. b = ReadOldGame(f, h)
    BY <1>4
  <2> QED BY <1>3, <1>4, <2>1, OldGame
<1>5. CASE ~(v <= 12)
  <2>1. b = ReadGame(f, h)
    BY <1>5
  <2> QED BY <1>3, <2>1, NewGame
<1> QED BY <1>4, <1>5

-----------------------------------------------------------------------------
(* Reading the scripts of a game                                           *)

\* The scripts that begin before a position, one after the other.
Listed(f, ss, p) ==
  /\ Len(ss) \in Nat /\ DOMAIN ss = 1..Len(ss)
  /\ Cardinality(Before(f, p)) = Len(ss)
  /\ \A k \in 1..Len(ss) :
        /\ ss[k].start \in Signatures(f) /\ Cardinality(Before(f, ss[k].start)) = k - 1
        /\ ss[k].len = ASI_read_script(f, ss[k].start)

\* The files whose scripts are where a game has them.
Told(f) == Plain(f) /\ ScriptsPlaced(f)

ScriptSet == [start : Nat, len : Nat]
ScriptErrors == WorldErrors \cup {"script"}

ScriptStage(f, a) ==
  /\ IsAdf(a) /\ a.junk \in Nat /\ a.version \in Int /\ a.pos \in Nat /\ a.scripts \in Seq(ScriptSet)
  /\ a.reading \in BOOLEAN /\ Flagged(f, a) /\ VersionOf(f, a.version)
  /\ IF a.reading
     THEN a.aoe = "success" /\ a.open = TRUE /\ (Told(f) => Listed(f, a.scripts, a.pos))
     ELSE a.aoe \in ScriptErrors \/ (a.aoe = "success" /\ Cut(f) /\ a.scripts = <<>>)

LEMMA ScriptsBegin ==
  ASSUME NEW f \in Files, NEW a, GameStage(f, a)
  PROVE  ScriptStage(f, a)
<1>1. a.scripts \in Seq(ScriptSet) /\ a.scripts = <<>>
  BY EmptySeq DEF GameStage
<1>2. ASSUME a.reading, Told(f) PROVE Listed(f, a.scripts, a.pos)
  <2>1. Untripped(f)
    BY <1>2, PlainIs DEF Told
  <2>2. Cardinality(Before(f, a.pos)) = 0
    <3>1. Before(f, a.pos) = {}
      BY <1>2, <2>1 DEF GameStage
    <3> QED BY <3>1, FS_EmptySet
  <2>3. Len(<<>>) = 0 /\ DOMAIN <<>> = 1..0 /\ 1..0 = {}
    OBVIOUS
  <2> QED BY <1>1, <2>2, <2>3 DEF Listed
<1>3. ~a.reading => a.aoe \in ScriptErrors \/ (a.aoe = "success" /\ Cut(f) /\ a.scripts = <<>>)
  BY <1>1 DEF GameStage, ScriptErrors
<1> QED BY <1>1, <1>2, <1>3 DEF GameStage, ScriptStage

\* One script more, and what else is changed by reading it.
ScriptAdded(a, len, b) ==
  /\ IsAdf(b) /\ b.pos = a.pos + len /\ b.scripts = Append(a.scripts, [start |-> a.pos, len |-> len])
  /\ b.aoe = a.aoe /\ b.open = a.open /\ b.reading = a.reading /\ b.junk = a.junk
  /\ b.version = a.version /\ b.game = a.game
  /\ b.numsprites = a.numsprites /\ b.spriteflagsstart = a.spriteflagsstart

LEMMA ScriptAddedIs ==
  ASSUME NEW a, IsAdf(a), NEW len, NEW b,
         b = [a EXCEPT !.pos = @ + len, !.scripts = Append(@, [start |-> a.pos, len |-> len])]
  PROVE  ScriptAdded(a, len, b)
  BY DEF IsAdf, AdfFields, ScriptAdded

\* A script behind those listed is the next one to be listed.
LEMMA ListedOn ==
  ASSUME NEW f \in Files, Plain(f), NEW ss \in Seq(ScriptSet), NEW p \in Nat, Listed(f, ss, p),
         NEW len \in Nat, len = ASI_read_script(f, p), len # 0,
         NEW tt, tt = Append(ss, [start |-> p, len |-> len])
  PROVE  Listed(f, tt, p + len) /\ tt \in Seq(ScriptSet) /\ Len(tt) = Len(ss) + 1
<1>1. PICK c \in ScriptSet : c = [start |-> p, len |-> len]
  BY DEF ScriptSet
<1>2. c.start = p /\ c.len = len
  BY <1>1
<1>3. PICK n \in Nat : n = Len(ss) /\ DOMAIN ss = 1..n
  BY DEF Listed
<1>4. tt \in Seq(ScriptSet) /\ Len(tt) = n + 1 /\ tt[n + 1] = c /\ \A k \in 1..n : tt[k] = ss[k]
  BY <1>1, <1>3, AppendProperties
<1>5. p \in Signatures(f) /\ len >= 6
  BY ScriptIs
<1>6. Cardinality(Before(f, p)) = n
  BY <1>3 DEF Listed
<1>7. Cardinality(Before(f, p + len)) = n + 1
  <2>1. p + len \in Int /\ p < p + len
    BY <1>5
  <2>2. \A q \in Signatures(f) : p < q => p + len <= q
    BY <1>5, PlainIs
  <2> QED BY <1>5, <1>6, <2>1, <2>2, OneMoreBefore
<1>8. DOMAIN tt = 1..n + 1
  BY <1>4, LenProperties
<1>9. ASSUME NEW k \in 1..n + 1
      PROVE  /\ tt[k].start \in Signatures(f) /\ Cardinality(Before(f, tt[k].start)) = k - 1
             /\ tt[k].len = ASI_read_script(f, tt[k].start)
  <2>1. CASE k = n + 1
    <3>1. tt[k] = c /\ k - 1 = n
      BY <1>4, <2>1
    <3> QED BY <1>2, <1>5, <1>6, <3>1
  <2>2. CASE k # n + 1
    <3>1. k \in 1..n /\ tt[k] = ss[k]
      BY <1>4, <2>2
    <3> QED BY <1>3, <3>1 DEF Listed
  <2> QED BY <2>1, <2>2
<1>10. n + 1 \in Nat
  OBVIOUS
<1> QED BY <1>3, <1>4, <1>7, <1>8, <1>9, <1>10 DEF Listed

\* What reading scripts does not change.
SameHead(a, b) ==
  /\ b.junk = a.junk /\ b.version = a.version /\ b.game = a.game
  /\ b.numsprites = a.numsprites /\ b.spriteflagsstart = a.spriteflagsstart

\* A position behind the last script.
AtEnd(ss, p) == p = ss[Len(ss)].start + ss[Len(ss)].len

ScriptOn(f, a, b) ==
  /\ ScriptStage(f, b) /\ SameHead(a, b)
  /\ ~a.reading => b = a
  /\ b.reading => a.reading /\ Len(b.scripts) = Len(a.scripts) + 1 /\ AtEnd(b.scripts, b.pos)

LEMMA ScriptLen ==
  ASSUME NEW f \in Files, NEW p \in Nat
  PROVE  ASI_read_script(f, p) \in Nat
<1>1. ASI_read_script(f, p) # 0 => ASI_read_script(f, p) \in Nat
  BY ScriptIs
<1> QED BY <1>1

LEMMA ScriptRead ==
  ASSUME NEW f \in Files, NEW a, ScriptStage(f, a), NEW b, b = ReadScript(f, a)
  PROVE  ScriptOn(f, a, b)
<1>1. PICK len \in Nat, p \in Nat : len = ASI_read_script(f, p) /\ p = a.pos
  <2>1. a.pos \in Nat
    BY DEF ScriptStage
  <2> QED BY <2>1, ScriptLen
<1>2. b = IF ~a.reading THEN a
          ELSE IF len = 0 THEN Stop(a, "script", TRUE)
          ELSE [a EXCEPT !.pos = @ + len, !.scripts = Append(@, [start |-> a.pos, len |-> len])]
  BY <1>1 DEF ReadScript
<1>3. /\ IsAdf(a) /\ a.junk \in Nat /\ a.version \in Int /\ a.scripts \in Seq(ScriptSet)
      /\ a.reading \in BOOLEAN /\ Flagged(f, a) /\ VersionOf(f, a.version)
  BY DEF ScriptStage
<1>4. CASE ~a.reading
  <2>1. b = a
    BY <1>2, <1>4
  <2>2. ~b.reading
    BY <1>4, <2>1
  <2>3. SameHead(a, b)
    BY <2>1 DEF SameHead
  <2> QED BY <1>4, <2>1, <2>2, <2>3 DEF ScriptOn
<1>5. CASE a.reading /\ len = 0
  <2>1. b = Stop(a, "script", TRUE)
    BY <1>2, <1>5
  <2>2. IsAdf(b) /\ SameGame(a, b) /\ b.pos = a.pos /\ b.aoe = "script" /\ b.reading = FALSE
    BY <1>3, <2>1 DEF IsAdf, AdfFields, Stop, SameGame
  <2>3. FlagsOK(f, a)
    BY <1>3, <1>5 DEF Flagged
  <2>4. Flagged(f, b)
    BY <2>2, <2>3 DEF Flagged, FlagsOK, SameGame
  <2>5. b.aoe \in ScriptErrors
    BY <2>2 DEF ScriptErrors
  <2>6. ScriptStage(f, b)
    BY <1>1, <1>3, <2>2, <2>4, <2>5 DEF ScriptStage, SameGame
  <2> QED BY <1>5, <2>2, <2>6 DEF ScriptOn, SameHead, SameGame
<1>6. CASE a.reading /\ len # 0
  <2>1. b = [a EXCEPT !.pos = @ + len, !.scripts = Append(@, [start |-> a.pos, len |-> len])]
    BY <1>2, <1>6
  <2>2. ScriptAdded(a, len, b)
    BY <1>3, <2>1, ScriptAddedIs
  <2>3. /\ IsAdf(b) /\ b.pos = p + len /\ b.scripts = Append(a.scripts, [start |-> p, len |-> len])
        /\ b.aoe = a.aoe /\ b.open = a.open /\ b.reading = TRUE /\ SameHead(a, b)
    BY <1>1, <1>3, <1>6, <2>2 DEF ScriptAdded, SameHead
  <2>4. FlagsOK(f, a)
    BY <1>3, <1>6 DEF Flagged
  <2>5. Flagged(f, b)
    BY <2>3, <2>4 DEF Flagged, FlagsOK, SameHead
  <2>6. p + len \in Nat /\ b.scripts \in Seq(ScriptSet) /\ Len(b.scripts) = Len(a.scripts) + 1
    <3>1. PICK c \in ScriptSet : c = [start |-> p, len |-> len]
      BY DEF ScriptSet
    <3> QED BY <1>3, <2>3, <3>1, AppendProperties
  <2>7. a.aoe = "success" /\ a.open = TRUE /\ (Told(f) => Listed(f, a.scripts, p))
    BY <1>1, <1>6 DEF ScriptStage
  <2>8. Told(f) => Listed(f, b.scripts, p + len)
    BY <1>1, <1>3, <1>6, <2>3, <2>7, ListedOn DEF Told
  <2>9. ScriptStage(f, b)
    BY <1>3, <2>3, <2>5, <2>6, <2>7, <2>8 DEF ScriptStage, SameHead
  <2>10. AtEnd(b.scripts, b.pos)
    <3>1. PICK c \in ScriptSet : c = [start |-> p, len |-> len] /\ c.start = p /\ c.len = len
      <4>1. PICK c \in ScriptSet : c = [start |-> p, len |-> len]
        BY DEF ScriptSet
      <4>2. c.start = p /\ c.len = len
        BY <4>1
      <4> QED BY <4>1, <4>2
    <3>2. b.scripts[Len(a.scripts) + 1] = c
      BY <1>3, <2>3, <3>1, AppendProperties
    <3>3. b.scripts[Len(b.scripts)] = c
      BY <2>6, <3>2
    <3> QED BY <2>3, <3>1, <3>3 DEF AtEnd
  <2> QED BY <1>6, <2>3, <2>6, <2>9, <2>10 DEF ScriptOn
<1> QED BY <1>1, <1>4, <1>5, <1>6

\* The games that reading scripts makes of one.
AdfSet(a) ==
  [pos : Nat, aoe : {a.aoe, "script"}, reading : BOOLEAN, open : {a.open, FALSE}, junk : {a.junk},
   version : {a.version}, game : {a.game}, numsprites : {a.numsprites},
   spriteflagsstart : {a.spriteflagsstart}, scripts : Seq(ScriptSet)]

LEMMA InAdfSet ==
  ASSUME NEW f \in Files, NEW a, ScriptStage(f, a)
  PROVE  a \in AdfSet(a)
<1>1. IsAdf(a) /\ a.pos \in Nat /\ a.scripts \in Seq(ScriptSet) /\ a.reading \in BOOLEAN
  BY DEF ScriptStage
<1> QED BY <1>1 DEF IsAdf, AdfFields, AdfSet

LEMMA ScriptInAdfSet ==
  ASSUME NEW f \in Files, NEW a, NEW x \in AdfSet(a), ScriptStage(f, x), NEW b, b = ReadScript(f, x)
  PROVE  b \in AdfSet(a)
<1>1. PICK len \in Nat, p \in Nat : len = ASI_read_script(f, p) /\ p = x.pos
  <2>1. x.pos \in Nat
    BY DEF ScriptStage
  <2> QED BY <2>1, ScriptLen
<1>2. b = IF ~x.reading THEN x
          ELSE IF len = 0 THEN Stop(x, "script", TRUE)
          ELSE [x EXCEPT !.pos = @ + len, !.scripts = Append(@, [start |-> x.pos, len |-> len])]
  BY <1>1 DEF ReadScript
<1>3. CASE ~x.reading
  BY <1>2, <1>3
<1>4. CASE x.reading /\ len = 0
  <2>1. b = [x EXCEPT !.aoe = "script", !.reading = FALSE, !.open = FALSE]
    BY <1>2, <1>4 DEF Stop
  <2> QED BY <2>1 DEF AdfSet
<1>5. CASE x.reading /\ len # 0
  <2>1. PICK c \in ScriptSet : c = [start |-> p, len |-> len]
    BY DEF ScriptSet
  <2>2. PICK tt \in Seq(ScriptSet) : tt = Append(x.scripts, c)
    <3>1. x.scripts \in Seq(ScriptSet)
      BY DEF ScriptStage
    <3> QED BY <3>1, AppendProperties
  <2>3. PICK q \in Nat : q = p + len
    OBVIOUS
  <2>4. b = [x EXCEPT !.pos = q, !.scripts = tt]
    BY <1>1, <1>2, <1>5, <2>1, <2>2, <2>3
  <2> QED BY <2>4 DEF AdfSet
<1> QED BY <1>3, <1>4, <1>5

ScriptsOf(g, f, n, a) == g = [k \in 0..n |-> IF k = 0 THEN a ELSE ReadScript(f, g[k - 1])]

LEMMA ScriptsExist ==
  ASSUME NEW f \in Files, NEW n \in Nat, NEW a, ScriptStage(f, a)
  PROVE  \E g : ScriptsOf(g, f, n, a)
<1> DEFINE W == {x \in AdfSet(a) : ScriptStage(f, x)}
           S == [x \in W |-> ReadScript(f, x)]
           F == [k \in Nat |-> S]
<1>1. a \in W
  BY InAdfSet
<1>2. ASSUME NEW x \in W PROVE ReadScript(f, x) \in W
  <2>1. PICK b : b = ReadScript(f, x)
    OBVIOUS
  <2>2. ScriptStage(f, b) /\ b \in AdfSet(a)
    BY <2>1, ScriptRead, ScriptInAdfSet DEF ScriptOn
  <2> QED BY <2>1, <2>2
<1>3. S \in [W -> W]
  BY <1>2
<1>4. F \in [Nat -> [W -> W]]
  BY <1>3
<1>5. \A k \in Nat, x \in W : F[k][x] = ReadScript(f, x)
  OBVIOUS
<1> HIDE DEF W, S, F
<1>6. PICK g : IteratedBy(g, W, a, F, n)
  BY <1>1, <1>4, Iterated
<1>7. g \in [0..n -> W] /\ g[0] = a /\ \A k \in 1..n : g[k] = F[k][g[k - 1]]
  BY <1>6 DEF IteratedBy
<1>8. ASSUME NEW k \in 0..n PROVE g[k] = IF k = 0 THEN a ELSE ReadScript(f, g[k - 1])
  <2>1. CASE k = 0
    BY <1>7, <2>1
  <2>2. CASE k # 0
    <3>1. k \in 1..n /\ k - 1 \in 0..n /\ k \in Nat
      BY <2>2
    <3>2. g[k] = F[k][g[k - 1]] /\ g[k - 1] \in W
      BY <1>7, <3>1
    <3> QED BY <1>5, <2>2, <3>1, <3>2
  <2> QED BY <2>1, <2>2
<1>9. g = [k \in 0..n |-> IF k = 0 THEN a ELSE ReadScript(f, g[k - 1])]
  BY <1>7, <1>8
<1> QED BY <1>9 DEF ScriptsOf

\* What n more scripts make of a game.
ScriptsOn(f, n, a, b) ==
  /\ ScriptStage(f, b) /\ SameHead(a, b)
  /\ ~a.reading => b = a
  /\ b.reading => a.reading /\ Len(b.scripts) = Len(a.scripts) + n
                 /\ (n > 0 => AtEnd(b.scripts, b.pos))

LEMMA ScriptsRead ==
  ASSUME NEW f \in Files, NEW n \in Nat, NEW a, ScriptStage(f, a), NEW b, b = ReadScripts(f, n, a)
  PROVE  ScriptsOn(f, n, a, b)
<1> DEFINE h == CHOOSE g : ScriptsOf(g, f, n, a)
<1>1. ScriptsOf(h, f, n, a)
  BY ScriptsExist
<1>2. ReadScripts(f, n, a) = h[n]
  BY DEF ReadScripts, ScriptsOf
<1> HIDE DEF h
<1>3. h[0] = a /\ \A k \in 1..n : h[k] = ReadScript(f, h[k - 1])
  BY <1>1 DEF ScriptsOf
<1> DEFINE S == {k \in Nat : k <= n => ScriptsOn(f, k, a, h[k])}
<1>4. 0 \in S
  <2>1. Len(a.scripts) \in Nat
    BY LenProperties DEF ScriptStage
  <2>2. Len(a.scripts) + 0 = Len(a.scripts)
    BY <2>1
  <2>3. SameHead(a, a) /\ ~(0 > 0)
    BY DEF SameHead
  <2> QED BY <1>3, <2>2, <2>3 DEF ScriptsOn
<1>5. ASSUME NEW k \in S PROVE k + 1 \in S
  <2> SUFFICES ASSUME k + 1 <= n PROVE ScriptsOn(f, k + 1, a, h[k + 1])
    OBVIOUS
  <2>1. k <= n /\ k + 1 \in 1..n /\ (k + 1) - 1 = k
    OBVIOUS
  <2>2. PICK x : x = h[k] /\ ScriptsOn(f, k, a, x)
    BY <2>1
  <2>3. PICK y : y = h[k + 1] /\ y = ReadScript(f, x)
    BY <1>3, <2>1, <2>2
  <2>4. ScriptOn(f, x, y)
    BY <2>2, <2>3, ScriptRead DEF ScriptsOn
  <2>5. SameHead(a, y)
    BY <2>2, <2>4 DEF ScriptsOn, ScriptOn, SameHead
  <2>6. ~a.reading => y = a
    BY <2>2, <2>4 DEF ScriptsOn, ScriptOn
  <2>7. ASSUME y.reading
        PROVE  a.reading /\ Len(y.scripts) = Len(a.scripts) + (k + 1) /\ AtEnd(y.scripts, y.pos)
    <3>1. x.reading /\ Len(y.scripts) = Len(x.scripts) + 1 /\ AtEnd(y.scripts, y.pos)
      BY <2>4, <2>7 DEF ScriptOn
    <3>2. a.reading /\ Len(x.scripts) = Len(a.scripts) + k
      BY <2>2, <3>1 DEF ScriptsOn
    <3>3. Len(a.scripts) \in Nat
      BY LenProperties DEF ScriptStage
    <3>4. \A m, j \in Nat : (m + j) + 1 = m + (j + 1)
      OBVIOUS
    <3>5. (Len(a.scripts) + k) + 1 = Len(a.scripts) + (k + 1)
      BY <3>3, <3>4
    <3> QED BY <3>1, <3>2, <3>5
  <2> QED BY <2>3, <2>4, <2>5, <2>6, <2>7 DEF ScriptsOn, ScriptOn
<1>6. S = Nat
  <2>1. S \in SUBSET Nat
    OBVIOUS
  <2> HIDE DEF S
  <2> QED BY <1>4, <1>5, <2>1, Induction
<1>7. n \in S /\ n <= n
  BY <1>6
<1> QED BY <1>2, <1>7

\* Behind the first scripts of a game is their number, where it has one.
FixedScripts(a) == IF a.version > 37 THEN 2 ELSE 1

LEMMA PlacedBehind ==
  ASSUME NEW f \in Files, Told(f), NEW a, ScriptStage(f, a), a.reading, a.version >= 31,
         NEW n, n = FixedScripts(a), Len(a.scripts) = n, NEW p \in Nat, p = a.pos,
         AtEnd(a.scripts, p), p < Len(f)
  PROVE  f[p + 1][1] = "count" /\ Cardinality(Signatures(f)) <= n + f[p + 1][2]
<1>1. n \in {1, 2}
  BY DEF FixedScripts
<1>2. Listed(f, a.scripts, p)
  BY DEF ScriptStage
<1>3. PICK q, len : q = a.scripts[n].start /\ len = a.scripts[n].len
  OBVIOUS
<1>4. q \in Signatures(f) /\ Cardinality(Before(f, q)) = n - 1 /\ len = ASI_read_script(f, q)
  <2>1. n \in 1..n
    BY <1>1
  <2> QED BY <1>2, <1>3, <2>1 DEF Listed
<1>5. p = q + len
  BY <1>3 DEF AtEnd
<1>6. q \in Nat /\ q + 4 <= Len(f) /\ Len(f) \in Nat /\ DOMAIN f = 1..Len(f)
  BY <1>4, SignaturesFinite, Cells
<1>7. ScriptStart(f, n - 1) = q /\ n - 1 < Cardinality(Signatures(f))
  BY <1>4, ScriptStartIs
<1>8. len \in Nat /\ len # 0 /\ q + len <= Len(f)
  <2>1. len # 0
    BY <1>4, PlainIs DEF Told
  <2> QED BY <1>4, <1>6, <2>1, ScriptIs
<1>9. Len(ScriptCells(f, n - 1)) = len
  <2>1. ScriptCells(f, n - 1) = SubSeq(f, q + 1, q + len)
    BY <1>4, <1>7 DEF ScriptCells
  <2>2. q + 1 \in Nat \ {0} /\ q + len \in Nat /\ q + 1 <= (q + len) + 1 /\ (q + len) - (q + 1) + 1 = len
    BY <1>6, <1>8
  <2> QED BY <1>8, <2>1, <2>2, Part
<1>10. f[2][2] = a.version
  <2>1. Len(f[2]) > 1 /\ Len(f) >= 2
    BY <1>4, <1>6 DEF Told, ScriptsPlaced
  <2> QED BY <2>1 DEF ScriptStage, VersionOf
<1>11. Cardinality(Signatures(f)) \in Nat
  BY SignaturesFinite, FS_CardinalityType
<1>12. ~(Cardinality(Signatures(f)) < n) /\ ~(f[2][2] < 31)
  <2>1. \A m \in Nat : n - 1 < m => ~(m < n)
    BY <1>1
  <2>2. a.version \in Int
    BY DEF ScriptStage
  <2>3. ~(a.version < 31)
    BY <2>2
  <2> QED BY <1>7, <1>10, <1>11, <2>1, <2>3
<1>13. PICK behind : behind = q + len + 1
  OBVIOUS
<1>14. behind \in DOMAIN f => f[behind][1] = "count" /\ Cardinality(Signatures(f)) <= n + f[behind][2]
  <2>1. n = IF f[2][2] > 37 THEN 2 ELSE 1
    BY <1>10 DEF FixedScripts
  <2>2. behind = ScriptStart(f, n - 1) + Len(ScriptCells(f, n - 1)) + 1
    BY <1>7, <1>9, <1>13
  <2> QED BY <1>4, <1>12, <2>1, <2>2 DEF Told, ScriptsPlaced
<1>15. behind = p + 1 /\ behind \in DOMAIN f
  <2>1. p + 1 \in 1..Len(f)
    BY <1>6
  <2> QED BY <1>5, <1>6, <1>13, <2>1
<1> QED BY <1>14, <1>15

LEMMA CountBehind ==
  ASSUME NEW f \in Files, NEW a, ScriptStage(f, a), a.reading, a.version >= 31,
         NEW n, n = FixedScripts(a), Len(a.scripts) = n, AtEnd(a.scripts, a.pos),
         NEW m, m = Count(f, a), NEW b, b = ReadCount(f, a)
  PROVE  /\ ScriptStage(f, b) /\ SameGame(a, b) /\ b.reading = a.reading /\ m \in Nat
         /\ Told(f) => n + m >= Cardinality(Signatures(f)) \/ Cardinality(Signatures(f)) = n
<1>1. PICK p \in Nat : p = a.pos
  BY DEF ScriptStage
<1>2. /\ IsAdf(a) /\ a.junk \in Nat /\ a.version \in Int /\ a.scripts \in Seq(ScriptSet)
      /\ a.reading = TRUE /\ Flagged(f, a) /\ VersionOf(f, a.version)
      /\ a.aoe = "success" /\ a.open = TRUE /\ (Told(f) => Listed(f, a.scripts, p))
  BY <1>1 DEF ScriptStage
<1>3. /\ IsAdf(b) /\ SameGame(a, b) /\ b.aoe = a.aoe /\ b.open = a.open /\ b.reading = a.reading
      /\ b.pos = IF p < Len(f) THEN p + 1 ELSE p
  <2>1. CountedOn(f, a, p, b)
    BY <1>1, <1>2, CountRead
  <2> QED BY <2>1 DEF CountedOn
<1>4. m \in Nat /\ (p < Len(f) /\ f[p + 1][1] \in {"sprites", "count"} => m = f[p + 1][2])
  BY <1>1, <1>2, CountIs
<1>5. ASSUME Told(f), p < Len(f)
      PROVE  Kind(f, p) = "count" /\ Cardinality(Signatures(f)) <= n + m
  <2>1. f[p + 1][1] = "count" /\ Cardinality(Signatures(f)) <= n + f[p + 1][2]
    BY <1>1, <1>5, PlacedBehind
  <2>2. CellAt(f, p) = f[p + 1] /\ f[p + 1] \in CELLS
    BY <1>5, EndIs
  <2>3. f[p + 1][1] \in {"sprites", "count"}
    BY <2>1
  <2> QED BY <1>4, <1>5, <2>1, <2>2, <2>3 DEF Kind
<1>6. Len(f) \in Nat /\ Signatures(f) \in SUBSET Nat
  BY Cells, SignaturesFinite
<1>7. ASSUME Told(f) PROVE Before(f, b.pos) = Before(f, p)
  <2>1. CASE p < Len(f)
    <3>1. b.pos = p + 1 /\ Kind(f, p) = "count"
      BY <1>3, <1>5, <1>7, <2>1
    <3>2. p \notin Signatures(f)
      <4>1. ASSUME p \in Signatures(f) PROVE FALSE
        <5>1. CellAt(f, p) = <<"S">>
          BY <4>1, Signed DEF LettersAt
        <5>2. Kind(f, p) = "S"
          BY <5>1 DEF Kind
        <5> QED BY <3>1, <5>2
      <4> QED BY <4>1
    <3>3. \A q \in Signatures(f) : q < p + 1 <=> q < p
      BY <1>6, <3>2
    <3> QED BY <3>1, <3>3 DEF Before
  <2>2. CASE ~(p < Len(f))
    BY <1>3, <2>2
  <2> QED BY <2>1, <2>2
<1>8. Told(f) => Listed(f, b.scripts, b.pos)
  BY <1>2, <1>3, <1>7 DEF Listed, SameGame
<1>9. Flagged(f, b)
  BY <1>2, <1>3 DEF Flagged, FlagsOK, SameGame
<1>10. b.pos \in Nat
  BY <1>3
<1>11. ScriptStage(f, b)
  BY <1>2, <1>3, <1>8, <1>9, <1>10 DEF ScriptStage, SameGame
<1>12. ASSUME Told(f), ~(p < Len(f)) PROVE Cardinality(Signatures(f)) = n
  <2>1. Before(f, p) = Signatures(f)
    <3>1. \A q \in Signatures(f) : q < p
      BY <1>6, <1>12, SignaturesFinite
    <3> QED BY <3>1 DEF Before
  <2> QED BY <1>2, <1>12, <2>1 DEF Listed
<1>13. ASSUME Told(f) PROVE n + m >= Cardinality(Signatures(f)) \/ Cardinality(Signatures(f)) = n
  <2>1. n \in Nat /\ Cardinality(Signatures(f)) \in Nat
    BY SignaturesFinite, FS_CardinalityType DEF FixedScripts
  <2> QED BY <1>4, <1>5, <1>12, <1>13, <2>1
<1> QED BY <1>3, <1>4, <1>11, <1>13

\* A game of which all the scripts have been read.
AllOn(f, b) ==
  /\ ScriptStage(f, b)
  /\ b.reading /\ Told(f) => Cardinality(Signatures(f)) = Len(b.scripts)

LEMMA NoMore ==
  ASSUME NEW f \in Files, NEW b, ScriptStage(f, b), b.reading, Told(f)
  PROVE  /\ Len(b.scripts) \in Nat /\ Cardinality(Signatures(f)) \in Nat
         /\ Len(b.scripts) <= Cardinality(Signatures(f))
<1>1. PICK p \in Nat : p = b.pos /\ Listed(f, b.scripts, p)
  BY DEF ScriptStage
<1>2. Cardinality(Before(f, p)) = Len(b.scripts) /\ Len(b.scripts) \in Nat
  BY <1>1 DEF Listed
<1>3. Before(f, p) \in SUBSET Signatures(f)
  BY DEF Before
<1>4. Cardinality(Before(f, p)) <= Cardinality(Signatures(f)) /\ Cardinality(Signatures(f)) \in Nat
  BY <1>3, SignaturesFinite, FS_Subset, FS_CardinalityType
<1> QED BY <1>2, <1>4

LEMMA AllRead ==
  ASSUME NEW f \in Files, NEW a, GameStage(f, a), NEW b, b = AllScripts(f, a)
  PROVE  AllOn(f, b)
<1>1. ScriptStage(f, a) /\ a.scripts = <<>> /\ Len(a.scripts) = 0
  BY ScriptsBegin DEF GameStage
<1>2. PICK n \in Nat : n = FixedScripts(a) /\ n \in {1, 2}
  BY DEF FixedScripts
<1>3. PICK fixed : fixed = ReadScripts(f, n, a)
  OBVIOUS
<1>4. b = IF a.version >= 31 /\ fixed.reading
          THEN ReadScripts(f, Count(f, fixed), ReadCount(f, fixed)) ELSE fixed
  BY <1>2, <1>3 DEF AllScripts, FixedScripts
<1>5. ScriptsOn(f, n, a, fixed)
  BY <1>1, <1>3, ScriptsRead
<1>6. ScriptStage(f, fixed) /\ fixed.version = a.version
  BY <1>5 DEF ScriptsOn, SameHead
<1>7. fixed.reading => Len(fixed.scripts) = n /\ AtEnd(fixed.scripts, fixed.pos)
  <2>1. n > 0 /\ 0 + n = n
    BY <1>2
  <2> QED BY <1>1, <1>5, <2>1 DEF ScriptsOn
<1>8. a.version \in Int
  BY DEF GameStage
<1>9. CASE a.version >= 31 /\ fixed.reading
  <2>1. PICK m, c : m = Count(f, fixed) /\ c = ReadCount(f, fixed)
    OBVIOUS
  <2>2. b = ReadScripts(f, m, c)
    BY <1>4, <1>9, <2>1
  <2>3. n = FixedScripts(fixed)
    BY <1>2, <1>6 DEF FixedScripts
  <2>4. /\ ScriptStage(f, c) /\ SameGame(fixed, c) /\ m \in Nat
        /\ Told(f) => n + m >= Cardinality(Signatures(f)) \/ Cardinality(Signatures(f)) = n
    BY <1>6, <1>7, <1>9, <2>1, <2>3, CountBehind
  <2>5. ScriptsOn(f, m, c, b)
    BY <2>2, <2>4, ScriptsRead
  <2>6. ScriptStage(f, b) /\ (b.reading => Len(b.scripts) = n + m)
    BY <1>7, <1>9, <2>4, <2>5 DEF ScriptsOn, SameGame
  <2>7. ASSUME b.reading, Told(f) PROVE Cardinality(Signatures(f)) = Len(b.scripts)
    <3>1. /\ Cardinality(Signatures(f)) \in Nat /\ Len(b.scripts) <= Cardinality(Signatures(f))
          /\ Len(b.scripts) = n + m
      BY <2>6, <2>7, NoMore
    <3> QED BY <2>4, <2>7, <3>1
  <2> QED BY <2>6, <2>7 DEF AllOn
<1>10. CASE ~(a.version >= 31) \/ ~fixed.reading
  <2>1. b = fixed
    BY <1>4, <1>10
  <2>2. ASSUME b.reading, Told(f) PROVE Cardinality(Signatures(f)) = Len(b.scripts)
    <3>1. /\ Cardinality(Signatures(f)) \in Nat /\ Len(b.scripts) <= Cardinality(Signatures(f))
          /\ Len(b.scripts) = n
      BY <1>6, <1>7, <2>1, <2>2, NoMore
    <3>2. ~(a.version >= 31) /\ a.version < 31 /\ ~(a.version > 37)
      BY <1>8, <1>10, <2>1, <2>2
    <3>3. n = 1
      BY <1>2, <3>2 DEF FixedScripts
    <3>4. Signatures(f) # {}
      <4>1. ~(Cardinality(Signatures(f)) = 0)
        BY <3>1, <3>3
      <4> QED BY <4>1, FS_EmptySet
    <3>5. f[2][2] = a.version
      <4>1. Len(f[2]) > 1
        BY <2>2, <3>4 DEF Told, ScriptsPlaced
      <4>2. Len(f) >= 2
        BY <3>4, SignaturesFinite, Cells
      <4> QED BY <4>1, <4>2 DEF GameStage, VersionOf
    <3>6. Cardinality(Signatures(f)) <= 1
      <4>1. f[2][2] < 31 /\ ~(f[2][2] > 37)
        BY <3>2, <3>5
      <4> QED BY <2>2, <3>4, <4>1 DEF Told, ScriptsPlaced
    <3> QED BY <3>1, <3>3, <3>6
  <2> QED BY <1>6, <2>1, <2>2 DEF AllOn
<1> QED BY <1>9, <1>10

-----------------------------------------------------------------------------
(* What follows the scripts                                                *)

LEMMA CountedIs ==
  ASSUME NEW kind, NEW wrong, NEW short, NEW closes, NEW junk
  PROVE  IfCounted(junk, Section(kind, wrong, short, closes)) =
           IF junk = 0 THEN << [kind |-> kind, wrong |-> wrong, short |-> "none", closes |-> closes] >>
           ELSE Section(kind, wrong, short, closes)
  BY DEF Section, IfCounted

LEMMA ViewsAre ==
  ASSUME NEW a, NEW s, s = ViewSections(a)
  PROVE  DOMAIN s \in SUBSET Nat /\ \A k \in DOMAIN s : s[k].wrong = "view" /\ s[k].short \in {"view", "none"}
<1>1. PICK t : t = IF a.version > 32 THEN IfCounted(a.junk, FAIL("view", "view")) ELSE FAIL("view", "view")
  OBVIOUS
<1>2. t[1].wrong = "view" /\ t[1].short \in {"view", "none"}
  <2>1. PICK c : c = [kind |-> "view", wrong |-> "view", short |-> "view", closes |-> TRUE]
    OBVIOUS
  <2>2. PICK d : d = [kind |-> "view", wrong |-> "view", short |-> "none", closes |-> TRUE]
    OBVIOUS
  <2>3. FAIL("view", "view") = <<c>>
    BY <2>1 DEF FAIL, Section
  <2>4. IfCounted(a.junk, FAIL("view", "view")) \in {<<c>>, <<d>>}
    <3>1. IfCounted(a.junk, FAIL("view", "view")) =
            IF a.junk = 0 THEN << [kind |-> "view", wrong |-> "view", short |-> "none", closes |-> TRUE] >>
            ELSE FAIL("view", "view")
      BY CountedIs DEF FAIL
    <3> QED BY <2>2, <2>3, <3>1
  <2>5. t[1] \in {c, d}
    BY <1>1, <2>3, <2>4
  <2> QED BY <2>1, <2>2, <2>5
<1>3. s = [k \in 1..a.game.views |-> t[1]]
  BY <1>1 DEF ViewSections, Times
<1> QED BY <1>2, <1>3

BonusNames  == {"viewjunk", "character", "lipsync", "message", "topic", "dialogs", "guis", "plugins",
                "schema", "property", "viewnames", "itemnames"}
BonusErrors == {"viewjunk", "character", "lipsync", "message", "dialogtopic", "dialog", "guis", "props",
                "views", "inventories", "loops"}
Bonuses     == Seq(SectionSet(BonusNames, BonusErrors, FALSE))

LEMMA BonusLists ==
  ASSUME NEW a
  PROVE  BonusSections(a) \in Bonuses
<1>1. \A kind \in BonusNames, error \in BonusErrors :
         /\ ERR(kind, error) \in Bonuses
         /\ IfCounted(a.junk, ERR(kind, error)) \in Bonuses
         /\ \A short \in BonusErrors : Section(kind, error, short, FALSE) \in Bonuses
  BY SectionIs DEF ERR, Bonuses
<1>2. /\ IfCounted(a.junk, ERR("viewjunk", "viewjunk")) \in Bonuses
      /\ ERR("character", "character") \in Bonuses /\ ERR("lipsync", "lipsync") \in Bonuses
      /\ ERR("message", "message") \in Bonuses /\ IfCounted(a.junk, ERR("message", "message")) \in Bonuses
      /\ ERR("topic", "dialogtopic") \in Bonuses /\ ERR("dialogs", "dialog") \in Bonuses
      /\ Section("dialogs", "dialog", "loops", FALSE) \in Bonuses
  BY <1>1 DEF BonusNames, BonusErrors
<1>3. /\ ERR("guis", "guis") \in Bonuses /\ ERR("plugins", "props") \in Bonuses
      /\ IfCounted(a.junk, ERR("schema", "props")) \in Bonuses
      /\ IfCounted(a.junk, ERR("property", "props")) \in Bonuses
      /\ ERR("viewnames", "views") \in Bonuses /\ ERR("itemnames", "inventories") \in Bonuses
  BY <1>1 DEF BonusNames, BonusErrors
<1>4. \A c, s : s \in Bonuses => When(c, s) \in Bonuses
  BY WhenIs DEF Bonuses
<1>5. \A s, t \in Bonuses : s \o t \in Bonuses
  BY ConcatProperties DEF Bonuses
<1>6. Messages(a) \in Bonuses /\ Dialogs(a) \in Bonuses
  BY <1>2 DEF Messages, Dialogs
<1>7. PICK v, g : v = a.version /\ g = a.game
  OBVIOUS
<1>8. PICK s1, s2, s3, s4, s5, s6 \in Bonuses :
         /\ s1 = When(v <= 19, IfCounted(a.junk, ERR("viewjunk", "viewjunk")))
         /\ s2 = When(g.characters > 0, ERR("character", "character"))
         /\ s3 = When(v > 20, ERR("lipsync", "lipsync"))
         /\ s4 = When(g.messages > 0, Messages(a))
         /\ s5 = When(g.dialogs > 0, ERR("topic", "dialogtopic"))
         /\ s6 = When(v <= 37, Dialogs(a))
  BY <1>2, <1>4, <1>6
<1>9. PICK s7, s8, s9, s10, s11 \in Bonuses :
         /\ s7 = ERR("guis", "guis")
         /\ s8 = When(v >= 25, ERR("plugins", "props") \o IfCounted(a.junk, ERR("schema", "props")))
         /\ s9 = When(v >= 25 /\ g.characters + g.inventories > 0,
                      IfCounted(a.junk, ERR("property", "props")))
         /\ s10 = When(v >= 25 /\ g.views > 0, ERR("viewnames", "views"))
         /\ s11 = When(v >= 31 /\ g.inventories > 0, ERR("itemnames", "inventories"))
  BY <1>3, <1>4, <1>5
<1>10. BonusSections(a) = s1 \o s2 \o s3 \o s4 \o s5 \o s6 \o s7 \o s8 \o s9 \o s10 \o s11
  BY <1>7, <1>8, <1>9 DEF BonusSections
<1> QED BY <1>5, <1>10

\* The views are read, or the first that cannot be closes the file.
ViewsOn(a, b) ==
  /\ IsAdf(b) /\ SameGame(a, b)
  /\ ~a.reading => b = a
  /\ a.reading => \/ b.reading = a.reading /\ b.aoe = a.aoe /\ b.open = a.open
                  \/ b.reading = FALSE /\ b.aoe = "view"

LEMMA ViewsRead ==
  ASSUME NEW f, NEW a, IsAdf(a), NEW b, b = Read(f, ViewSections(a), a)
  PROVE  ViewsOn(a, b)
<1>1. PICK s : s = ViewSections(a)
  OBVIOUS
<1>2. DOMAIN s \in SUBSET Nat /\ \A k \in DOMAIN s : s[k].wrong = "view" /\ s[k].short \in {"view", "none"}
  BY <1>1, ViewsAre
<1>3. b = Read(f, s, a)
  BY <1>1
<1>4. IF a.reading THEN Passed(f, s, a, b) \/ \E k \in DOMAIN s : StoppedAt(f, s, a, b, k) ELSE b = a
  BY <1>2, <1>3, ReadIs
<1>5. CASE ~a.reading
  BY <1>4, <1>5 DEF ViewsOn, SameGame
<1>6. CASE a.reading /\ Passed(f, s, a, b)
  <2>1. ReadOn(s, a, b)
    BY <1>6, PassedIs
  <2> QED BY <1>6, <2>1 DEF ReadOn, ViewsOn
<1>7. CASE a.reading /\ \E k \in DOMAIN s : StoppedAt(f, s, a, b, k)
  <2>1. PICK k \in DOMAIN s : StoppedAt(f, s, a, b, k)
    BY <1>7
  <2>2. StoppedOn(f, s, a, b, k)
    BY <2>1, StoppedIs
  <2>3. IsAdf(b) /\ SameGame(a, b) /\ b.reading = FALSE
        /\ ((b.aoe = s[k].short /\ s[k].short # "none") \/ b.aoe = s[k].wrong)
    BY <2>2, Zenon DEF StoppedOn
  <2>4. b.aoe = "view"
    BY <1>2, <2>1, <2>3
  <2> QED BY <1>7, <2>3, <2>4 DEF ViewsOn
<1> QED BY <1>4, <1>5, <1>6, <1>7

\* No reader of what comes then closes the file.
BonusOn(a, b) ==
  /\ IsAdf(b) /\ SameGame(a, b)
  /\ ~a.reading => b = a
  /\ a.reading => b.open = a.open \/ b.open = TRUE

LEMMA BonusRead ==
  ASSUME NEW f, NEW a, IsAdf(a), NEW b, b = Read(f, BonusSections(a), a)
  PROVE  BonusOn(a, b)
<1>1. PICK s \in Bonuses : s = BonusSections(a)
  BY BonusLists
<1>2. DOMAIN s \in SUBSET Nat /\ \A k \in DOMAIN s : s[k].closes = FALSE
  <2>1. s \in Seq(SectionSet(BonusNames, BonusErrors, FALSE))
    BY DEF Bonuses
  <2>2. DOMAIN s = 1..Len(s) /\ Len(s) \in Nat /\ \A k \in 1..Len(s) : s[k] \in SectionSet(BonusNames, BonusErrors, FALSE)
    BY <2>1, LenProperties, ElementOfSeq
  <2>3. \A c \in SectionSet(BonusNames, BonusErrors, FALSE) : c.closes = FALSE
    BY DEF SectionSet
  <2>4. \A n \in Nat : 1..n \in SUBSET Nat
    OBVIOUS
  <2> QED BY <2>2, <2>3, <2>4
<1>3. b = Read(f, s, a)
  BY <1>1
<1>4. IF a.reading THEN Passed(f, s, a, b) \/ \E k \in DOMAIN s : StoppedAt(f, s, a, b, k) ELSE b = a
  BY <1>2, <1>3, ReadIs
<1>5. CASE ~a.reading
  BY <1>4, <1>5 DEF BonusOn, SameGame
<1>6. CASE a.reading /\ Passed(f, s, a, b)
  <2>1. ReadOn(s, a, b)
    BY <1>6, PassedIs
  <2> QED BY <1>6, <2>1 DEF ReadOn, BonusOn
<1>7. CASE a.reading /\ \E k \in DOMAIN s : StoppedAt(f, s, a, b, k)
  <2>1. PICK k \in DOMAIN s : StoppedAt(f, s, a, b, k)
    BY <1>7
  <2>2. StoppedOn(f, s, a, b, k)
    BY <2>1, StoppedIs
  <2>3. IsAdf(b) /\ SameGame(a, b) /\ b.open = ~s[k].closes
    BY <2>2, Zenon DEF StoppedOn
  <2>4. s[k].closes = FALSE
    BY <1>2, <2>1
  <2>5. b.open = TRUE
    <3>1. PICK closed : closed = s[k].closes
      OBVIOUS
    <3>2. closed = FALSE /\ b.open = ~closed
      BY <2>3, <2>4, <3>1
    <3> QED BY <3>2
  <2> QED BY <1>7, <2>3, <2>5 DEF BonusOn
<1> QED BY <1>4, <1>5, <1>6, <1>7

-----------------------------------------------------------------------------
(* A game that has been opened                                             *)

\* All the scripts of a game, which can be read from the file.
Dumpable(f, a) ==
  /\ Len(a.scripts) = Cardinality(Signatures(f)) /\ \E p : Listed(f, a.scripts, p)
  /\ Len(a.scripts) > 0 => a.open = TRUE
Opened(f, a) ==
  /\ Flagged(f, a)
  /\ Told(f) /\ a.aoe \notin ScriptErrors \cup {"view"} => Dumpable(f, a)

LEMMA NoScripts ==
  ASSUME NEW f \in Files, Cut(f), NEW a, a.scripts = <<>>
  PROVE  Dumpable(f, a)
<1>1. Signatures(f) = {}
  <2>1. \A p \in Signatures(f) : p \in Nat /\ p + 4 <= Len(f) /\ Len(f) <= 3 /\ Len(f) \in Nat
    BY SignaturesFinite, Cells DEF Cut
  <2>2. \A p \in Signatures(f) : FALSE
    BY <2>1
  <2> QED BY <2>2
<1>2. Cardinality(Signatures(f)) = 0 /\ Cardinality(Before(f, 0)) = 0
  BY <1>1, FS_EmptySet, NoneBefore
<1>3. Len(<<>>) = 0 /\ DOMAIN <<>> = 1..0 /\ 1..0 = {} /\ 0 \in Nat /\ ~(0 > 0)
  OBVIOUS
<1>4. Listed(f, <<>>, 0)
  BY <1>2, <1>3 DEF Listed
<1> QED BY <1>2, <1>3, <1>4 DEF Dumpable

LEMMA BehindScripts ==
  ASSUME NEW f \in Files, NEW x, AllOn(f, x), NEW y, ViewsOn(x, y), NEW b, BonusOn(y, b)
  PROVE  Opened(f, b)
<1>1. ScriptStage(f, x) /\ (x.reading /\ Told(f) => Cardinality(Signatures(f)) = Len(x.scripts))
  BY DEF AllOn
<1>2. Flagged(f, x) /\ x.reading \in BOOLEAN
  BY <1>1 DEF ScriptStage
<1>3. CASE ~x.reading
  <2>1. y = x
    BY <1>3 DEF ViewsOn
  <2>2. b = x
    BY <1>3, <2>1 DEF BonusOn
  <2>3. x.aoe \in ScriptErrors \/ (Cut(f) /\ x.scripts = <<>>)
    BY <1>1, <1>3 DEF ScriptStage
  <2> QED BY <1>2, <2>2, <2>3, NoScripts DEF Opened
<1>4. CASE x.reading
  <2>1. SameGame(x, y) /\ SameGame(y, b)
    BY DEF ViewsOn, BonusOn
  <2>2. FlagsOK(f, x)
    BY <1>2, <1>4 DEF Flagged
  <2>3. Flagged(f, b)
    BY <2>1, <2>2 DEF Flagged, FlagsOK, SameGame
  <2>4. ASSUME Told(f), b.aoe \notin ScriptErrors \cup {"view"} PROVE Dumpable(f, b)
    <3>1. x.open = TRUE /\ Listed(f, x.scripts, x.pos) /\ Cardinality(Signatures(f)) = Len(x.scripts)
      BY <1>1, <1>4, <2>4 DEF ScriptStage
    <3>2. b.scripts = x.scripts
      BY <2>1 DEF SameGame
    <3>3. CASE y.reading = FALSE /\ y.aoe = "view"
      <4>1. b = y
        BY <3>3 DEF BonusOn
      <4> QED BY <2>4, <3>3, <4>1
    <3>4. CASE y.reading = x.reading /\ y.open = x.open
      <4>1. b.open = TRUE
        BY <1>4, <3>1, <3>4 DEF BonusOn
      <4> QED BY <3>1, <3>2, <4>1 DEF Dumpable
    <3> QED BY <1>4, <3>3, <3>4 DEF ViewsOn
  <2> QED BY <2>3, <2>4 DEF Opened
<1> QED BY <1>3, <1>4

LEMMA OpenedIs ==
  ASSUME NEW f \in Files, FlagsPlaced(f), NEW junk \in Nat, NEW b, b = ADF_open(f, junk)
  PROVE  Opened(f, b)
<1>1. PICK sig : sig = Read(f, Signature, NewADF(junk))
  OBVIOUS
<1>2. PICK v : v = Version(f, sig)
  OBVIOUS
<1>3. PICK h : h = Read(f, VersionString(v), ReadCount(f, [sig EXCEPT !.version = v]))
  OBVIOUS
<1>4. PICK game : game = IF v <= 12 THEN ReadOldGame(f, h) ELSE ReadGame(f, h)
  OBVIOUS
<1>5. PICK x : x = AllScripts(f, game)
  OBVIOUS
<1>6. PICK y : y = Read(f, ViewSections(x), x)
  OBVIOUS
<1>7. b = IF sig.reading THEN Read(f, BonusSections(y), y) ELSE sig
  BY <1>1, <1>2, <1>3, <1>4, <1>5, <1>6 DEF ADF_open
<1>8. sig.reading \in BOOLEAN /\ (~sig.reading => sig.aoe \in BaseErrors)
  BY <1>1, SignatureRead
<1>9. CASE ~sig.reading
  <2>1. b = sig /\ sig.reading = FALSE /\ sig.aoe \in BaseErrors
    BY <1>7, <1>8, <1>9
  <2>2. sig.aoe \in ScriptErrors
    BY <2>1 DEF ScriptErrors, WorldErrors
  <2> QED BY <2>1, <2>2 DEF Opened, Flagged
<1>10. CASE sig.reading
  <2>1. GameStage(f, game)
    BY <1>1, <1>2, <1>3, <1>4, <1>10, GameIs
  <2>2. AllOn(f, x)
    BY <1>5, <2>1, AllRead
  <2>3. IsAdf(x)
    BY <2>2 DEF AllOn, ScriptStage
  <2>4. ViewsOn(x, y)
    BY <1>6, <2>3, ViewsRead
  <2>5. IsAdf(y)
    BY <2>4 DEF ViewsOn
  <2>6. BonusOn(y, b)
    BY <1>7, <1>10, <2>5, BonusRead
  <2> QED BY <2>2, <2>4, <2>6, BehindScripts
<1> QED BY <1>9, <1>10

\* The codes of the errors are in their order.
LEMMA FatalErrors ==
  /\ \A aoe \in BaseErrors : Fatal(aoe, "gamebase")
  /\ \A aoe \in ScriptErrors \ {"aborted"} : Fatal(aoe, "script")
<1>1. Len(Errors) = 21
  BY DEF Errors
<1> DEFINE At(n, aoe) == /\ n \in 1..21 /\ Errors[n] = aoe
                         /\ \A m \in 1..21 : Errors[m] = aoe => m = n
<1>2. ASSUME NEW n, NEW aoe, At(n, aoe) PROVE Code(aoe) = n
  BY <1>1, <1>2 DEF Code
<1>3. /\ At(3, "read") /\ At(4, "signature") /\ At(5, "header") /\ At(6, "gamebase")
  BY DEF Errors
<1>4. /\ At(7, "cursors") /\ At(8, "interaction") /\ At(9, "dictionary") /\ At(10, "script")
  BY DEF Errors
<1> HIDE DEF At
<1>5. /\ Code("read") = 3 /\ Code("signature") = 4 /\ Code("header") = 5 /\ Code("gamebase") = 6
      /\ Code("cursors") = 7 /\ Code("interaction") = 8 /\ Code("dictionary") = 9
      /\ Code("script") = 10
  BY <1>2, <1>3, <1>4
<1>6. \A aoe \in BaseErrors : Fatal(aoe, "gamebase")
  BY <1>5 DEF BaseErrors, Fatal
<1>7. \A aoe \in ScriptErrors \ {"aborted"} : Fatal(aoe, "script")
  BY <1>5 DEF ScriptErrors, WorldErrors, BaseErrors, Fatal
<1> QED BY <1>6, <1>7

-----------------------------------------------------------------------------
(* agsalphahack                                                            *)

\* A flag without its alpha bit, and a file in which k flags have been gone through.
ClearedCell(c) == [c EXCEPT ![2] = WithoutAlpha(@)]
ClearedTo(g, f, sprite, s, k) ==
  /\ DOMAIN g = DOMAIN f
  /\ \A n \in DOMAIN f :
        g[n] = IF n \in s + 1..s + k /\ sprite \in {-1, n - s - 1} THEN ClearedCell(f[n]) ELSE f[n]

\* The flags that come before one, and what the file is to become.
FlagNumber(f, n) == Cardinality({m \in Flags(f) : m < n})
AskedFlags(f, sprite) == {n \in Flags(f) : sprite \in {-1, FlagNumber(f, n)}}
AllCleared(f, sprite) ==
  [n \in DOMAIN f |-> IF n \in AskedFlags(f, sprite) THEN ClearedCell(f[n]) ELSE f[n]]

ClearedSome(g, f, sprite, how) ==
  \E s, n, k \in Nat :
     /\ k <= n /\ s + n <= Len(f) /\ Flags(f) = s + 1..s + n
     /\ ClearedTo(g, f, sprite, s, k) /\ (how = "ok" => k = n)

LEMMA FlagNumberIs ==
  ASSUME NEW f, NEW s \in Nat, NEW n \in Nat, Flags(f) = s + 1..s + n, NEW i \in s + 1..s + n
  PROVE  FlagNumber(f, i) = i - s - 1
<1>1. {m \in Flags(f) : m < i} = s + 1..i - 1
  <2>1. \A m : m \in s + 1..s + n /\ m < i <=> m \in s + 1..i - 1
    OBVIOUS
  <2> QED BY <2>1
<1>2. i - 1 \in Int /\ s + 1 \in Int /\ (i - 1) - (s + 1) + 1 = i - s - 1 /\ i >= s + 1
  OBVIOUS
<1>3. Cardinality(s + 1..i - 1) = IF s + 1 > i - 1 THEN 0 ELSE (i - 1) - (s + 1) + 1
  BY <1>2, FS_Interval
<1>4. s + 1 > i - 1 => i - s - 1 = 0
  BY <1>2
<1> QED BY <1>1, <1>2, <1>3, <1>4 DEF FlagNumber

LEMMA FlagsBecome ==
  ASSUME NEW f \in Files, NEW g \in Files, NEW sprite, NEW how, ClearedSome(g, f, sprite, how)
  PROVE  /\ DOMAIN g = DOMAIN f
         /\ \A n \in DOMAIN f : g[n] \in {f[n], AllCleared(f, sprite)[n]}
         /\ how = "ok" => g = AllCleared(f, sprite)
<1>1. PICK s, n, k \in Nat :
         /\ k <= n /\ s + n <= Len(f) /\ Flags(f) = s + 1..s + n
         /\ ClearedTo(g, f, sprite, s, k) /\ (how = "ok" => k = n)
  BY DEF ClearedSome
<1>2. DOMAIN g = DOMAIN f
  BY <1>1 DEF ClearedTo
<1>3. ASSUME NEW i \in DOMAIN f
      PROVE  i \in AskedFlags(f, sprite) <=> i \in s + 1..s + n /\ sprite \in {-1, i - s - 1}
  <2>1. i \in s + 1..s + n => FlagNumber(f, i) = i - s - 1
    BY <1>1, FlagNumberIs
  <2> QED BY <1>1, <2>1 DEF AskedFlags
<1>4. ASSUME NEW i \in DOMAIN f
      PROVE  g[i] \in {f[i], AllCleared(f, sprite)[i]} /\ (k = n => g[i] = AllCleared(f, sprite)[i])
  <2>1. AllCleared(f, sprite)[i] = IF i \in AskedFlags(f, sprite) THEN ClearedCell(f[i]) ELSE f[i]
    BY DEF AllCleared
  <2>2. g[i] = IF i \in s + 1..s + k /\ sprite \in {-1, i - s - 1} THEN ClearedCell(f[i]) ELSE f[i]
    BY <1>1 DEF ClearedTo
  <2>3. i \in s + 1..s + k => i \in s + 1..s + n
    BY <1>1
  <2> QED BY <1>3, <2>1, <2>2, <2>3
<1>5. ASSUME how = "ok" PROVE g = AllCleared(f, sprite)
  <2>1. \A i \in DOMAIN f : g[i] = AllCleared(f, sprite)[i]
    BY <1>1, <1>4, <1>5
  <2>2. g = [i \in DOMAIN f |-> g[i]]
    BY <1>2, Cells
  <2>3. AllCleared(f, sprite) = [i \in DOMAIN f |-> AllCleared(f, sprite)[i]]
    BY DEF AllCleared
  <2> QED BY <2>1, <2>2, <2>3
<1> QED BY <1>2, <1>4, <1>5

LEMMA ClearedNone ==
  ASSUME NEW f \in Files, NEW sprite, NEW s \in Nat
  PROVE  ClearedTo(f, f, sprite, s, 0)
<1>1. s + 1..s + 0 = {}
  OBVIOUS
<1> QED BY <1>1 DEF ClearedTo

\* One flag more is gone through.
LEMMA ClearedOne ==
  ASSUME NEW f \in Files, NEW g \in Files, NEW sprite, NEW s \in Nat, NEW k \in Nat, s + k < Len(f),
         ClearedTo(g, f, sprite, s, k), NEW h,
         h = IF sprite \in {-1, k} THEN [g EXCEPT ![s + k + 1] = ClearedCell(@)] ELSE g
  PROVE  ClearedTo(h, f, sprite, s, k + 1)
<1>1. PICK at : at = s + k + 1
  OBVIOUS
<1>2. at \in DOMAIN f /\ DOMAIN g = DOMAIN f /\ at - s - 1 = k /\ at \notin s + 1..s + k
  <2>1. DOMAIN f = 1..Len(f) /\ Len(f) \in Nat
    BY Cells
  <2>2. at \in 1..Len(f) /\ at - s - 1 = k /\ at \notin s + 1..s + k
    BY <1>1, <2>1
  <2> QED BY <2>1, <2>2 DEF ClearedTo
<1>3. g[at] = f[at]
  BY <1>2 DEF ClearedTo
<1>4. DOMAIN h = DOMAIN f
  BY <1>2
<1>5. ASSUME NEW n \in DOMAIN f
      PROVE  h[n] = IF n \in s + 1..s + (k + 1) /\ sprite \in {-1, n - s - 1} THEN ClearedCell(f[n]) ELSE f[n]
  <2>1. CASE n = at
    <3>1. h[n] = IF sprite \in {-1, k} THEN ClearedCell(g[at]) ELSE g[at]
      BY <1>1, <1>2, <2>1
    <3>2. n \in s + 1..s + (k + 1) /\ n - s - 1 = k
      BY <1>1, <1>2, <2>1
    <3> QED BY <1>3, <2>1, <3>1, <3>2
  <2>2. CASE n # at
    <3>1. h[n] = g[n]
      BY <1>1, <1>2, <2>2
    <3>2. n \in s + 1..s + (k + 1) <=> n \in s + 1..s + k
      BY <1>1, <2>2
    <3> QED BY <3>1, <3>2 DEF ClearedTo
  <2> QED BY <2>1, <2>2
<1> QED BY <1>4, <1>5 DEF ClearedTo

\* agsalphahack on a game that has its flags where they belong, and how far it is.
AlphaAssumed == cmd.tool = "alpha" /\ FlagsPlaced(reg.before)
AlphaInv ==
  AlphaAssumed =>
  /\ pc \in {"alpha", "loop"} => target.cells = reg.before
  /\ pc = "alpha" => reg.next = 0
  /\ pc = "flags" =>
        /\ FlagsOK(reg.before, reg.adf) /\ reg.next \in Nat /\ reg.next <= reg.adf.numsprites
        /\ ClearedTo(target.cells, reg.before, cmd.sprite, reg.adf.spriteflagsstart, reg.next)
  /\ pc = "shell" =>
        \/ target.cells = reg.before /\ status # "ok"
        \/ ClearedSome(target.cells, reg.before, cmd.sprite, status)

LEMMA AlphaInit ==
  ASSUME Init
  PROVE  AlphaInv
  BY DEF Init, AlphaInv, AlphaAssumed, NoCommand

LEMMA AlphaSame ==
  ASSUME AlphaInv, UNCHANGED <<target, cmd, pc, reg, status>>
  PROVE  AlphaInv'
  BY DEF AlphaInv, AlphaAssumed

LEMMA AlphaRun ==
  ASSUME TypeInv, Run
  PROVE  AlphaInv'
<1>1. /\ pc' = (IF cmd'.tool = "extract" /\ target.room THEN "dumprooms" ELSE cmd'.tool)
      /\ reg' = NewReg(target.cells, target.time, objs) /\ UNCHANGED target
  BY DEF Run
<1>2. reg'.before = target.cells /\ reg'.next = 0
  BY <1>1 DEF NewReg
<1>3. cmd'.tool = "alpha" => pc' = "alpha"
  BY <1>1
<1> QED BY <1>1, <1>2, <1>3 DEF AlphaInv, AlphaAssumed

\* A tool that gives up leaves the flags it has cleared.
LEMMA AlphaStops ==
  ASSUME TypeInv, AlphaInv, pc \in {"alpha", "flags", "loop"}, pc' = "shell", status' # "ok",
         UNCHANGED <<target, cmd>>, reg'.before = reg.before
  PROVE  AlphaInv'
<1> SUFFICES ASSUME AlphaAssumed
             PROVE  \/ target.cells = reg.before
                    \/ ClearedSome(target.cells, reg.before, cmd.sprite, status')
  BY DEF AlphaInv, AlphaAssumed
<1>1. CASE pc \in {"alpha", "loop"}
  BY <1>1 DEF AlphaInv
<1>2. CASE pc = "flags"
  <2>1. /\ FlagsOK(reg.before, reg.adf) /\ reg.next \in Nat /\ reg.next <= reg.adf.numsprites
        /\ ClearedTo(target.cells, reg.before, cmd.sprite, reg.adf.spriteflagsstart, reg.next)
    BY <1>2 DEF AlphaInv
  <2>2. ClearedSome(target.cells, reg.before, cmd.sprite, status')
    BY <2>1 DEF FlagsOK, ClearedSome
  <2> QED BY <2>2
<1> QED BY <1>1, <1>2

LEMMA AlphaOpen ==
  ASSUME TypeInv, AlphaInv, OpenFlags
  PROVE  AlphaInv'
<1>1. pc = "alpha" /\ Open("gamebase", "flags") /\ UNCHANGED <<target, cmd>>
  BY DEF OpenFlags, Same
<1>2. PICK junk \in JUNK :
            /\ reg' = [reg EXCEPT !.adf = ADF_open(target.cells, junk)]
            /\ pc' \in {"loop", "shell", "flags"}
            /\ pc' = "flags" => ~Fatal(ADF_open(target.cells, junk).aoe, "gamebase")
            /\ pc' = "shell" => status' \in {"trapped", "failed"}
  BY <1>1, OpenIs
<1>3. PICK adf : adf = ADF_open(target.cells, junk)
  OBVIOUS
<1>4. reg'.before = reg.before /\ reg'.next = reg.next /\ reg'.adf = adf
  BY <1>2, <1>3 DEF TypeInv, RegOK, RegFields
<1> SUFFICES ASSUME AlphaAssumed, pc' = "flags" PROVE AlphaInv'
  <2>1. AlphaAssumed' => AlphaAssumed
    BY <1>1, <1>4 DEF AlphaAssumed
  <2>2. CASE pc' = "shell"
    BY <1>1, <1>2, <1>4, <2>2, AlphaStops
  <2>3. CASE pc' = "loop"
    BY <1>1, <1>4, <2>1, <2>3 DEF AlphaInv
  <2> QED BY <1>2, <2>1, <2>2, <2>3 DEF AlphaInv
<1>5. PICK f \in Files : f = target.cells /\ f = reg.before
  BY <1>1 DEF AlphaInv, TypeInv, TargetOK
<1>6. junk \in Nat /\ FlagsPlaced(f)
  BY <1>5, FilesAssumption DEF AlphaAssumed
<1>7. Opened(f, adf)
  BY <1>3, <1>5, <1>6, OpenedIs
<1>8. FlagsOK(f, adf)
  <2>1. ~Fatal(adf.aoe, "gamebase")
    BY <1>2, <1>3
  <2>2. adf.aoe \notin BaseErrors
    BY <2>1, FatalErrors
  <2> QED BY <1>7, <2>2 DEF Opened, Flagged
<1>9. reg.next = 0 /\ 0 \in Nat /\ 0 <= adf.numsprites
  BY <1>1, <1>8 DEF AlphaInv, FlagsOK
<1>10. ClearedTo(f, f, cmd.sprite, adf.spriteflagsstart, 0)
  BY <1>8, ClearedNone DEF FlagsOK
<1> QED BY <1>1, <1>4, <1>5, <1>8, <1>9, <1>10 DEF AlphaInv

LEMMA AlphaWrite ==
  ASSUME TypeInv, AlphaInv, WriteFlag
  PROVE  AlphaInv'
<1>1. /\ pc = "flags" /\ pc' = pc /\ cmd' = cmd /\ reg.next < reg.adf.numsprites
      /\ reg' = [reg EXCEPT !.next = @ + 1]
  BY DEF WriteFlag, Same
<1>2. reg'.before = reg.before /\ reg'.next = reg.next + 1 /\ reg'.adf = reg.adf
  BY <1>1 DEF TypeInv, RegOK, RegFields
<1> SUFFICES ASSUME AlphaAssumed PROVE AlphaInv'
  BY <1>1, <1>2 DEF AlphaInv, AlphaAssumed
<1>3. PICK f \in Files, g \in Files : f = reg.before /\ g = target.cells
  BY DEF TypeInv, TargetOK, RegOK
<1>4. PICK k \in Nat, s \in Nat, n \in Nat :
        k = reg.next /\ s = reg.adf.spriteflagsstart /\ n = reg.adf.numsprites
  BY <1>1 DEF AlphaInv, FlagsOK
<1>5. FlagsOK(f, reg.adf) /\ k < n /\ ClearedTo(g, f, cmd.sprite, s, k)
  BY <1>1, <1>3, <1>4 DEF AlphaInv
<1>6. s + n <= Len(f)
  BY <1>4, <1>5 DEF FlagsOK
<1>7. s + k < Len(f) /\ k + 1 <= n /\ k + 1 \in Nat
  BY <1>5, <1>6, Cells
<1>8. PICK h : h = IF cmd.sprite \in {-1, k} THEN [g EXCEPT ![s + k + 1] = ClearedCell(@)] ELSE g
  OBVIOUS
<1>9. ClearedTo(h, f, cmd.sprite, s, k + 1)
  BY <1>5, <1>7, <1>8, ClearedOne
<1>10. target'.cells = h
  <2>1. target' = IF Chosen(k)
                  THEN [target EXCEPT !.time = clock, !.cells[s + k + 1][2] = WithoutAlpha(@)]
                  ELSE target
    BY <1>4 DEF WriteFlag
  <2>2. DOMAIN target = {"room", "cells", "time"}
    BY DEF TypeInv, TargetOK
  <2>3. CASE Chosen(k)
    <3>1. h = [g EXCEPT ![s + k + 1] = ClearedCell(@)]
      BY <1>8, <2>3 DEF Chosen
    <3>2. h = [g EXCEPT ![s + k + 1][2] = WithoutAlpha(@)]
      BY <3>1 DEF ClearedCell
    <3>3. target'.cells = [target.cells EXCEPT ![s + k + 1][2] = WithoutAlpha(@)]
      BY <2>1, <2>2, <2>3
    <3> QED BY <1>3, <3>2, <3>3
  <2>4. CASE ~Chosen(k)
    BY <1>3, <1>8, <2>1, <2>4 DEF Chosen
  <2> QED BY <2>3, <2>4
<1> QED BY <1>1, <1>2, <1>3, <1>4, <1>5, <1>7, <1>9, <1>10 DEF AlphaInv

LEMMA AlphaEnds ==
  ASSUME TypeInv, AlphaInv, AlphaDone
  PROVE  AlphaInv'
<1>1. /\ pc = "flags" /\ pc' = "shell" /\ UNCHANGED <<target, cmd, reg>>
      /\ reg.next = reg.adf.numsprites
  BY DEF AlphaDone, Exit, Same
<1> SUFFICES ASSUME AlphaAssumed
             PROVE  ClearedSome(target.cells, reg.before, cmd.sprite, status')
  BY <1>1 DEF AlphaInv, AlphaAssumed
<1>2. PICK n \in Nat, s \in Nat : n = reg.adf.numsprites /\ s = reg.adf.spriteflagsstart
  BY <1>1 DEF AlphaInv, FlagsOK
<1>3. /\ FlagsOK(reg.before, reg.adf)
      /\ ClearedTo(target.cells, reg.before, cmd.sprite, s, n)
  BY <1>1, <1>2 DEF AlphaInv
<1>4. s + n <= Len(reg.before) /\ Flags(reg.before) = s + 1..s + n /\ n <= n
  BY <1>2, <1>3 DEF FlagsOK
<1> QED BY <1>3, <1>4 DEF ClearedSome

LEMMA AlphaNext ==
  ASSUME TypeInv, AlphaInv, [Next]_vars
  PROVE  AlphaInv'
<1>1. CASE Kill
  <2>1. pc # "shell" /\ pc' = "shell" /\ UNCHANGED <<target, cmd, reg>> /\ status' # "ok"
    BY <1>1 DEF Kill, Exit
  <2>2. CASE pc \in {"alpha", "flags", "loop"}
    BY <2>1, <2>2, AlphaStops
  <2>3. CASE pc \notin {"alpha", "flags", "loop"}
    <3>1. cmd.tool # "alpha"
      BY <2>1, <2>3 DEF TypeInv, CmdOK
    <3> QED BY <2>1, <3>1 DEF AlphaInv, AlphaAssumed
  <2> QED BY <2>2, <2>3
<1>2. CASE Compile
  BY <1>2, AlphaSame DEF Compile
<1>3. CASE UNCHANGED vars
  BY <1>3, AlphaSame DEF vars
<1>4. CASE NextArg \/ SearchGame \/ SearchRoom \/ CopyHeader \/ CopyRest \/ Rename
           \/ OpenData \/ dump_script \/ ExtractDone \/ dumprooms
  <2>1. pc \notin {"alpha", "flags", "loop", "shell"} /\ cmd' = cmd
    BY <1>4 DEF NextArg, SearchGame, SearchRoom, CopyHeader, CopyRest, Rename, OpenData, dump_script,
                ExtractDone, dumprooms, Same
  <2>2. cmd.tool # "alpha"
    BY <2>1 DEF TypeInv, CmdOK
  <2> QED BY <2>1, <2>2 DEF AlphaInv, AlphaAssumed
<1> QED BY <1>1, <1>2, <1>3, <1>4, AlphaRun, AlphaOpen, AlphaWrite, AlphaEnds DEF Next, Tool

LEMMA AlphaInvCleared ==
  ASSUME TypeInv, AlphaInv
  PROVE  FlagsCleared
<1> SUFFICES ASSUME AlphaAssumed
             PROVE  /\ DOMAIN target.cells = DOMAIN reg.before
                    /\ \A n \in DOMAIN reg.before :
                          target.cells[n] \in {reg.before[n], AllCleared(reg.before, cmd.sprite)[n]}
                    /\ Ended("alpha", {"ok"}) => target.cells = AllCleared(reg.before, cmd.sprite)
  BY DEF FlagsCleared, AlphaAssumed, AllCleared, AskedFlags, FlagNumber, ClearedCell, Chosen
<1>1. PICK f \in Files, g \in Files : f = reg.before /\ g = target.cells
  BY DEF TypeInv, TargetOK, RegOK
<1>2. pc \in {"alpha", "flags", "loop", "shell"}
  BY DEF TypeInv, CmdOK, AlphaAssumed
<1>3. CASE g = f /\ ~(pc = "shell" /\ status = "ok")
  BY <1>1, <1>3 DEF Ended
<1>4. CASE pc = "flags"
  <2>1. /\ FlagsOK(f, reg.adf) /\ reg.next \in Nat /\ reg.next <= reg.adf.numsprites
        /\ ClearedTo(g, f, cmd.sprite, reg.adf.spriteflagsstart, reg.next)
    BY <1>1, <1>4 DEF AlphaInv
  <2>2. ClearedSome(g, f, cmd.sprite, "flags")
    BY <2>1 DEF FlagsOK, ClearedSome
  <2>3. DOMAIN g = DOMAIN f /\ \A n \in DOMAIN f : g[n] \in {f[n], AllCleared(f, cmd.sprite)[n]}
    BY <2>2, FlagsBecome
  <2> QED BY <1>1, <1>4, <2>3 DEF Ended
<1>5. CASE ClearedSome(g, f, cmd.sprite, status)
  <2>1. /\ DOMAIN g = DOMAIN f /\ \A n \in DOMAIN f : g[n] \in {f[n], AllCleared(f, cmd.sprite)[n]}
        /\ status = "ok" => g = AllCleared(f, cmd.sprite)
    BY <1>5, FlagsBecome
  <2> QED BY <1>1, <2>1 DEF Ended
<1> QED BY <1>1, <1>2, <1>3, <1>4, <1>5 DEF AlphaInv

\* agsalphahack changes nothing but the alpha flag of the sprites asked for, and
\* has cleared all of them when it ends without an error, whatever of the game
\* behind its sprites cannot be read (agsalphahack.c, DataFile.c).
THEOREM FlagsAreCleared == Spec => []FlagsCleared
<1>1. Init => TypeInv /\ AlphaInv
  BY TypeInit, AlphaInit
<1>2. TypeInv /\ AlphaInv /\ [Next]_vars => TypeInv' /\ AlphaInv'
  BY TypeNext, AlphaNext
<1>3. TypeInv /\ AlphaInv => FlagsCleared
  BY AlphaInvCleared
<1> QED BY <1>1, <1>2, <1>3, PTL DEF Spec

-----------------------------------------------------------------------------
(* agscriptxtract                                                          *)

\* The first k scripts of a game.
Dumped(f, o, k) ==
  /\ o \in Seq(Files) /\ k \in Nat /\ Len(o) = k
  /\ \A j \in 1..k : o[j] = ScriptCells(f, j - 1)

LEMMA NothingDumped == ASSUME NEW f PROVE Dumped(f, <<>>, 0)
<1>1. <<>> \in Seq(Files) /\ Len(<<>>) = 0 /\ 1..0 = {} /\ 0 \in Nat
  BY EmptySeq
<1> QED BY <1>1 DEF Dumped

\* t is s, which has k elements, with e behind them.
WithLast(S, s, e, k, t) ==
  /\ t \in Seq(S) /\ Len(t) = k + 1
  /\ t[k + 1] = e /\ \A j \in 1..k : t[j] = s[j]

LEMMA AppendedIs ==
  ASSUME NEW S, NEW s, s \in Seq(S), NEW e, e \in S, NEW k, Len(s) = k
  PROVE  WithLast(S, s, e, k, Append(s, e))
<1>1. /\ Append(s, e) \in Seq(S)
      /\ Len(Append(s, e)) = Len(s) + 1
      /\ \A i \in 1..Len(s) : Append(s, e)[i] = s[i]
      /\ Append(s, e)[Len(s) + 1] = e
  BY AppendProperties
<1> QED BY <1>1, Zenon DEF WithLast

\* The next of the scripts that were listed is the next script of the game.
LEMMA DumpedOne ==
  ASSUME NEW f \in Files, Plain(f), NEW ss, NEW p, Listed(f, ss, p),
         NEW o, NEW k \in Nat, Dumped(f, o, k), k < Len(ss), NEW c,
         c = SubSeq(f, ss[k + 1].start + 1, ss[k + 1].start + ss[k + 1].len)
  PROVE  Dumped(f, Append(o, c), k + 1) /\ c # <<>>
<1>1. Len(ss) \in Nat
  BY DEF Listed
<1>2. k + 1 \in 1..Len(ss) /\ (k + 1) - 1 = k
  BY <1>1
<1>3. PICK q, len : q = ss[k + 1].start /\ len = ss[k + 1].len
  OBVIOUS
<1>4. q \in Signatures(f) /\ Cardinality(Before(f, q)) = k /\ len = ASI_read_script(f, q)
  BY <1>2, <1>3 DEF Listed
<1>5. q \in Nat /\ Len(f) \in Nat
  BY <1>4, SignaturesFinite, Cells
<1>6. len \in Nat /\ len >= 6 /\ q + len <= Len(f)
  <2>1. len # 0
    BY <1>4, PlainIs
  <2> QED BY <1>4, <1>5, <2>1, ScriptIs
<1>7. c = ScriptCells(f, k)
  <2>1. ScriptStart(f, k) = q
    BY <1>4, ScriptStartIs
  <2> QED BY <1>3, <1>4, <2>1 DEF ScriptCells
<1>8. c \in Files /\ Len(c) = len
  <2>1. q + 1 \in Nat \ {0} /\ q + len \in Nat /\ q + 1 <= (q + len) + 1 /\ (q + len) - (q + 1) + 1 = len
    BY <1>5, <1>6
  <2>2. c = SubSeq(f, q + 1, q + len)
    BY <1>3
  <2> QED BY <1>6, <2>1, <2>2, Part, ZenonT(60)
<1>9. c # <<>>
  <2>1. Len(<<>>) = 0 /\ ~(0 >= 6)
    OBVIOUS
  <2> QED BY <1>6, <1>8, <2>1
<1>10. PICK oo : oo = Append(o, c)
  OBVIOUS
<1>11. o \in Seq(Files) /\ Len(o) = k /\ \A j \in 1..k : o[j] = ScriptCells(f, j - 1)
  BY DEF Dumped
<1>12. oo \in Seq(Files) /\ Len(oo) = k + 1 /\ oo[k + 1] = c /\ \A j \in 1..k : oo[j] = o[j]
  <2>1. o \in Seq(Files) /\ c \in Files /\ Len(o) = k
    BY <1>8, <1>11
  <2>2. WithLast(Files, o, c, k, Append(o, c))
    BY <2>1, AppendedIs
  <2>3. WithLast(Files, o, c, k, oo)
    BY <1>10, <2>2
  <2> QED BY <2>3 DEF WithLast
<1>13. ASSUME NEW j \in 1..k + 1 PROVE oo[j] = ScriptCells(f, j - 1)
  <2>1. CASE j = k + 1
    BY <1>2, <1>7, <1>12, <2>1
  <2>2. CASE j # k + 1
    <3>1. j \in 1..k
      BY <2>2
    <3> QED BY <1>11, <1>12, <3>1
  <2> QED BY <2>1, <2>2
<1>14. k + 1 \in Nat
  OBVIOUS
<1> QED BY <1>9, <1>10, <1>12, <1>13, <1>14 DEF Dumped

\* agscriptxtract on a game whose scripts are where they belong, and how far it is.
ExtractAssumed ==
  cmd.tool = "extract" /\ ~target.room /\ FlagsPlaced(target.cells) /\ Told(target.cells)
Readable(aoe) == aoe \notin {"aborted", "view"} /\ ~Fatal(aoe, "script")
ExtractInv ==
  ExtractAssumed =>
  /\ pc # "dumprooms"
  /\ pc = "extract" => reg.next = 0 /\ out = <<>>
  /\ pc = "dump" /\ reg.adf.aoe # "view" =>
        Dumpable(target.cells, reg.adf) /\ Dumped(target.cells, out, reg.next)
  /\ pc = "shell" /\ status \in {"ok", "failed", "trapped"} /\ Readable(reg.adf.aoe) =>
        status = "ok" /\ Dumped(target.cells, out, Cardinality(Signatures(target.cells)))

LEMMA ExtractInit ==
  ASSUME Init
  PROVE  ExtractInv
  BY DEF Init, ExtractInv, ExtractAssumed, NoCommand

LEMMA ExtractSame ==
  ASSUME ExtractInv, UNCHANGED <<target, cmd, pc, reg, out, status>>
  PROVE  ExtractInv'
  BY DEF ExtractInv, ExtractAssumed

LEMMA ExtractRun ==
  ASSUME TypeInv, Run
  PROVE  ExtractInv'
<1>1. /\ pc' = (IF cmd'.tool = "extract" /\ target.room THEN "dumprooms" ELSE cmd'.tool)
      /\ reg' = NewReg(target.cells, target.time, objs) /\ UNCHANGED target /\ out' = <<>>
  BY DEF Run
<1>2. reg'.next = 0
  BY <1>1 DEF NewReg
<1>3. cmd'.tool = "extract" /\ ~target'.room => pc' = "extract"
  BY <1>1
<1> QED BY <1>1, <1>2, <1>3 DEF ExtractInv, ExtractAssumed

LEMMA ExtractOpen ==
  ASSUME TypeInv, ExtractInv, OpenData
  PROVE  ExtractInv'
<1>1. pc = "extract" /\ Open("script", "dump") /\ UNCHANGED <<target, cmd, out>>
  BY DEF OpenData, Same
<1>2. PICK junk \in JUNK :
            /\ reg' = [reg EXCEPT !.adf = ADF_open(target.cells, junk)]
            /\ pc' \in {"loop", "shell", "dump"}
            /\ pc' = "dump" => /\ ADF_open(target.cells, junk).aoe \notin {"loops", "aborted"}
                               /\ ~Fatal(ADF_open(target.cells, junk).aoe, "script")
            /\ pc' = "shell" => \/ ADF_open(target.cells, junk).aoe = "aborted"
                                \/ Fatal(ADF_open(target.cells, junk).aoe, "script")
  BY <1>1, OpenIs
<1>3. PICK adf : adf = ADF_open(target.cells, junk)
  OBVIOUS
<1>4. reg'.next = reg.next /\ reg'.adf = adf
  BY <1>2, <1>3 DEF TypeInv, RegOK, RegFields
<1> SUFFICES ASSUME ExtractAssumed PROVE ExtractInv'
  BY <1>1 DEF ExtractInv, ExtractAssumed
<1>5. pc' = "shell" => ~Readable(adf.aoe)
  BY <1>2, <1>3 DEF Readable
<1>6. ASSUME pc' = "dump", adf.aoe # "view"
      PROVE  Dumpable(target.cells, adf) /\ Dumped(target.cells, out, reg.next)
  <2>1. PICK f \in Files : f = target.cells
    BY DEF TypeInv, TargetOK
  <2>2. junk \in Nat /\ FlagsPlaced(f) /\ Told(f)
    BY <2>1, FilesAssumption DEF ExtractAssumed
  <2>3. Opened(f, adf)
    BY <1>3, <2>1, <2>2, OpenedIs
  <2>4. adf.aoe # "aborted" /\ ~Fatal(adf.aoe, "script")
    BY <1>2, <1>3, <1>6
  <2>5. adf.aoe \notin ScriptErrors
    BY <2>4, FatalErrors
  <2>6. Dumpable(f, adf)
    BY <1>6, <2>2, <2>3, <2>5 DEF Opened
  <2>7. Dumped(f, out, reg.next)
    BY <1>1, NothingDumped DEF ExtractInv
  <2> QED BY <2>1, <2>6, <2>7
<1> QED BY <1>1, <1>2, <1>4, <1>5, <1>6 DEF ExtractInv

LEMMA ExtractDump ==
  ASSUME TypeInv, ExtractInv, dump_script
  PROVE  ExtractInv'
<1>1. /\ pc = "dump" /\ UNCHANGED <<target, cmd>> /\ reg.next < Len(reg.adf.scripts)
      /\ reg' = [reg EXCEPT !.next = @ + 1]
  BY DEF dump_script, Same
<1>2. reg'.next = reg.next + 1 /\ reg'.adf = reg.adf
  BY <1>1 DEF TypeInv, RegOK, RegFields
<1> SUFFICES ASSUME ExtractAssumed, reg.adf.aoe # "view" PROVE ExtractInv'
  <2>1. pc' \in {"dump", "shell"}
    BY <1>1 DEF dump_script, Exit
  <2> QED BY <1>1, <1>2, <2>1 DEF ExtractInv, ExtractAssumed, Readable
<1>3. PICK f \in Files : f = target.cells
  BY DEF TypeInv, TargetOK
<1>4. PICK ss, k : ss = reg.adf.scripts /\ k = reg.next
  OBVIOUS
<1>5. Dumpable(f, reg.adf) /\ Dumped(f, out, k) /\ Plain(f)
  BY <1>1, <1>3, <1>4 DEF ExtractInv, ExtractAssumed, Told
<1>6. PICK p : Listed(f, ss, p)
  BY <1>4, <1>5 DEF Dumpable
<1>7. k \in Nat /\ k < Len(ss) /\ Len(ss) \in Nat
  BY <1>1, <1>4, <1>5, <1>6 DEF Dumped, Listed
<1>8. reg.adf.open = TRUE
  <2>1. Len(ss) > 0
    BY <1>7
  <2> QED BY <1>4, <1>5, <2>1 DEF Dumpable
<1>9. PICK c : c = SubSeq(f, ss[k + 1].start + 1, ss[k + 1].start + ss[k + 1].len)
  OBVIOUS
<1>10. Dumped(f, Append(out, c), k + 1) /\ c # <<>>
  BY <1>5, <1>6, <1>7, <1>9, DumpedOne
<1>11. /\ out' = Append(out, c)
       /\ IF c = <<>> THEN Exit("trapped") ELSE UNCHANGED <<pc, status>>
  BY <1>3, <1>4, <1>8, <1>9 DEF dump_script
<1>12. pc' = "dump"
  BY <1>1, <1>10, <1>11
<1> QED BY <1>1, <1>2, <1>3, <1>4, <1>5, <1>10, <1>11, <1>12 DEF ExtractInv

LEMMA ExtractEnds ==
  ASSUME TypeInv, ExtractInv, ExtractDone
  PROVE  ExtractInv'
<1>1. /\ pc = "dump" /\ pc' = "shell" /\ status' = "ok" /\ UNCHANGED <<target, cmd, reg, out>>
      /\ reg.next = Len(reg.adf.scripts)
  BY DEF ExtractDone, Exit, Same
<1> SUFFICES ASSUME ExtractAssumed, reg.adf.aoe # "view"
             PROVE  Dumped(target.cells, out, Cardinality(Signatures(target.cells)))
  BY <1>1 DEF ExtractInv, ExtractAssumed, Readable
<1>2. Dumpable(target.cells, reg.adf) /\ Dumped(target.cells, out, reg.next)
  BY <1>1 DEF ExtractInv
<1> QED BY <1>1, <1>2 DEF Dumpable

LEMMA ExtractNext ==
  ASSUME TypeInv, ExtractInv, [Next]_vars
  PROVE  ExtractInv'
<1>1. CASE Kill
  <2>1. pc' = "shell" /\ status' = "killed"
    BY <1>1 DEF Kill, Exit
  <2> QED BY <2>1 DEF ExtractInv
<1>2. CASE Compile
  BY <1>2, ExtractSame DEF Compile
<1>3. CASE UNCHANGED vars
  BY <1>3, ExtractSame DEF vars
<1>4. CASE NextArg \/ SearchGame \/ SearchRoom \/ CopyHeader \/ CopyRest \/ Rename
           \/ OpenFlags \/ WriteFlag \/ AlphaDone
  <2>1. pc \in InjectPCs \cup {"alpha", "flags"} /\ cmd' = cmd
    BY <1>4 DEF NextArg, SearchGame, SearchRoom, CopyHeader, CopyRest, Rename, OpenFlags, WriteFlag,
                AlphaDone, Same, InjectPCs
  <2>2. cmd.tool # "extract"
    BY <2>1 DEF TypeInv, CmdOK, InjectPCs
  <2> QED BY <2>1, <2>2 DEF ExtractInv, ExtractAssumed
<1>5. CASE dumprooms
  <2>1. pc = "dumprooms" /\ UNCHANGED <<target, cmd>>
    BY <1>5 DEF dumprooms, Same
  <2> QED BY <2>1 DEF ExtractInv, ExtractAssumed
<1> QED BY <1>1, <1>2, <1>3, <1>4, <1>5, ExtractRun, ExtractOpen, ExtractDump, ExtractEnds DEF Next, Tool

LEMMA ExtractInvScripts ==
  ASSUME TypeInv, ExtractInv
  PROVE  ExtractedAreScripts
<1> SUFFICES ASSUME ExtractAssumed, Ended("extract", {"ok", "failed", "trapped"}), Readable(reg.adf.aoe)
             PROVE  /\ status = "ok"
                    /\ Len(out) = Cardinality(Signatures(target.cells))
                    /\ \A k \in DOMAIN out : out[k] = ScriptCells(target.cells, k - 1)
  BY DEF ExtractedAreScripts, ExtractAssumed, Told, Readable, Ended
<1>1. status = "ok" /\ Dumped(target.cells, out, Cardinality(Signatures(target.cells)))
  BY DEF ExtractInv, Ended
<1>2. DOMAIN out = 1..Len(out)
  BY <1>1, LenProperties DEF Dumped
<1> QED BY <1>1, <1>2 DEF Dumped

\* agscriptxtract dumps every script of a game in the order agsinject counts
\* them, also when a part behind the scripts cannot be read, but for a view
\* (agscriptxtract.c, DataFile.c).
THEOREM ScriptsAreExtracted == Spec => []ExtractedAreScripts
<1>1. Init => TypeInv /\ ExtractInv
  BY TypeInit, ExtractInit
<1>2. TypeInv /\ ExtractInv /\ [Next]_vars => TypeInv' /\ ExtractInv'
  BY TypeNext, ExtractNext
<1>3. TypeInv /\ ExtractInv => ExtractedAreScripts
  BY ExtractInvScripts
<1> QED BY <1>1, <1>2, <1>3, PTL DEF Spec
=============================================================================
