----------------------------- MODULE PackProofs -----------------------------
(***************************************************************************)
(* Theorems about agspack, for any files and any index: the string store   *)
(* never writes behind its block, and in a pack that is made every file is *)
(* where the header says, whole.                                           *)
(***************************************************************************)
EXTENDS Pack, SequenceTheorems, WellFoundedInduction, TLAPS

-----------------------------------------------------------------------------
(* The string store                                                        *)

\* What the argument needs of the state.  The last part is why an average can be
\* taken as soon as there are characters.
StoreInv ==
  /\ ss.lcount \in Nat /\ ss.ssize \in Nat /\ ss.scapa \in Nat
  /\ StoreInside
  /\ ss.lcount = 0 => ss.ssize = 0

\* Division rounds down to less than one divisor.
LEMMA Quotient ==
  ASSUME NEW x \in Nat, NEW d \in Nat \ {0}
  PROVE  /\ x \div d \in Nat
         /\ d * (x \div d) <= x
         /\ x < d * (x \div d) + d
OBVIOUS

\* Rounding up never goes below the number, nor, for one that is not 0, below the
\* unit (the ALIGN of strstore_grow_s).
LEMMA AlignUp ==
  ASSUME NEW x \in Nat \ {0}
  PROVE  ALIGN(x) \in Nat /\ ALIGN(x) >= x /\ ALIGN(x) >= MinAlloc
<1> DEFINE q == (x + MinAlloc - 1) \div MinAlloc
<1>1. MinAlloc \in Nat \ {0}
  BY AllocAssumption
<1>2. x + MinAlloc - 1 \in Nat
  BY <1>1
<1>3. /\ q \in Nat
      /\ MinAlloc * q <= x + MinAlloc - 1
      /\ x + MinAlloc - 1 < MinAlloc * q + MinAlloc
  BY <1>1, <1>2, Quotient
<1> HIDE DEF q
<1>4. MinAlloc * q \in Nat /\ MinAlloc * q = q * MinAlloc
  BY <1>1, <1>3
<1>5. MinAlloc * q >= x
  BY <1>1, <1>3, <1>4
<1>6. q # 0
  <2>1. q = 0 => MinAlloc * q = 0
    BY <1>1
  <2> QED BY <2>1, <1>5
<1>7. MinAlloc * q >= MinAlloc
  BY <1>1, <1>3, <1>6
<1>8. ALIGN(x) = q * MinAlloc
  BY DEF ALIGN, q
<1> QED BY <1>4, <1>5, <1>7, <1>8

\* The capacity strstore_grow_s takes: more than twice what is stored, and never
\* less than the smallest block.
LEMMA NewCapacity ==
  ASSUME StoreInv
  PROVE  ncap(ss) \in Nat /\ ncap(ss) >= 2 * ss.ssize + 16 /\ ncap(ss) >= MinAlloc
<1> DEFINE q == ss.ssize \div ss.lcount
           need == ss.lcount * 2 * alen(ss)
<1>1. ss.lcount \in Nat /\ ss.ssize \in Nat
  BY DEF StoreInv
<1>2. need \in Nat /\ need >= 2 * ss.ssize
  <2>1. CASE ss.lcount = 0
    <3>1. ss.ssize = 0 /\ alen(ss) = 16
      BY <2>1 DEF StoreInv, alen
    <3>2. need = 0
      BY <2>1, <3>1
    <3> QED BY <3>1, <3>2
  <2>2. CASE ss.lcount # 0
    <3>1. /\ q \in Nat
          /\ ss.ssize < ss.lcount * q + ss.lcount
      BY <1>1, <2>2, Quotient
    <3>2. alen(ss) = q + 1
      BY <1>1, <2>2 DEF alen
    <3> HIDE DEF q
    <3>3. ss.lcount * q \in Nat
      BY <1>1, <3>1
    <3>4. need = 2 * (ss.lcount * q + ss.lcount)
      <4>1. \A n, k \in Nat : n * 2 * (k + 1) = 2 * (n * k + n)
        OBVIOUS
      <4> QED BY <1>1, <3>1, <3>2, <4>1
    <3> QED BY <1>1, <3>1, <3>3, <3>4
  <2> QED BY <2>1, <2>2
<1>3. ncap(ss) = ALIGN(16 + need)
  BY DEF ncap
<1> HIDE DEF need
<1>4. 16 + need \in Nat \ {0}
  BY <1>2
<1>5. ALIGN(16 + need) \in Nat /\ ALIGN(16 + need) >= 16 + need /\ ALIGN(16 + need) >= MinAlloc
  BY <1>4, AlignUp
<1> QED BY <1>1, <1>2, <1>3, <1>5

\* One string: each character, the 0 included, has its place in the block.
LEMMA AppendInside ==
  ASSUME StoreInv, NEW s \in Names, AppendString(s)
  PROVE  StoreInv'
<1> DEFINE end == ss.ssize + strlen[s]
<1>1. /\ ss.lcount \in Nat /\ ss.ssize \in Nat /\ ss.scapa \in Nat
      /\ ss.inside /\ ss.ssize <= ss.scapa
  BY DEF StoreInv, StoreInside
<1>2. strlen[s] \in Nat /\ strlen[s] + 1 <= MaxLen /\ 2 * MaxLen <= MinAlloc
      /\ MaxLen \in Nat /\ MinAlloc \in Nat
  BY StringsAssumption, AllocAssumption
<1>3. ncap(ss) \in Nat /\ ncap(ss) >= 2 * ss.ssize + 16 /\ ncap(ss) >= MinAlloc
  BY NewCapacity
<1>4. ASSUME NEW p \in ss.ssize..end
      PROVE  capacity_at(ss, p) \in Nat /\ p < capacity_at(ss, p)
  <2>1. p \in Nat /\ p <= ss.ssize + MaxLen
    BY <1>1, <1>2
  <2>2. p < ncap(ss)
    BY <1>1, <1>2, <1>3, <2>1
  <2> QED BY <1>1, <1>3, <2>1, <2>2 DEF capacity_at
<1>5. end \in ss.ssize..end
  BY <1>1, <1>2
<1>6. capacity_at(ss, end) \in Nat /\ end < capacity_at(ss, end)
  BY <1>4, <1>5
<1>7. /\ ss'.lcount = ss.lcount + 1 /\ ss'.ssize = end + 1
      /\ ss'.scapa = capacity_at(ss, end)
      /\ ss'.inside = (ss.inside /\ \A p \in ss.ssize..end : p < capacity_at(ss, p))
  BY DEF AppendString, strstore_append
<1>8. ss'.inside
  BY <1>1, <1>4, <1>7
<1>9. end \in Nat
  BY <1>1, <1>2
<1> HIDE DEF end
<1>10. /\ ss'.lcount \in Nat /\ ss'.ssize \in Nat /\ ss'.scapa \in Nat
       /\ ss'.ssize <= ss'.scapa /\ ss'.lcount # 0
  BY <1>1, <1>6, <1>7, <1>9
<1> QED BY <1>8, <1>10 DEF StoreInv, StoreInside

\* No character of a string is written behind the block of the store (the loop of
\* strstore_append), for every choice of names and lengths AllocAssumption allows.
THEOREM CapacitySuffices == StoreSpec => []StoreInside
<1>1. StoreInit => StoreInv
  BY DEF StoreInit, NewStore, StoreInv, StoreInside
<1>2. StoreInv /\ [StoreNext]_ss => StoreInv'
  <2> SUFFICES ASSUME StoreInv, [StoreNext]_ss
               PROVE  StoreInv'
    OBVIOUS
  <2>1. CASE \E s \in Names : AppendString(s)
    BY <2>1, AppendInside
  <2>2. CASE \E ns, sl \in Nat : Preallocate(ns, sl)
    <3> PICK ns \in Nat, sl \in Nat : Preallocate(ns, sl)
      BY <2>2
    <3>1. ss.lcount = 0 /\ ss.ssize = 0 /\ ss.inside
      BY DEF Preallocate, StoreInv, StoreInside
    <3>2. ns * sl \in Nat
      OBVIOUS
    <3>3. ss' = [ss EXCEPT !.scapa = ns * sl]
      BY DEF Preallocate, strstore_prealloc
    <3> QED BY <3>1, <3>2, <3>3 DEF StoreInv, StoreInside
  <2>3. CASE UNCHANGED ss
    BY <2>3 DEF StoreInv, StoreInside
  <2> QED BY <2>1, <2>2, <2>3 DEF StoreNext
<1>3. StoreInv => StoreInside
  BY DEF StoreInv
<1> QED BY <1>1, <1>2, <1>3, PTL DEF StoreSpec

-----------------------------------------------------------------------------
(* Sequences                                                               *)

IsSeq(s) == s \in Seq(Range(s))

LEMMA Induction ==
  ASSUME NEW S \in SUBSET Nat, 0 \in S, \A n \in S : n + 1 \in S
  PROVE  S = Nat
<1> DEFINE R == OpToRel(<, Nat)
           Rest == Nat \ S
<1>1. IsWellFoundedOn(R, Nat)
  BY NatLessThanWellFounded
<1>2. ASSUME Rest # {} PROVE FALSE
  <2>1. PICK x \in Rest : \A y \in Rest : ~ (<<y, x>> \in R)
    <3> HIDE DEF R
    <3> QED BY <1>1, <1>2, WFMin
  <2>2. x \in Nat /\ x # 0 /\ x - 1 \in Nat /\ (x - 1) + 1 = x
    OBVIOUS
  <2>3. x - 1 \in Rest
    BY <2>2
  <2>4. ~(x - 1 < x)
    <3>1. ~ (<<x - 1, x>> \in R)
      BY <2>1, <2>3
    <3> QED BY <2>2, <3>1 DEF OpToRel
  <2> QED BY <2>2, <2>4
<1> QED BY <1>2

LEMMA EmptyList == IsSeq(<<>>) /\ Len(<<>>) = 0
<1>1. <<>> \in Seq({})
  BY EmptySeq
<1> QED BY <1>1, SeqOfRange, EmptySeq DEF IsSeq

LEMMA Longer ==
  ASSUME NEW s, IsSeq(s), NEW x
  PROVE  /\ IsSeq(Append(s, x)) /\ Len(s) \in Nat /\ Len(Append(s, x)) = Len(s) + 1
         /\ \A k \in 1..Len(s) : Append(s, x)[k] = s[k]
         /\ Append(s, x)[Len(s) + 1] = x
<1> DEFINE S == Range(s) \cup {x}
<1>1. s \in Seq(S) /\ x \in S
  <2>1. s \in Seq(Range(s)) /\ Range(s) \subseteq S
    BY DEF IsSeq
  <2> HIDE DEF S
  <2>2. s \in Seq(S)
    BY <2>1, SeqMonotonic
  <2> QED BY <2>2 DEF S
<1> HIDE DEF S
<1>2. Append(s, x) \in Seq(S)
  BY <1>1, AppendProperties
<1>3. IsSeq(Append(s, x))
  BY <1>2, SeqOfRange DEF IsSeq
<1>4. Len(s) \in Nat
  BY <1>1, LenProperties
<1> QED BY <1>1, <1>3, <1>4, AppendProperties

LEMMA OneOrTwo ==
  ASSUME NEW x, NEW y
  PROVE  IsSeq(<<x>>) /\ Len(<<x>>) = 1 /\ IsSeq(<<x, y>>) /\ Len(<<x, y>>) = 2
<1>1. <<x>> \in Seq({x}) /\ <<x, y>> \in Seq({x, y})
  OBVIOUS
<1>2. IsSeq(<<x>>) /\ IsSeq(<<x, y>>)
  BY <1>1, SeqOfRange DEF IsSeq
<1> QED BY <1>2

\* Sequences built element by element, and taken from others.
LEMMA Numbered ==
  ASSUME NEW n \in Nat, NEW f, f = [k \in 1..n |-> f[k]]
  PROVE  IsSeq(f) /\ Len(f) = n
<1> DEFINE S == {f[k] : k \in 1..n}
<1>1. f \in [1..n -> S]
  OBVIOUS
<1>2. f \in Seq(S)
  BY <1>1, SeqDef
<1>3. Len(f) = n
  BY <1>1, <1>2, LenProperties
<1> QED BY <1>2, <1>3, SeqOfRange DEF IsSeq

LEMMA Lengths ==
  ASSUME NEW s, IsSeq(s)
  PROVE  Len(s) \in Nat /\ s = [k \in 1..Len(s) |-> s[k]]
<1>1. s \in Seq(Range(s))
  BY DEF IsSeq
<1>2. Len(s) \in Nat /\ s \in [1..Len(s) -> Range(s)]
  BY <1>1, LenProperties
<1> QED BY <1>2

LEMMA SameSeq ==
  ASSUME NEW s, IsSeq(s), NEW t, IsSeq(t), Len(s) = Len(t),
         \A k \in 1..Len(s) : s[k] = t[k]
  PROVE  s = t
<1>1. s = [k \in 1..Len(s) |-> s[k]] /\ t = [k \in 1..Len(t) |-> t[k]]
  BY Lengths
<1> QED BY <1>1

Joins(c, s, t) ==
  /\ IsSeq(c) /\ Len(c) = Len(s) + Len(t)
  /\ \A k \in 1..Len(s) : c[k] = s[k]
  /\ \A k \in 1..Len(t) : c[Len(s) + k] = t[k]

LEMMA Joined ==
  ASSUME NEW s, IsSeq(s), NEW t, IsSeq(t)
  PROVE  Joins(s \o t, s, t)
<1> DEFINE S == Range(s) \cup Range(t)
<1>1. s \in Seq(S) /\ t \in Seq(S)
  <2>1. s \in Seq(Range(s)) /\ Range(s) \subseteq S /\ t \in Seq(Range(t)) /\ Range(t) \subseteq S
    BY DEF IsSeq
  <2> HIDE DEF S
  <2> QED BY <2>1, SeqMonotonic
<1> HIDE DEF S
<1>2. s \o t \in Seq(S)
  BY <1>1, ConcatProperties
<1>3. IsSeq(s \o t)
  BY <1>2, SeqOfRange DEF IsSeq
<1>4. Len(s) \in Nat /\ Len(t) \in Nat
  BY <1>1, LenProperties
<1>5. /\ Len(s \o t) = Len(s) + Len(t)
      /\ \A k \in 1..Len(s) + Len(t) : (s \o t)[k] = IF k <= Len(s) THEN s[k] ELSE t[k - Len(s)]
  BY <1>1, ConcatProperties
<1>6. \A k \in 1..Len(s) : (s \o t)[k] = s[k]
  BY <1>4, <1>5
<1>7. ASSUME NEW k \in 1..Len(t) PROVE (s \o t)[Len(s) + k] = t[k]
  <2>1. PICK n \in Nat, m \in Nat : n = Len(s) /\ m = Len(t)
    BY <1>4
  <2>2. n + k \in 1..n + m /\ ~(n + k <= n) /\ (n + k) - n = k
    BY <2>1
  <2> QED BY <1>5, <2>1, <2>2
<1> QED BY <1>3, <1>4, <1>5, <1>6, <1>7 DEF Joins

\* The part of a sequence from one place to another, which may be empty.
PartOf(p, s, m, n) ==
  /\ IsSeq(p) /\ Len(p) = IF m <= n THEN n - m + 1 ELSE 0
  /\ \A k \in 1..n - m + 1 : p[k] = s[m + k - 1]

LEMMA Part ==
  ASSUME NEW s, IsSeq(s), NEW m \in Nat \ {0}, NEW n \in Nat, n <= Len(s)
  PROVE  PartOf(SubSeq(s, m, n), s, m, n)
<1>1. s \in Seq(Range(s)) /\ Len(s) \in Nat
  BY Lengths DEF IsSeq
<1>2. \A k \in m..n : s[k] \in Range(s)
  BY <1>1, ElementOfSeq
<1>3. SubSeq(s, m, n) \in Seq(Range(s))
  BY <1>2, SubSeqProperties
<1>4. /\ Len(SubSeq(s, m, n)) = IF m <= n THEN n - m + 1 ELSE 0
      /\ \A k \in 1..n - m + 1 : SubSeq(s, m, n)[k] = s[m + k - 1]
  BY <1>2, SubSeqProperties
<1> QED BY <1>3, <1>4, SeqOfRange DEF IsSeq, PartOf

\* What is written at a place of a file covers as many bytes as it has; what was
\* there before and behind stays (the writes of AgsFile_write).
Writes(g, f, at, b) ==
  /\ IsSeq(g) /\ Len(g) = IF at + Len(b) <= Len(f) THEN Len(f) ELSE at + Len(b)
  /\ \A k \in 1..at : g[k] = f[k]
  /\ \A k \in 1..Len(b) : g[at + k] = b[k]

LEMMA WrittenIs ==
  ASSUME NEW f, IsSeq(f), NEW b, IsSeq(b), NEW at \in 0..Len(f)
  PROVE  Writes(Written(f, at, b), f, at, b)
<1>1. PICK n \in Nat, m \in Nat : n = Len(f) /\ m = Len(b)
  BY Lengths
<1>2. at \in Nat /\ at <= n /\ at + m + 1 \in Nat \ {0}
  BY <1>1
<1>3. PICK before, behind, c, g :
        /\ before = SubSeq(f, 1, at) /\ behind = SubSeq(f, at + m + 1, n)
        /\ c = before \o b /\ g = c \o behind
  OBVIOUS
<1>4. PartOf(before, f, 1, at) /\ PartOf(behind, f, at + m + 1, n)
  BY <1>1, <1>2, <1>3, Part
<1>5. IsSeq(before) /\ Len(before) = at /\ \A k \in 1..at : before[k] = f[k]
  BY <1>2, <1>4 DEF PartOf
<1>6. IsSeq(behind) /\ Len(behind) = IF at + m <= n THEN n - (at + m) ELSE 0
  <2>1. /\ IsSeq(behind)
        /\ Len(behind) = IF at + m + 1 <= n THEN n - (at + m + 1) + 1 ELSE 0
    BY <1>4 DEF PartOf
  <2>2. \A x, y \in Nat :
          (IF x + 1 <= y THEN y - (x + 1) + 1 ELSE 0) = IF x <= y THEN y - x ELSE 0
    OBVIOUS
  <2>3. PICK x \in Nat : x = at + m
    BY <1>2
  <2> QED BY <2>1, <2>2, <2>3
<1>7. Joins(c, before, b)
  BY <1>3, <1>5, Joined
<1>8. /\ IsSeq(c) /\ Len(c) = at + m
      /\ \A k \in 1..at : c[k] = f[k]
      /\ \A k \in 1..m : c[at + k] = b[k]
  BY <1>1, <1>5, <1>7 DEF Joins
<1>9. Joins(g, c, behind)
  BY <1>3, <1>6, <1>8, Joined
<1>10. IsSeq(g) /\ Len(g) = at + m + Len(behind) /\ \A k \in 1..at + m : g[k] = c[k]
  BY <1>8, <1>9 DEF Joins
<1>11. /\ \A k \in 1..at : k \in 1..at + m
       /\ \A k \in 1..m : at + k \in 1..at + m
  BY <1>1, <1>2
<1>12. Len(g) = IF at + m <= n THEN n ELSE at + m
  <2>1. PICK x \in Nat, l \in Nat : x = at + m /\ l = Len(behind)
    BY <1>2, <1>6, Lengths
  <2>2. l = (IF x <= n THEN n - x ELSE 0) /\ Len(g) = x + l
    BY <1>6, <1>10, <2>1
  <2>3. Len(g) = IF x <= n THEN n ELSE x
    BY <2>2
  <2> QED BY <2>1, <2>3
<1>13. Written(f, at, b) = g
  BY <1>1, <1>3 DEF Written
<1> QED BY <1>1, <1>8, <1>10, <1>11, <1>12, <1>13 DEF Writes

-----------------------------------------------------------------------------
(* Sums                                                                    *)

\* s holds the sums of the first numbers of f.
SumsOf(s, f) ==
  s = [n \in 0..Len(f) |-> IF n = 0 THEN 0 ELSE s[n - 1] + f[n]]

LEMMA SumsExist ==
  ASSUME NEW f, Len(f) \in Nat
  PROVE  \E s : SumsOf(s, f)
<1> DEFINE Has(m) == \E s : s = [n \in 0..m |-> IF n = 0 THEN 0 ELSE s[n - 1] + f[n]]
           S == {m \in Nat : Has(m)}
<1>1. Has(0)
  <2> DEFINE s == [n \in 0..0 |-> 0]
  <2>1. s = [n \in 0..0 |-> IF n = 0 THEN 0 ELSE s[n - 1] + f[n]]
    <3>1. \A n \in 0..0 : n = 0
      OBVIOUS
    <3> QED BY <3>1
  <2> QED BY <2>1
<1>2. ASSUME NEW m \in Nat, Has(m) PROVE Has(m + 1)
  <2>1. PICK t : t = [n \in 0..m |-> IF n = 0 THEN 0 ELSE t[n - 1] + f[n]]
    BY <1>2
  <2> DEFINE s == [n \in 0..m + 1 |-> IF n = m + 1 THEN t[m] + f[m + 1] ELSE t[n]]
  <2>2. ASSUME NEW n \in 0..m + 1
        PROVE  s[n] = IF n = 0 THEN 0 ELSE s[n - 1] + f[n]
    <3>1. CASE n = m + 1
      <4>1. n # 0 /\ n - 1 = m /\ m \in 0..m + 1 /\ m # m + 1
        BY <3>1
      <4>2. s[m] = t[m]
        BY <4>1
      <4> QED BY <3>1, <4>1, <4>2
    <3>2. CASE n # m + 1 /\ n # 0
      <4>1. n \in 0..m /\ n - 1 \in 0..m + 1 /\ n - 1 # m + 1
        BY <3>2
      <4>2. s[n] = t[n] /\ s[n - 1] = t[n - 1] /\ t[n] = t[n - 1] + f[n]
        BY <2>1, <3>2, <4>1
      <4> QED BY <3>2, <4>2
    <3>3. CASE n = 0
      <4>1. 0 \in 0..m /\ 0 # m + 1
        OBVIOUS
      <4> QED BY <2>1, <3>3, <4>1
    <3> QED BY <3>1, <3>2, <3>3
  <2>3. s = [n \in 0..m + 1 |-> IF n = 0 THEN 0 ELSE s[n - 1] + f[n]]
    BY <2>2
  <2> HIDE DEF s
  <2> QED BY <2>3
<1> HIDE DEF Has
<1>3. S = Nat
  <2>1. 0 \in S /\ \A m \in S : m + 1 \in S
    BY <1>1, <1>2
  <2>2. S \in SUBSET Nat
    OBVIOUS
  <2> HIDE DEF S
  <2> QED BY <2>1, <2>2, Induction
<1>4. Has(Len(f))
  BY <1>3
<1> QED BY <1>4 DEF Has, SumsOf

\* Whatever adds up like the numbers of f is their sum.
LEMMA TotalIs ==
  ASSUME NEW f, Len(f) \in Nat, NEW g, g[0] = 0,
         \A n \in 0..Len(f) - 1 : g[n + 1] = g[n] + f[n + 1]
  PROVE  Total(f) = g[Len(f)]
<1> DEFINE s == CHOOSE t : SumsOf(t, f)
           N == Len(f)
           S == {m \in Nat : m <= N => s[m] = g[m]}
<1>1. SumsOf(s, f)
  BY SumsExist
<1>2. Total(f) = s[N]
  BY DEF Total, SumsOf
<1> HIDE DEF s
<1>3. s = [n \in 0..N |-> IF n = 0 THEN 0 ELSE s[n - 1] + f[n]]
  BY <1>1 DEF SumsOf
<1>4. 0 \in S
  <2>1. 0 \in 0..N
    OBVIOUS
  <2> QED BY <1>3, <2>1
<1>5. ASSUME NEW m \in S PROVE m + 1 \in S
  <2> SUFFICES ASSUME m + 1 <= N PROVE s[m + 1] = g[m + 1]
    OBVIOUS
  <2>1. m + 1 \in 0..N /\ m + 1 # 0 /\ (m + 1) - 1 = m /\ m <= N /\ m \in 0..N - 1
    OBVIOUS
  <2>2. s[m + 1] = s[(m + 1) - 1] + f[m + 1]
    BY <1>3, <2>1
  <2>3. g[m + 1] = g[m] + f[m + 1]
    BY <2>1
  <2> QED BY <2>1, <2>2, <2>3
<1>6. S = Nat
  <2>1. S \in SUBSET Nat
    OBVIOUS
  <2> HIDE DEF S
  <2> QED BY <1>4, <1>5, <2>1, Induction
<1> QED BY <1>2, <1>6

\* The sum of the first n numbers.
Before(f, n) == Total(SubSeq(f, 1, n))

LEMMA Sums ==
  ASSUME NEW f, f \in Seq(Nat)
  PROVE  /\ Before(f, 0) = 0 /\ Before(f, Len(f)) = Total(f)
         /\ \A n \in 0..Len(f) : Before(f, n) \in Nat
         /\ \A n \in 0..Len(f) - 1 : Before(f, n + 1) = Before(f, n) + f[n + 1]
<1>1. Len(f) \in Nat /\ IsSeq(f)
  BY LenProperties, SeqOfRange DEF IsSeq
<1>2. PICK N \in Nat : N = Len(f)
  BY <1>1
<1>3. PICK s : SumsOf(s, f)
  BY <1>1, SumsExist
<1>4. s = [n \in 0..N |-> IF n = 0 THEN 0 ELSE s[n - 1] + f[n]]
  BY <1>2, <1>3 DEF SumsOf
<1>5. s[0] = 0
  <2>1. 0 \in 0..N
    OBVIOUS
  <2> QED BY <1>4, <2>1
<1>6. ASSUME NEW n \in 0..N - 1 PROVE s[n + 1] = s[n] + f[n + 1] /\ f[n + 1] \in Nat
  <2>1. n + 1 \in 0..N /\ n + 1 # 0 /\ (n + 1) - 1 = n /\ n + 1 \in 1..Len(f)
    BY <1>2
  <2> QED BY <1>4, <2>1, ElementOfSeq
<1>7. \A n \in 0..N : s[n] \in Nat
  <2> DEFINE S == {n \in Nat : n <= N => s[n] \in Nat}
  <2>1. S = Nat
    <3>1. 0 \in S
      BY <1>5
    <3>2. ASSUME NEW n \in S PROVE n + 1 \in S
      <4>1. ASSUME n + 1 <= N PROVE s[n + 1] \in Nat
        <5>1. n \in 0..N - 1 /\ n <= N
          BY <4>1
        <5>2. s[n] \in Nat
          BY <5>1
        <5> QED BY <1>6, <5>1, <5>2, SMTT(30)
      <4> QED BY <4>1
    <3>3. S \in SUBSET Nat
      OBVIOUS
    <3> HIDE DEF S
    <3> QED BY <3>1, <3>2, <3>3, Induction
  <2> QED BY <2>1
<1>8. ASSUME NEW n \in 0..N PROVE Before(f, n) = s[n]
  <2>1. PICK p : p = SubSeq(f, 1, n)
    OBVIOUS
  <2>2. PartOf(p, f, 1, n)
    BY <1>1, <1>2, <2>1, Part
  <2>3. Len(p) = n /\ \A k \in 1..n : p[k] = f[k]
    <3>1. Len(p) = (IF 1 <= n THEN n - 1 + 1 ELSE 0)
          /\ \A k \in 1..n - 1 + 1 : p[k] = f[1 + k - 1]
      BY <2>2 DEF PartOf
    <3> QED BY <3>1
  <2>4. ASSUME NEW k \in 0..n - 1 PROVE s[k + 1] = s[k] + p[k + 1]
    <3>1. k \in 0..N - 1 /\ k + 1 \in 1..n
      BY <1>2
    <3> QED BY <1>6, <2>3, <3>1
  <2>5. Total(p) = s[n]
    <3>1. Len(p) \in Nat /\ \A k \in 0..Len(p) - 1 : s[k + 1] = s[k] + p[k + 1]
      BY <2>3, <2>4
    <3>2. Total(p) = s[Len(p)]
      BY <1>5, <3>1, TotalIs
    <3> QED BY <2>3, <3>2
  <2> QED BY <2>1, <2>5 DEF Before
<1>9. Total(f) = s[N]
  BY <1>2, <1>5, <1>6, TotalIs
<1>10. 0 \in 0..N /\ N \in 0..N /\ \A n \in 0..N - 1 : n \in 0..N /\ n + 1 \in 0..N
  OBVIOUS
<1> QED BY <1>2, <1>5, <1>6, <1>7, <1>8, <1>9, <1>10

\* Adding c to each of n numbers adds c * n to the sum.
More(f, w, n, c) ==
  w \in Seq(Nat) /\ Len(f) = n /\ Len(w) = n /\ \A k \in 1..n : f[k] = w[k] + c

LEMMA TotalPlus ==
  ASSUME NEW f, NEW w, NEW n \in Nat, NEW c \in Nat, More(f, w, n, c)
  PROVE  Total(f) = Total(w) + c * n /\ Total(w) \in Nat
<1> USE DEF More
<1> DEFINE g == [k \in 0..n |-> Before(w, k) + c * k]
<1>1. /\ Before(w, 0) = 0 /\ Before(w, n) = Total(w)
      /\ \A k \in 0..n : Before(w, k) \in Nat
      /\ \A k \in 0..n - 1 : Before(w, k + 1) = Before(w, k) + w[k + 1]
  BY Sums
<1>2. 0 \in 0..n /\ n \in 0..n
  OBVIOUS
<1>3. g[0] = 0 /\ g[n] = Total(w) + c * n
  BY <1>1, <1>2
<1>4. ASSUME NEW k \in 0..n - 1 PROVE g[k + 1] = g[k] + f[k + 1]
  <2>1. k \in 0..n /\ k + 1 \in 0..n /\ k + 1 \in 1..n
    OBVIOUS
  <2>2. PICK x \in Nat, y \in Nat : x = Before(w, k) /\ y = w[k + 1]
    BY <1>1, <2>1, ElementOfSeq
  <2>3. g[k + 1] = x + y + c * (k + 1) /\ g[k] = x + c * k /\ f[k + 1] = y + c
    BY <1>1, <2>1, <2>2
  <2>4. c * (k + 1) = c * k + c
    <3>1. \A a, b \in Nat : a * (b + 1) = a * b + a
      OBVIOUS
    <3> QED BY <3>1
  <2>5. c * k \in Nat
    <3>1. \A a, b \in Nat : a * b \in Nat
      OBVIOUS
    <3> QED BY <3>1
  <2> HIDE DEF g
  <2>6. PICK u \in Nat : u = c * k
    BY <2>5
  <2> QED BY <2>3, <2>4, <2>6
<1> HIDE DEF g
<1>5. Total(f) = g[n]
  BY <1>3, <1>4, TotalIs
<1> QED BY <1>1, <1>2, <1>3, <1>5

\* Sequences one behind another, and how long they are together.
JoinsOf(g, F, m) == g = [k \in 1..m |-> IF k = 1 THEN F[k] ELSE g[k - 1] \o F[k]]

LEMMA JoinsExist ==
  ASSUME NEW F, NEW N \in Nat
  PROVE  \E g : JoinsOf(g, F, N)
<1> DEFINE Has(m) == \E g : JoinsOf(g, F, m)
           S == {m \in Nat : Has(m)}
<1>1. Has(0)
  <2> DEFINE g == [k \in 1..0 |-> 0]
  <2>1. g = [k \in 1..0 |-> IF k = 1 THEN F[k] ELSE g[k - 1] \o F[k]]
    <3>1. 1..0 = {}
      OBVIOUS
    <3> QED BY <3>1
  <2> QED BY <2>1 DEF JoinsOf
<1>2. ASSUME NEW m \in Nat, Has(m) PROVE Has(m + 1)
  <2>1. PICK h : h = [k \in 1..m |-> IF k = 1 THEN F[k] ELSE h[k - 1] \o F[k]]
    BY <1>2 DEF JoinsOf
  <2> DEFINE last == IF m = 0 THEN F[1] ELSE h[m] \o F[m + 1]
             g == [k \in 1..m + 1 |-> IF k = m + 1 THEN last ELSE h[k]]
  <2>2. ASSUME NEW k \in 1..m + 1
        PROVE  g[k] = IF k = 1 THEN F[k] ELSE g[k - 1] \o F[k]
    <3>1. CASE k = m + 1 /\ m = 0
      BY <3>1
    <3>2. CASE k = m + 1 /\ m # 0
      <4>1. k # 1 /\ k - 1 = m /\ m \in 1..m + 1 /\ m # m + 1
        BY <3>2
      <4>2. g[m] = h[m] /\ g[k] = h[m] \o F[m + 1]
        BY <3>2, <4>1
      <4> HIDE DEF g
      <4> QED BY <3>2, <4>1, <4>2
    <3>3. CASE k # m + 1 /\ k # 1
      <4>1. k \in 1..m /\ k - 1 \in 1..m + 1 /\ k - 1 # m + 1
        BY <3>3
      <4>2. g[k] = h[k] /\ g[k - 1] = h[k - 1]
        BY <3>3, <4>1
      <4>3. h[k] = h[k - 1] \o F[k]
        BY <2>1, <3>3, <4>1
      <4> HIDE DEF g
      <4> QED BY <3>3, <4>2, <4>3
    <3>4. CASE k # m + 1 /\ k = 1
      <4>1. 1 \in 1..m
        BY <3>4
      <4>2. h[1] = F[1]
        BY <2>1, <4>1
      <4> QED BY <3>4, <4>2
    <3> QED BY <3>1, <3>2, <3>3, <3>4
  <2> HIDE DEF last
  <2>3. g = [k \in 1..m + 1 |-> IF k = 1 THEN F[k] ELSE g[k - 1] \o F[k]]
    BY <2>2
  <2> HIDE DEF g
  <2> QED BY <2>3 DEF JoinsOf
<1> HIDE DEF Has
<1>3. S = Nat
  <2>1. 0 \in S /\ \A m \in S : m + 1 \in S
    BY <1>1, <1>2
  <2>2. S \in SUBSET Nat
    OBVIOUS
  <2> HIDE DEF S
  <2> QED BY <2>1, <2>2, Induction
<1>4. Has(N)
  BY <1>3
<1> QED BY <1>4 DEF Has

Parts(F, w, n, c) ==
  /\ IsSeq(F) /\ Len(F) = n /\ w \in Seq(Nat) /\ Len(w) = n
  /\ \A k \in 1..n : IsSeq(F[k]) /\ Len(F[k]) = w[k] + c

LEMMA Flattened ==
  ASSUME NEW F, NEW w, NEW n \in Nat, NEW c \in Nat, Parts(F, w, n, c)
  PROVE  /\ IsSeq(FlattenSeq(F)) /\ Len(FlattenSeq(F)) = Total(w) + c * n
         /\ Total(w) \in Nat
<1> USE DEF Parts
<1> DEFINE W == [k \in 1..n |-> w[k] + c]
<1>1. \A k \in 1..n : w[k] \in Nat /\ W[k] = w[k] + c
  BY ElementOfSeq
<1>2. Len(W) = n
  BY Numbered
<1> HIDE DEF W
<1>3. Total(W) = Total(w) + c * n /\ Total(w) \in Nat
  <2>1. \A k \in 1..n : W[k] = w[k] + c
    BY <1>1
  <2>2. More(W, w, n, c)
    BY <1>2, <2>1 DEF More
  <2> QED BY <2>2, TotalPlus
<1>4. CASE n = 0
  <2>1. FlattenSeq(F) = F
    BY <1>4 DEF FlattenSeq
  <2>2. c * n = 0 /\ Total(w) = 0
    <3>1. w = <<>>
      BY <1>4, EmptySeq
    <3>2. Before(w, 0) = 0 /\ Before(w, 0) = Total(w)
      BY <1>4, Sums
    <3> QED BY <1>4, <3>2
  <2> QED BY <1>4, <1>3, <2>1, <2>2
<1>5. CASE n # 0
  <2> DEFINE g == CHOOSE h : JoinsOf(h, F, n)
             S == {m \in Nat : m + 1 <= n =>
                     IsSeq(g[m + 1]) /\ Len(g[m + 1]) = Before(W, m + 1)}
  <2>1. JoinsOf(g, F, n)
    BY JoinsExist
  <2>2. FlattenSeq(F) = g[n]
    BY <1>5 DEF FlattenSeq, JoinsOf
  <2> HIDE DEF g
  <2>3. g = [k \in 1..n |-> IF k = 1 THEN F[k] ELSE g[k - 1] \o F[k]]
    BY <2>1 DEF JoinsOf
  <2>4. W \in Seq(Nat)
    <3>1. W = [k \in 1..n |-> W[k]] /\ \A k \in 1..n : W[k] \in Nat
      BY <1>1 DEF W
    <3>2. W \in [1..n -> Nat]
      BY <3>1
    <3> QED BY <3>2, SeqDef
  <2>5. /\ Before(W, 0) = 0 /\ Before(W, n) = Total(W)
        /\ \A k \in 0..n - 1 : Before(W, k + 1) = Before(W, k) + W[k + 1]
        /\ \A k \in 0..n : Before(W, k) \in Nat
    BY <1>2, <2>4, Sums
  <2>6. 0 \in S
    <3>1. 1 \in 1..n /\ 0 \in 0..n - 1
      BY <1>5
    <3>2. g[1] = F[1] /\ Len(F[1]) = W[1] /\ IsSeq(F[1])
      BY <1>1, <2>3, <3>1
    <3>3. Before(W, 0 + 1) = Before(W, 0) + W[0 + 1]
      BY <2>5, <3>1
    <3>4. W[1] \in Nat
      BY <1>1, <3>1
    <3>5. Before(W, 1) = W[1]
      BY <2>5, <3>3, <3>4
    <3> QED BY <3>2, <3>5
  <2>7. ASSUME NEW m \in S PROVE m + 1 \in S
    <3> SUFFICES ASSUME (m + 1) + 1 <= n
                 PROVE  IsSeq(g[(m + 1) + 1]) /\ Len(g[(m + 1) + 1]) = Before(W, (m + 1) + 1)
      OBVIOUS
    <3>1. PICK k \in Nat : k = m + 1
      OBVIOUS
    <3>2. k + 1 \in 1..n /\ k + 1 # 1 /\ (k + 1) - 1 = k /\ k \in 0..n - 1 /\ k <= n /\ k \in 0..n
      BY <3>1
    <3>3. IsSeq(g[k]) /\ Len(g[k]) = Before(W, k)
      BY <3>1, <3>2
    <3>4. g[k + 1] = g[k] \o F[k + 1] /\ IsSeq(F[k + 1]) /\ Len(F[k + 1]) = W[k + 1]
      BY <1>1, <2>3, <3>2
    <3>5. Joins(g[k + 1], g[k], F[k + 1])
      BY <3>3, <3>4, Joined
    <3>6. IsSeq(g[k + 1]) /\ Len(g[k + 1]) = Before(W, k) + W[k + 1]
      BY <3>3, <3>4, <3>5 DEF Joins
    <3> QED BY <2>5, <3>1, <3>2, <3>6
  <2>8. S = Nat
    <3>1. S \in SUBSET Nat
      OBVIOUS
    <3> HIDE DEF S
    <3> QED BY <2>6, <2>7, <3>1, Induction
  <2>9. n - 1 \in Nat /\ (n - 1) + 1 = n
    BY <1>5
  <2>10. IsSeq(g[n]) /\ Len(g[n]) = Before(W, n)
    <3>1. n - 1 \in S
      BY <2>8, <2>9
    <3> QED BY <2>9, <3>1
  <2> QED BY <1>3, <2>2, <2>5, <2>10
<1> QED BY <1>4, <1>5

-----------------------------------------------------------------------------
(* Reading the store                                                       *)

\* Where string k begins; behind the last one is the end.
Start(O, e, k) == IF k <= Len(O) THEN O[k] ELSE e

\* The store holds the strings T, one behind another from O on.
Strings(st, T, O) ==
  /\ T \in Seq(Names) /\ O \in Seq(Nat) /\ Len(O) = Len(T)
  /\ st.lcount = Len(T) /\ IsSeq(st.sdata) /\ Len(st.sdata) = st.ssize
  /\ Start(O, st.ssize, 1) = 0
  /\ \A k \in 1..Len(T) :
       /\ Start(O, st.ssize, k + 1) = O[k] + strlen[T[k]] + 1
       /\ O[k] + strlen[T[k]] + 1 <= st.ssize
       /\ \A j \in 1..strlen[T[k]] + 1 : st.sdata[O[k] + j] = Stored(T[k])[j]

\* A string is found at its offset, its length by the 0 behind it.
LEMMA StringRead ==
  ASSUME NEW st, NEW T, NEW O, Strings(st, T, O), NEW k \in 1..Len(T)
  PROVE  /\ T[k] \in Names /\ O[k] \in Nat /\ strlen[T[k]] \in Nat \ {0}
         /\ string_at(st, O[k]) = T[k] /\ length_at(st, O[k]) = strlen[T[k]]
<1>1. T[k] \in Names /\ O[k] \in Nat /\ Len(T) \in Nat
  <2>1. T \in Seq(Names) /\ O \in Seq(Nat) /\ Len(O) = Len(T)
    BY DEF Strings
  <2> QED BY <2>1, ElementOfSeq, LenProperties
<1>2. strlen[T[k]] \in Nat \ {0}
  BY <1>1, StringsAssumption
<1>3. PICK o \in Nat, l \in Nat \ {0}, e \in Nat, t \in Names :
        o = O[k] /\ l = strlen[T[k]] /\ e = st.ssize /\ t = T[k]
  <2>1. st.ssize \in Nat
    BY Lengths DEF Strings
  <2> QED BY <1>1, <1>2, <2>1
<1>4. o + l + 1 <= e /\ \A j \in 1..l + 1 : st.sdata[o + j] = Stored(t)[j]
  BY <1>3 DEF Strings
<1>5. \A j \in 1..l + 1 :
        Stored(t)[j] = IF j = 1 THEN t ELSE IF j <= l THEN Fill ELSE 0
  BY <1>3 DEF Stored
<1>6. string_at(st, O[k]) = T[k]
  <2>1. 1 \in 1..l + 1
    OBVIOUS
  <2>2. st.sdata[o + 1] = t
    BY <1>4, <1>5, <2>1
  <2> QED BY <1>3, <2>2 DEF string_at
<1>7. length_at(st, O[k]) = strlen[T[k]]
  <2> DEFINE zeros == {j \in 0..e - o - 1 : st.sdata[o + j + 1] = 0}
  <2>1. l \in zeros
    <3>1. l + 1 \in 1..l + 1 /\ ~(l + 1 <= l) /\ l + 1 # 1 /\ l \in 0..e - o - 1
      BY <1>4
    <3>2. Stored(t)[l + 1] = 0
      BY <1>5, <3>1
    <3>3. st.sdata[o + (l + 1)] = 0
      BY <1>4, <3>1, <3>2
    <3>4. o + (l + 1) = o + l + 1
      OBVIOUS
    <3> QED BY <3>1, <3>3, <3>4
  <2>2. ASSUME NEW j \in zeros PROVE l <= j
    <3> SUFFICES ASSUME j < l PROVE FALSE
      <4>1. j \in Int
        OBVIOUS
      <4> QED BY <4>1
    <3>1. j \in Nat /\ j + 1 \in 1..l + 1 /\ j + 1 <= l /\ o + (j + 1) = o + j + 1
      OBVIOUS
    <3>2. Stored(t)[j + 1] = IF j + 1 = 1 THEN t ELSE Fill
      BY <1>5, <3>1
    <3>3. Stored(t)[j + 1] # 0
      BY <3>2, CharactersAssumption
    <3>4. st.sdata[o + (j + 1)] = Stored(t)[j + 1]
      BY <1>4, <3>1
    <3> QED BY <3>1, <3>3, <3>4
  <2> DEFINE least == CHOOSE j \in zeros : \A z \in zeros : j <= z
  <2>3. length_at(st, O[k]) = least
    BY <1>3 DEF length_at
  <2>4. zeros \subseteq Int
    OBVIOUS
  <2> HIDE DEF zeros
  <2>5. least \in zeros /\ \A z \in zeros : least <= z
    BY <2>1, <2>2
  <2>6. least <= l /\ l <= least /\ least \in Int
    BY <2>1, <2>2, <2>4, <2>5
  <2> HIDE DEF least
  <2> QED BY <1>3, <2>3, <2>6
<1> QED BY <1>1, <1>2, <1>6, <1>7

\* The next name begins where the running offset of AgsFile_write gets to.
LEMMA NextRead ==
  ASSUME NEW T, NEW O, Strings(ss, T, O), NEW k \in 1..Len(T)
  PROVE  next_name(O[k]) = Start(O, ss.ssize, k + 1)
<1>1. Start(O, ss.ssize, k + 1) = O[k] + strlen[T[k]] + 1
  BY DEF Strings
<1> QED BY <1>1, StringRead DEF next_name

\* The names write_header goes through are those that were stored.
LEMMA NamesAre ==
  ASSUME NEW T, NEW O, Strings(ss, T, O)
  PROVE  /\ filecount = Len(T)
         /\ \A k \in 1..Len(T) : name_offset[k] = O[k] /\ names[k] = T[k]
<1>1. /\ filecount = Len(T) /\ Len(T) \in Nat /\ Len(O) = Len(T)
      /\ O = [k \in 1..Len(T) |-> O[k]]
  <2>1. T \in Seq(Names) /\ O \in Seq(Nat) /\ Len(O) = Len(T) /\ ss.lcount = Len(T)
    BY DEF Strings
  <2>2. Len(T) \in Nat /\ O \in [1..Len(O) -> Nat]
    BY <2>1, LenProperties
  <2> QED BY <2>1, <2>2 DEF filecount
<1>2. PICK n \in Nat : n = Len(T)
  BY <1>1
<1> DEFINE Offsets(f) == f = [k \in 1..n |-> IF k = 1 THEN 0 ELSE next_name(f[k - 1])]
<1>3. ASSUME NEW k \in 1..n PROVE O[k] = IF k = 1 THEN 0 ELSE next_name(O[k - 1])
  <2>1. CASE k = 1
    <3>1. Start(O, ss.ssize, 1) = 0 /\ 1 <= Len(O)
      BY <1>1, <1>2, <2>1 DEF Strings
    <3> QED BY <2>1, <3>1 DEF Start
  <2>2. CASE k # 1
    <3>1. k - 1 \in 1..Len(T) /\ (k - 1) + 1 = k /\ k <= Len(O)
      BY <1>1, <1>2, <2>2
    <3>2. next_name(O[k - 1]) = Start(O, ss.ssize, (k - 1) + 1)
      BY <3>1, NextRead
    <3> QED BY <2>2, <3>1, <3>2 DEF Start
  <2> QED BY <2>1, <2>2
<1>4. Offsets(O)
  BY <1>1, <1>2, <1>3
<1>5. Offsets(name_offset)
  <2>1. name_offset = CHOOSE f : Offsets(f)
    BY <1>1, <1>2 DEF name_offset
  <2> HIDE DEF Offsets
  <2> QED BY <1>4, <2>1
<1>6. name_offset = [k \in 1..n |-> IF k = 1 THEN 0 ELSE next_name(name_offset[k - 1])]
  BY <1>5
<1> HIDE DEF Offsets
<1>7. \A k \in 1..n : name_offset[k] = O[k]
  <2> DEFINE S == {m \in Nat : m + 1 <= n => name_offset[m + 1] = O[m + 1]}
  <2>1. 0 \in S
    <3>1. ASSUME 1 <= n PROVE name_offset[1] = O[1]
      <4>1. 1 \in 1..n
        BY <3>1
      <4> QED BY <1>3, <1>6, <4>1
    <3> QED BY <3>1
  <2>2. ASSUME NEW m \in S PROVE m + 1 \in S
    <3> SUFFICES ASSUME (m + 1) + 1 <= n
                 PROVE  name_offset[(m + 1) + 1] = O[(m + 1) + 1]
      OBVIOUS
    <3>1. PICK k \in Nat : k = (m + 1) + 1
      OBVIOUS
    <3>2. k \in 1..n /\ k # 1 /\ k - 1 = m + 1 /\ m + 1 <= n
      BY <3>1
    <3>3. name_offset[k - 1] = O[k - 1]
      BY <3>2
    <3>4. name_offset[k] = next_name(name_offset[k - 1]) /\ O[k] = next_name(O[k - 1])
      BY <1>3, <1>6, <3>2
    <3> QED BY <3>1, <3>3, <3>4
  <2>3. S = Nat
    <3>1. S \in SUBSET Nat
      OBVIOUS
    <3> HIDE DEF S
    <3> QED BY <2>1, <2>2, <3>1, Induction
  <2>4. ASSUME NEW k \in 1..n PROVE name_offset[k] = O[k]
    <3>1. k - 1 \in Nat /\ (k - 1) + 1 = k /\ k <= n
      OBVIOUS
    <3>2. k - 1 \in S
      BY <2>3, <3>1
    <3> QED BY <3>1, <3>2
  <2> QED BY <2>4
<1>8. ASSUME NEW k \in 1..n PROVE names[k] = T[k]
  <2>1. names[k] = string_at(ss, name_offset[k])
    BY <1>1, <1>2 DEF names
  <2> QED BY <1>2, <1>7, <2>1, StringRead
<1> QED BY <1>1, <1>2, <1>7, <1>8

LEMMA StringAppended ==
  ASSUME NEW st, NEW T, NEW O, Strings(st, T, O), NEW name \in Names
  PROVE  Strings(strstore_append(st, name), Append(T, name), Append(O, st.ssize))
<1>1. PICK n \in Nat, e \in Nat, l \in Nat \ {0} :
        /\ n = Len(T) /\ n = Len(O) /\ e = st.ssize /\ e = Len(st.sdata) /\ l = strlen[name]
  <2>1. T \in Seq(Names) /\ Len(O) = Len(T) /\ IsSeq(st.sdata) /\ Len(st.sdata) = st.ssize
    BY DEF Strings
  <2> QED BY <2>1, LenProperties, Lengths, StringsAssumption
<1>2. PICK st2, T2, O2, d : /\ st2 = strstore_append(st, name) /\ T2 = Append(T, name)
                            /\ O2 = Append(O, e) /\ d = st.sdata \o Stored(name)
  OBVIOUS
<1>3. /\ T2 \in Seq(Names) /\ Len(T2) = n + 1 /\ T2[n + 1] = name
      /\ \A k \in 1..n : T2[k] = T[k]
  <2>1. T \in Seq(Names)
    BY DEF Strings
  <2>2. /\ Append(T, name) \in Seq(Names) /\ Len(Append(T, name)) = Len(T) + 1
        /\ Append(T, name)[Len(T) + 1] = name
        /\ \A k \in 1..Len(T) : Append(T, name)[k] = T[k]
    BY <2>1, AppendProperties
  <2> QED BY <1>1, <1>2, <2>2
<1>4. /\ O2 \in Seq(Nat) /\ Len(O2) = n + 1 /\ O2[n + 1] = e
      /\ \A k \in 1..n : O2[k] = O[k]
  <2>1. O \in Seq(Nat)
    BY DEF Strings
  <2> QED BY <1>1, <1>2, <2>1, AppendProperties
<1>5. st2.lcount = n + 1 /\ st2.ssize = e + l + 1 /\ st2.sdata = d
  BY <1>1, <1>2 DEF strstore_append, Strings
<1>6. IsSeq(Stored(name)) /\ Len(Stored(name)) = l + 1
  <2>1. l + 1 \in Nat
    OBVIOUS
  <2>2. PICK f : f = Stored(name)
    OBVIOUS
  <2>3. f = [k \in 1..l + 1 |-> f[k]]
    BY <1>1, <2>2 DEF Stored
  <2> QED BY <2>1, <2>2, <2>3, Numbered
<1>7. Joins(d, st.sdata, Stored(name))
  BY <1>2, <1>6, Joined DEF Strings
<1>8. /\ IsSeq(d) /\ Len(d) = e + (l + 1)
      /\ \A j \in 1..e : d[j] = st.sdata[j]
      /\ \A j \in 1..l + 1 : d[e + j] = Stored(name)[j]
  BY <1>1, <1>6, <1>7 DEF Joins
<1>9. /\ n > 0 => O[1] = 0
      /\ n = 0 => e = 0
  BY <1>1 DEF Strings, Start
<1>10. Start(O2, st2.ssize, 1) = 0
  <2>1. CASE n = 0
    BY <1>4, <1>9, <2>1 DEF Start
  <2>2. CASE n # 0
    <3>1. 1 \in 1..n /\ 1 <= n + 1
      BY <2>2
    <3> QED BY <1>4, <1>9, <2>2, <3>1 DEF Start
  <2> QED BY <2>1, <2>2
<1>11. ASSUME NEW k \in 1..n + 1
       PROVE  /\ Start(O2, st2.ssize, k + 1) = O2[k] + strlen[T2[k]] + 1
              /\ O2[k] + strlen[T2[k]] + 1 <= st2.ssize
              /\ \A j \in 1..strlen[T2[k]] + 1 : st2.sdata[O2[k] + j] = Stored(T2[k])[j]
  <2>1. CASE k = n + 1
    <3>1. O2[k] = e /\ T2[k] = name /\ ~(k + 1 <= Len(O2))
      BY <1>3, <1>4, <2>1
    <3> QED BY <1>1, <1>5, <1>8, <3>1, SMTT(30) DEF Start
  <2>2. CASE k # n + 1
    <3>1. k \in 1..n /\ k \in 1..Len(T) /\ O2[k] = O[k] /\ T2[k] = T[k]
          /\ k + 1 \in 1..n + 1 /\ k + 1 <= Len(O2)
      BY <1>1, <1>3, <1>4, <2>2, SMTT(30)
    <3>2. PICK o \in Nat, m \in Nat : o = O[k] /\ m = strlen[T[k]]
      BY <3>1, StringRead
    <3>3. /\ Start(O, e, k + 1) = o + m + 1 /\ o + m + 1 <= e
          /\ \A j \in 1..m + 1 : st.sdata[o + j] = Stored(T[k])[j]
      BY <1>1, <3>1, <3>2 DEF Strings
    <3>4. Start(O2, st2.ssize, k + 1) = Start(O, e, k + 1)
      <4>1. CASE k = n
        <5>1. ~(k + 1 <= Len(O))
          BY <1>1, <4>1
        <5> QED BY <1>4, <3>1, <4>1, <5>1 DEF Start
      <4>2. CASE k # n
        <5>1. k + 1 \in 1..n /\ k + 1 <= Len(O)
          BY <1>1, <3>1, <4>2
        <5> QED BY <1>4, <3>1, <5>1 DEF Start
      <4> QED BY <4>1, <4>2
    <3>5. ASSUME NEW j \in 1..m + 1 PROVE st2.sdata[o + j] = Stored(T[k])[j]
      <4>1. o + j \in 1..e
        BY <3>3
      <4> QED BY <1>5, <1>8, <3>3, <4>1
    <3>6. o + m + 1 <= st2.ssize
      BY <1>5, <3>3
    <3> QED BY <3>1, <3>2, <3>3, <3>4, <3>5, <3>6
  <2> QED BY <2>1, <2>2
<1>12. Strings(st2, T2, O2)
  <2>1. Len(d) = st2.ssize
    BY <1>5, <1>8
  <2> QED BY <1>3, <1>4, <1>5, <1>8, <1>10, <1>11, <2>1 DEF Strings
<1> QED BY <1>1, <1>2, <1>12

-----------------------------------------------------------------------------
(* The header                                                              *)

Lens(T) == [k \in 1..Len(T) |-> strlen[T[k]]]

HeaderSize(T, v) ==
  IF v >= 30 THEN 7 + 4 + (4 + DataFileName) + 4 + (Total(Lens(T)) + 18 * Len(T))
  ELSE 7 + (4 + DataFileName) + 4 + (Total(Lens(T)) + 3 * Len(T))
         + 4 * Len(T) + 4 * Len(T) + Len(T)

LEMMA BytesAre ==
  ASSUME NEW v
  PROVE  /\ IsSeq(write_int(v)) /\ Len(write_int(v)) = 4
         /\ IsSeq(write_ull(v)) /\ Len(write_ull(v)) = 8
<1>1. ASSUME NEW n \in Nat PROVE IsSeq(Bytes(v, n)) /\ Len(Bytes(v, n)) = n
  <2>1. PICK f : f = Bytes(v, n)
    OBVIOUS
  <2>2. f = [k \in 1..n |-> f[k]]
    BY <2>1 DEF Bytes
  <2> QED BY <2>1, <2>2, Numbered
<1> QED BY <1>1 DEF write_int, write_ull

LEMMA LensAre ==
  ASSUME NEW T, T \in Seq(Names)
  PROVE  /\ Lens(T) \in Seq(Nat) /\ Len(Lens(T)) = Len(T) /\ Len(T) \in Nat
         /\ \A k \in 1..Len(T) : Lens(T)[k] = strlen[T[k]]
<1>1. Len(T) \in Nat
  BY LenProperties
<1>2. \A k \in 1..Len(T) : strlen[T[k]] \in Nat
  BY ElementOfSeq, StringsAssumption
<1>3. PICK n \in Nat, f \in {Lens(T)} : n = Len(T) /\ f = Lens(T)
  BY <1>1
<1>4. f = [k \in 1..n |-> strlen[T[k]]]
  BY <1>3 DEF Lens
<1>5. f \in [1..n -> Nat]
  BY <1>2, <1>3, <1>4
<1>6. f \in Seq(Nat)
  BY <1>5, SeqDef
<1>7. Len(f) = n
  BY <1>5, <1>6, LenProperties
<1> QED BY <1>3, <1>4, <1>6, <1>7

\* The header is as long as write_header counts, for both versions.
LEMMA HeaderIs ==
  ASSUME NEW T, NEW O, Strings(ss, T, O), NEW v, v = ags.libversion
  PROVE  /\ IsSeq(header) /\ Len(header) = HeaderSize(T, v) /\ written = HeaderSize(T, v)
         /\ HeaderSize(T, v) \in Nat
<1>1. T \in Seq(Names)
  BY DEF Strings
<1>2. PICK n \in Nat, d \in Nat \ {0}, sum \in Nat, w \in {Lens(T)} :
        /\ n = Len(T) /\ d = DataFileName /\ w = Lens(T) /\ sum = Total(w)
        /\ w \in Seq(Nat) /\ Len(w) = n
  <2>1. Lens(T) \in Seq(Nat) /\ Len(Lens(T)) = Len(T) /\ Len(T) \in Nat
    BY <1>1, LensAre
  <2>2. Total(Lens(T)) \in Nat
    <3>1. PICK W : W = Lens(T)
      OBVIOUS
    <3>2. Before(W, Len(W)) = Total(W) /\ \A k \in 0..Len(W) : Before(W, k) \in Nat
      BY <2>1, <3>1, Sums
    <3>3. Len(W) \in 0..Len(W)
      BY <2>1, <3>1
    <3> QED BY <3>1, <3>2, <3>3
  <2> QED BY <2>1, <2>2, FilesAssumption
<1>3. /\ filecount = n
      /\ \A k \in 1..n : /\ T[k] \in Names /\ names[k] = T[k] /\ w[k] = strlen[T[k]] /\ w[k] \in Nat
                         /\ length_at(ss, name_offset[k]) = w[k]
  <2>1. filecount = Len(T) /\ \A k \in 1..Len(T) : name_offset[k] = O[k] /\ names[k] = T[k]
    BY NamesAre
  <2>2. \A k \in 1..Len(T) : Lens(T)[k] = strlen[T[k]]
    BY <1>1, LensAre
  <2>3. \A k \in 1..Len(T) : T[k] \in Names /\ length_at(ss, O[k]) = strlen[T[k]]
                             /\ strlen[T[k]] \in Nat
    BY StringRead
  <2> QED BY <1>2, <2>1, <2>2, <2>3
<1>4. HeaderSize(T, v) = IF v >= 30 THEN 7 + 4 + (4 + d) + 4 + (sum + 18 * n)
                         ELSE 7 + (4 + d) + 4 + (sum + 3 * n) + 4 * n + 4 * n + n
  BY <1>2 DEF HeaderSize
<1>5. HeaderSize(T, v) \in Nat
  BY <1>4
<1>6. myversion = (IF v >= 30 THEN 30 ELSE 20) /\ ((myversion = 30) <=> (v >= 30))
  BY DEF myversion
<1>7. written = HeaderSize(T, v)
  <2> DEFINE f == [k \in 1..filecount |-> length_at(ss, name_offset[k]) + 1]
  <2>1. Len(f) = n
    BY <1>3, Numbered
  <2>2. \A k \in 1..n : f[k] = w[k] + 1
    BY <1>3
  <2>3. written = 7 + 4 + d + 4 + Total(f)
                    + IF myversion = 30 THEN 4 + (1 + 16) * filecount
                                        ELSE (2 + 4 + 4 + 1) * filecount
    BY <1>2 DEF written, count_of
  <2> HIDE DEF f
  <2>4. Total(f) = Total(w) + 1 * n
    <3>1. PICK c \in Nat : c = 1
      OBVIOUS
    <3>2. \A k \in 1..n : f[k] = w[k] + c
      BY <2>2, <3>1
    <3>3. Total(f) = Total(w) + c * n
      <4>1. More(f, w, n, c)
        BY <1>2, <2>1, <3>2 DEF More
      <4> QED BY <4>1, TotalPlus
    <3> QED BY <3>1, <3>3
  <2>5. Total(f) = sum + n
    BY <1>2, <2>4
  <2> QED BY <1>3, <1>4, <1>6, <2>3, <2>5
<1>8. \A x : IsSeq(Magic(x)) /\ Len(Magic(x)) = 7
  <2> TAKE x
  <2>1. <<CLIB, CLIB, CLIB, CLIB, CLIB, x, 0>> \in Seq({CLIB, x, 0})
    OBVIOUS
  <2> QED BY <2>1, SeqOfRange DEF Magic, IsSeq
<1>9. IsSeq(DataFiles) /\ Len(DataFiles) = 4 + d
  <2>1. PICK a, b, c, e : /\ a = write_int(1) /\ b = FillTo(DataFileName - 1)
                          /\ c = a \o b /\ e = c \o <<0>>
    OBVIOUS
  <2>2. IsSeq(a) /\ Len(a) = 4
    BY <2>1, BytesAre
  <2>3. IsSeq(b) /\ Len(b) = d - 1
    <3>1. b = [k \in 1..d - 1 |-> b[k]]
      BY <1>2, <2>1 DEF FillTo
    <3>2. d - 1 \in Nat
      OBVIOUS
    <3> QED BY <3>1, <3>2, Numbered
  <2>4. IsSeq(c) /\ Len(c) = 4 + (d - 1)
    <3>1. Joins(c, a, b)
      BY <2>1, <2>2, <2>3, Joined
    <3> QED BY <2>2, <2>3, <3>1 DEF Joins
  <2>5. IsSeq(e) /\ Len(e) = 4 + (d - 1) + 1
    <3>1. IsSeq(<<0>>) /\ Len(<<0>>) = 1
      BY OneOrTwo
    <3>2. Joins(e, c, <<0>>)
      BY <2>1, <2>4, <3>1, Joined
    <3> QED BY <2>4, <3>1, <3>2 DEF Joins
  <2> QED BY <2>1, <2>5 DEF DataFiles
<1>10. ASSUME NEW k \in 1..n PROVE IsSeq(Stored(names[k])) /\ Len(Stored(names[k])) = w[k] + 1
  <2>1. PICK l \in Nat : l = w[k] /\ l = strlen[names[k]]
    BY <1>3
  <2>2. PICK f : f = Stored(names[k])
    OBVIOUS
  <2>3. f = [j \in 1..l + 1 |-> f[j]]
    BY <2>1, <2>2 DEF Stored
  <2>4. l + 1 \in Nat
    OBVIOUS
  <2> QED BY <2>1, <2>2, <2>3, <2>4, Numbered
<1>11. CASE v >= 30
  <2> DEFINE F == [k \in 1..filecount |-> Entry30(k)]
  <2>1. ASSUME NEW k \in 1..n PROVE IsSeq(Entry30(k)) /\ Len(Entry30(k)) = w[k] + 18
    <3>1. PICK a, b, c, e, x, y :
            /\ a = Stored(names[k]) /\ b = a \o <<0>> /\ x = write_ull(ags.offset[k])
            /\ y = write_ull(ags.length[k]) /\ c = b \o x /\ e = c \o y
      OBVIOUS
    <3>2. /\ IsSeq(a) /\ Len(a) = w[k] + 1 /\ IsSeq(x) /\ Len(x) = 8 /\ IsSeq(y) /\ Len(y) = 8
          /\ IsSeq(<<0>>) /\ Len(<<0>>) = 1
      BY <1>10, <3>1, BytesAre, OneOrTwo
    <3>3. IsSeq(b) /\ Len(b) = w[k] + 1 + 1
      <4>1. Joins(b, a, <<0>>)
        BY <3>1, <3>2, Joined
      <4> QED BY <3>2, <4>1 DEF Joins
    <3>4. IsSeq(c) /\ Len(c) = w[k] + 1 + 1 + 8
      <4>1. Joins(c, b, x)
        BY <3>1, <3>2, <3>3, Joined
      <4> QED BY <3>2, <3>3, <4>1 DEF Joins
    <3>5. IsSeq(e) /\ Len(e) = w[k] + 1 + 1 + 8 + 8
      <4>1. Joins(e, c, y)
        BY <3>1, <3>2, <3>4, Joined
      <4> QED BY <3>2, <3>4, <4>1 DEF Joins
    <3>6. Len(e) = w[k] + 18
      BY <1>3, <3>5
    <3>7. Entry30(k) = e
      BY <3>1 DEF Entry30
    <3> QED BY <3>5, <3>6, <3>7
  <2>2. IsSeq(F) /\ Len(F) = n /\ \A k \in 1..n : F[k] = Entry30(k)
    BY <1>3, Numbered
  <2> HIDE DEF F
  <2>3. \A k \in 1..n : IsSeq(F[k]) /\ Len(F[k]) = w[k] + 18
    BY <2>1, <2>2
  <2>4. IsSeq(FlattenSeq(F)) /\ Len(FlattenSeq(F)) = Total(w) + 18 * n
    <3>1. PICK c \in Nat : c = 18
      OBVIOUS
    <3>2. \A k \in 1..n : IsSeq(F[k]) /\ Len(F[k]) = w[k] + c
      BY <2>3, <3>1
    <3>3. IsSeq(FlattenSeq(F)) /\ Len(FlattenSeq(F)) = Total(w) + c * n
      <4>1. Parts(F, w, n, c)
        BY <1>2, <2>2, <3>2 DEF Parts
      <4> QED BY <4>1, Flattened
    <3> QED BY <3>1, <3>3
  <2>5. PICK m, z, q, fl : /\ m = Magic(30) /\ z = write_int(0) /\ q = write_int(filecount)
                           /\ fl = FlattenSeq(F)
    OBVIOUS
  <2>6. /\ IsSeq(m) /\ Len(m) = 7 /\ IsSeq(z) /\ Len(z) = 4 /\ IsSeq(q) /\ Len(q) = 4
        /\ IsSeq(fl) /\ Len(fl) = sum + 18 * n
    BY <1>2, <1>8, <2>4, <2>5, BytesAre
  <2>7. PICK h1, h2, h3, h4 : /\ h1 = m \o z /\ h2 = h1 \o DataFiles /\ h3 = h2 \o q
                              /\ h4 = h3 \o fl
    OBVIOUS
  <2>8. IsSeq(h1) /\ Len(h1) = 7 + 4
    <3>1. Joins(h1, m, z)
      BY <2>6, <2>7, Joined
    <3> QED BY <2>6, <3>1 DEF Joins
  <2>9. IsSeq(h2) /\ Len(h2) = 7 + 4 + (4 + d)
    <3>1. Joins(h2, h1, DataFiles)
      BY <1>9, <2>7, <2>8, Joined
    <3> QED BY <1>9, <2>8, <3>1 DEF Joins
  <2>10. IsSeq(h3) /\ Len(h3) = 7 + 4 + (4 + d) + 4
    <3>1. Joins(h3, h2, q)
      BY <2>6, <2>7, <2>9, Joined
    <3> QED BY <2>6, <2>9, <3>1 DEF Joins
  <2>11. IsSeq(h4) /\ Len(h4) = 7 + 4 + (4 + d) + 4 + (sum + 18 * n)
    <3>1. Joins(h4, h3, fl)
      BY <2>6, <2>7, <2>10, Joined
    <3> QED BY <2>6, <2>10, <3>1 DEF Joins
  <2>12. header = h4
    BY <1>6, <1>11, <2>5, <2>7 DEF header, header30, F
  <2> QED BY <1>4, <1>5, <1>7, <1>11, <2>11, <2>12
<1>12. CASE ~(v >= 30)
  <2> DEFINE F == [k \in 1..filecount |-> Name20(k)]
             G == [k \in 1..filecount |-> write_int(ags.offset[k])]
             H == [k \in 1..filecount |-> write_int(ags.length[k])]
             zeros == [k \in 1..n |-> 0]
  <2>1. ASSUME NEW k \in 1..n PROVE IsSeq(Name20(k)) /\ Len(Name20(k)) = w[k] + 3
    <3>1. PICK a, x, e : a = Stored(names[k]) /\ x = <<5 * (strlen[names[k]] + 1), 0>> /\ e = x \o a
      OBVIOUS
    <3>2. IsSeq(a) /\ Len(a) = w[k] + 1 /\ IsSeq(x) /\ Len(x) = 2
      BY <1>10, <3>1, OneOrTwo
    <3>3. Joins(e, x, a)
      BY <3>1, <3>2, Joined
    <3>4. IsSeq(e) /\ Len(e) = 2 + (w[k] + 1)
      BY <3>2, <3>3 DEF Joins
    <3>5. Len(e) = w[k] + 3
      BY <1>3, <3>4
    <3>6. Name20(k) = e
      BY <3>1 DEF Name20
    <3> QED BY <3>4, <3>5, <3>6
  <2>2. /\ IsSeq(F) /\ Len(F) = n /\ \A k \in 1..n : F[k] = Name20(k)
        /\ IsSeq(G) /\ Len(G) = n /\ \A k \in 1..n : G[k] = write_int(ags.offset[k])
        /\ IsSeq(H) /\ Len(H) = n /\ \A k \in 1..n : H[k] = write_int(ags.length[k])
        /\ Len(zeros) = n /\ \A k \in 1..n : zeros[k] = 0
    BY <1>3, Numbered
  <2>3. zeros \in Seq(Nat)
    <3>1. zeros \in [1..n -> Nat]
      OBVIOUS
    <3> QED BY <3>1, SeqDef
  <2> HIDE DEF F, G, H, zeros
  <2>4. Total(zeros) = 0
    <3> DEFINE g == [k \in 0..n |-> 0]
    <3>1. g[0] = 0 /\ g[n] = 0 /\ \A k \in 0..n - 1 : g[k + 1] = g[k] + zeros[k + 1]
      <4>1. \A k \in 0..n - 1 : k \in 0..n /\ k + 1 \in 0..n /\ k + 1 \in 1..n
        OBVIOUS
      <4> QED BY <2>2, <4>1
    <3> HIDE DEF g
    <3>2. Total(zeros) = g[n]
      BY <2>2, <3>1, TotalIs
    <3> QED BY <3>1, <3>2
  <2>5. IsSeq(FlattenSeq(F)) /\ Len(FlattenSeq(F)) = Total(w) + 3 * n
    <3>1. PICK c \in Nat : c = 3
      OBVIOUS
    <3>2. \A k \in 1..n : IsSeq(F[k]) /\ Len(F[k]) = w[k] + c
      BY <2>1, <2>2, <3>1
    <3>3. IsSeq(FlattenSeq(F)) /\ Len(FlattenSeq(F)) = Total(w) + c * n
      <4>1. Parts(F, w, n, c)
        BY <1>2, <2>2, <3>2 DEF Parts
      <4> QED BY <4>1, Flattened
    <3> QED BY <3>1, <3>3
  <2>6. IsSeq(FlattenSeq(G)) /\ Len(FlattenSeq(G)) = Total(zeros) + 4 * n
    <3>1. PICK c \in Nat : c = 4
      OBVIOUS
    <3>2. ASSUME NEW k \in 1..n PROVE IsSeq(G[k]) /\ Len(G[k]) = zeros[k] + c
      <4>1. PICK b : b = ags.offset[k]
        OBVIOUS
      <4>2. IsSeq(write_int(b)) /\ Len(write_int(b)) = 4
        BY BytesAre
      <4>3. G[k] = write_int(b) /\ zeros[k] = 0
        BY <2>2, <4>1
      <4> QED BY <3>1, <4>2, <4>3
    <3>3. IsSeq(FlattenSeq(G)) /\ Len(FlattenSeq(G)) = Total(zeros) + c * n
      <4>1. Parts(G, zeros, n, c)
        BY <2>2, <2>3, <3>2 DEF Parts
      <4> QED BY <4>1, Flattened
    <3> QED BY <3>1, <3>3
  <2>7. IsSeq(FlattenSeq(H)) /\ Len(FlattenSeq(H)) = Total(zeros) + 4 * n
    <3>1. PICK c \in Nat : c = 4
      OBVIOUS
    <3>2. ASSUME NEW k \in 1..n PROVE IsSeq(H[k]) /\ Len(H[k]) = zeros[k] + c
      <4>1. PICK b : b = ags.length[k]
        OBVIOUS
      <4>2. IsSeq(write_int(b)) /\ Len(write_int(b)) = 4
        BY BytesAre
      <4>3. H[k] = write_int(b) /\ zeros[k] = 0
        BY <2>2, <4>1
      <4> QED BY <3>1, <4>2, <4>3
    <3>3. IsSeq(FlattenSeq(H)) /\ Len(FlattenSeq(H)) = Total(zeros) + c * n
      <4>1. Parts(H, zeros, n, c)
        BY <2>2, <2>3, <3>2 DEF Parts
      <4> QED BY <4>1, Flattened
    <3> QED BY <3>1, <3>3
  <2>8. PICK m, q, f, g, h, z : /\ m = Magic(20) /\ q = write_int(filecount)
                                /\ f = FlattenSeq(F) /\ g = FlattenSeq(G) /\ h = FlattenSeq(H)
                                /\ z = [k \in 1..filecount |-> 0]
    OBVIOUS
  <2>9. /\ IsSeq(m) /\ Len(m) = 7 /\ IsSeq(q) /\ Len(q) = 4
        /\ IsSeq(f) /\ Len(f) = sum + 3 * n
        /\ IsSeq(g) /\ Len(g) = 4 * n /\ IsSeq(h) /\ Len(h) = 4 * n
        /\ IsSeq(z) /\ Len(z) = n
    <3>1. IsSeq(z) /\ Len(z) = n
      BY <1>3, <2>8, Numbered
    <3>2. IsSeq(m) /\ Len(m) = 7 /\ IsSeq(q) /\ Len(q) = 4
      BY <1>8, <2>8, BytesAre
    <3>3. IsSeq(f) /\ Len(f) = sum + 3 * n
      BY <1>2, <2>5, <2>8
    <3>4. IsSeq(g) /\ Len(g) = 4 * n /\ IsSeq(h) /\ Len(h) = 4 * n
      BY <2>4, <2>6, <2>7, <2>8
    <3> QED BY <3>1, <3>2, <3>3, <3>4
  <2>10. PICK h1, h2, h3, h4, h5, h6 :
           /\ h1 = m \o DataFiles /\ h2 = h1 \o q /\ h3 = h2 \o f /\ h4 = h3 \o g
           /\ h5 = h4 \o h /\ h6 = h5 \o z
    OBVIOUS
  <2>11. IsSeq(h1) /\ Len(h1) = 7 + (4 + d)
    <3>1. Joins(h1, m, DataFiles)
      BY <1>9, <2>9, <2>10, Joined
    <3> QED BY <1>9, <2>9, <3>1 DEF Joins
  <2>12. IsSeq(h2) /\ Len(h2) = 7 + (4 + d) + 4
    <3>1. Joins(h2, h1, q)
      BY <2>9, <2>10, <2>11, Joined
    <3> QED BY <2>9, <2>11, <3>1 DEF Joins
  <2>13. IsSeq(h3) /\ Len(h3) = 7 + (4 + d) + 4 + (sum + 3 * n)
    <3>1. Joins(h3, h2, f)
      BY <2>9, <2>10, <2>12, Joined
    <3> QED BY <2>9, <2>12, <3>1 DEF Joins
  <2>14. IsSeq(h4) /\ Len(h4) = 7 + (4 + d) + 4 + (sum + 3 * n) + 4 * n
    <3>1. Joins(h4, h3, g)
      BY <2>9, <2>10, <2>13, Joined
    <3> QED BY <2>9, <2>13, <3>1 DEF Joins
  <2>15. IsSeq(h5) /\ Len(h5) = 7 + (4 + d) + 4 + (sum + 3 * n) + 4 * n + 4 * n
    <3>1. Joins(h5, h4, h)
      BY <2>9, <2>10, <2>14, Joined
    <3> QED BY <2>9, <2>14, <3>1 DEF Joins
  <2>16. IsSeq(h6) /\ Len(h6) = 7 + (4 + d) + 4 + (sum + 3 * n) + 4 * n + 4 * n + n
    <3>1. Joins(h6, h5, z)
      BY <2>9, <2>10, <2>15, Joined, SMTT(30)
    <3> QED BY <2>9, <2>15, <3>1 DEF Joins
  <2>17. header = h6
    BY <1>6, <1>12, <2>8, <2>10 DEF header, header20, F, G, H
  <2> QED BY <1>4, <1>5, <1>7, <1>12, <2>16, <2>17
<1> QED BY <1>11, <1>12

-----------------------------------------------------------------------------
(* The invariant                                                           *)

FilesAre ==
  /\ dir \in [Names -> Contents \cup {Missing}] /\ stub \in Stubs /\ info \in Infos
  /\ line \in Nat \ {0}

\* The store st and the arrays of a are those of the names T read so far.
Listed(T, O, st, a) ==
  /\ Strings(st, T, O)
  /\ DOMAIN st = {"lcount", "ssize", "scapa", "sdata", "inside"}
  /\ DOMAIN a = {"libversion", "alloc", "length", "offset", "header_offset"}
  /\ a.length \in Seq(Nat) /\ Len(a.length) = Len(T)
  /\ IsSeq(a.offset) /\ Len(a.offset) = Len(T)
  /\ a.header_offset \in Nat

\* The file reached, the offset of its name, and the place in the pack p.
Reached(T, e, n, off, p, f, c) ==
  /\ n \in 1..Len(T) + 1 /\ off \in 0..e
  /\ IsSeq(p) /\ f \in 0..Len(p) /\ IsSeq(c)

\* The offsets are those of files one behind the other, behind the header.
Tiled(T, a) ==
  \A k \in 1..Len(T) : a.offset[k] = HeaderSize(T, a.libversion) + Before(a.length, k - 1)

\* Where the first m files end.
EndOf(T, a, m) == a.header_offset + HeaderSize(T, a.libversion) + Before(a.length, m)

\* The first m files are in the pack, as long as the header says, where it says.
InPlace(a, p, c, m) ==
  \A k \in 1..m :
    /\ IsSeq(c[k]) /\ Len(c[k]) = a.length[k]
    /\ \A j \in 1..a.length[k] : p[a.header_offset + a.offset[k] + j] = c[k][j]

\* What is in the pack when the header is written with the offsets in it, at f: no
\* more than the executable and what that header covers.
Covered(T, a, p, f, c) ==
  Len(p) <= f + HeaderSize(T, a.libversion) /\ f = a.header_offset /\ c = <<>>

Copying(T, O, e, a, n, off, p, f, c) ==
  /\ f = Len(p) /\ Len(p) = EndOf(T, a, n - 1)
  /\ off = Start(O, e, n)
  /\ Len(c) = n - 1 /\ InPlace(a, p, c, n - 1)

Whole(T, a, n, p, c) ==
  /\ n = Len(T) + 1 /\ Len(c) = Len(T) /\ InPlace(a, p, c, Len(T))
  /\ Len(p) = EndOf(T, a, Len(T)) + 12 + (IF a.libversion >= 30 THEN 8 ELSE 4)

Packing(T, O) ==
  /\ FilesAre /\ Listed(T, O, ss, ags)
  /\ Reached(T, ss.ssize, i, ssoff, pack, fd, copied)
  /\ pc \in {"info", "stub", "header", "files", "packed", "failed", "overrun"}
  /\ pc = "info" =>
       i = 1 /\ ssoff = 0 /\ pack = <<>> /\ fd = 0 /\ copied = <<>> /\ ags.header_offset = 0
  /\ pc \in {"stub", "header", "files", "packed"} => Tiled(T, ags)
  /\ pc = "stub" => fd = 0
  /\ pc \in {"stub", "header"} => Covered(T, ags, pack, fd, copied)
  /\ pc = "files" => Copying(T, O, ss.ssize, ags, i, ssoff, pack, fd, copied)
  /\ pc = "packed" => Whole(T, ags, i, pack, copied)

\* It is about the first pack, until that is taken apart.
IInv == pass = 1 /\ pc # "extract" => \E T, O : Packing(T, O)

-----------------------------------------------------------------------------
(* The steps                                                               *)

LEMMA PackStart == Init => IInv
<1> SUFFICES ASSUME Init PROVE Packing(<<>>, <<>>)
  BY DEF IInv
<1>1. /\ FilesAre /\ ss = NewStore /\ ags = NewAgs /\ i = 1 /\ ssoff = 0 /\ pack = <<>>
      /\ fd = 0 /\ pc = "info" /\ copied = <<>>
  BY DEF Init, StoreInit, FilesAre
<1>2. /\ IsSeq(<<>>) /\ Len(<<>>) = 0 /\ <<>> \in Seq(Names) /\ <<>> \in Seq(Nat)
  BY EmptyList, EmptySeq
<1>3. Strings(NewStore, <<>>, <<>>)
  BY <1>2 DEF Strings, NewStore, Start
<1>4. Listed(<<>>, <<>>, NewStore, NewAgs)
  BY <1>2, <1>3 DEF Listed, NewStore, NewAgs
<1>5. Reached(<<>>, ss.ssize, i, ssoff, pack, fd, copied)
  BY <1>1, <1>2 DEF Reached, NewStore
<1>6. ags.header_offset = 0
  BY <1>1 DEF NewAgs
<1> QED BY <1>1, <1>4, <1>5, <1>6 DEF Packing

\* Saving or removing a file.
LEMMA ChangeKeeps ==
  ASSUME NEW T, NEW O, Packing(T, O), NEW n \in Names, Change(n)
  PROVE  Packing(T, O)'
<1>1. /\ dir' \in [Names -> Contents \cup {Missing}]
      /\ UNCHANGED <<ss, stub, info, line, ags, i, ssoff, pack, fd, pc, copied>>
  BY DEF Change, Packing, FilesAre
<1> QED BY <1>1 DEF Packing, FilesAre

\* A line of the index.
LEMMA LineIs ==
  ASSUME NEW T, NEW O, Packing(T, O), NEW kind, ReadLine(kind)
  PROVE  /\ pc = "info" /\ FilesAre' /\ dir' = dir /\ Listed(T, O, ss, ags)
         /\ UNCHANGED <<i, ssoff, pack, fd, copied>>
         /\ i = 1 /\ ssoff = 0 /\ pack = <<>> /\ fd = 0 /\ copied = <<>>
         /\ ags.header_offset = 0
         /\ kind = "file" => info[line][2] \in Names
<1>1. /\ pc = "info" /\ line <= Len(info) /\ info[line][1] = kind /\ line' = line + 1
      /\ UNCHANGED <<dir, stub, info, i, ssoff, pack, fd, copied>>
  BY DEF ReadLine
<1>2. FilesAre'
  BY <1>1 DEF Packing, FilesAre
<1>3. kind = "file" => info[line][2] \in Names
  <2>1. info \in Infos /\ line \in Nat \ {0}
    BY DEF Packing, FilesAre
  <2>2. ASSUME kind = "file" PROVE info[line][2] \in Names
    <3>1. line \in 1..Len(info)
      BY <1>1, <2>1
    <3> QED BY <1>1, <2>1, <2>2, <3>1, InfosAssumption
  <2> QED BY <2>2
<1> QED BY <1>1, <1>2, <1>3 DEF Packing

\* While the index is read nothing but the lists changes.
LEMMA LineKeeps ==
  ASSUME NEW T, NEW O, NEW T2, NEW O2, Packing(T, O), NEW kind, ReadLine(kind),
         Listed(T2, O2, ss', ags'), ags'.header_offset = 0,
         pc' \in {"info", "failed", "overrun"}
  PROVE  Packing(T2, O2)'
<1>1. /\ FilesAre' /\ i' = 1 /\ ssoff' = 0 /\ pack' = <<>> /\ fd' = 0 /\ copied' = <<>>
  BY LineIs
<1>2. Len(T2) \in Nat /\ ss'.ssize \in Nat
  <2>1. T2 \in Seq(Names) /\ IsSeq(ss'.sdata) /\ Len(ss'.sdata) = ss'.ssize
    BY DEF Listed, Strings
  <2> QED BY <2>1, LenProperties, Lengths
<1>3. Reached(T2, ss'.ssize, 1, 0, <<>>, 0, <<>>)
  BY <1>2, EmptyList DEF Reached
<1> QED BY <1>1, <1>3 DEF Packing

LEMMA SetVersionKeeps ==
  ASSUME NEW T, NEW O, Packing(T, O), SetVersion
  PROVE  Packing(T, O)'
<1>1. ReadLine("mflversion") /\ ss' = ss /\ pc' = pc
  BY DEF SetVersion
<1>2. PICK v : ags' = [ags EXCEPT !.libversion = v]
  BY DEF SetVersion
<1>3. Listed(T, O, ss, ags) /\ pc = "info" /\ ags.header_offset = 0
  BY <1>1, LineIs
<1>4. /\ DOMAIN ags' = DOMAIN ags /\ ags'.length = ags.length /\ ags'.offset = ags.offset
      /\ ags'.header_offset = ags.header_offset
  BY <1>2, <1>3 DEF Listed
<1>5. Listed(T, O, ss', ags')
  BY <1>1, <1>3, <1>4 DEF Listed
<1> QED BY <1>1, <1>3, <1>4, <1>5, LineKeeps

LEMMA SetNumFilesKeeps ==
  ASSUME NEW T, NEW O, Packing(T, O), SetNumFiles
  PROVE  Packing(T, O)'
<1>1. ReadLine("filecount") /\ pc' = pc
  BY DEF SetNumFiles
<1>2. PICK v, m : ags' = [ags EXCEPT !.alloc = v] /\ ss' = [ss EXCEPT !.scapa = m]
  BY DEF SetNumFiles, Preallocate, strstore_prealloc
<1>3. Listed(T, O, ss, ags) /\ pc = "info" /\ ags.header_offset = 0
  BY <1>1, LineIs
<1>4. /\ DOMAIN ags' = DOMAIN ags /\ ags'.length = ags.length /\ ags'.offset = ags.offset
      /\ ags'.header_offset = ags.header_offset
      /\ DOMAIN ss' = DOMAIN ss /\ ss'.lcount = ss.lcount /\ ss'.ssize = ss.ssize
      /\ ss'.sdata = ss.sdata
  BY <1>2, <1>3 DEF Listed
<1>5. Strings(ss', T, O)
  <2>1. Strings(ss, T, O)
    BY <1>3 DEF Listed
  <2> QED BY <1>4, <2>1 DEF Strings
<1>6. Listed(T, O, ss', ags')
  BY <1>3, <1>4, <1>5 DEF Listed
<1> QED BY <1>1, <1>3, <1>4, <1>6, LineKeeps

LEMMA AppendFileKeeps ==
  ASSUME NEW T, NEW O, Packing(T, O), AppendFile
  PROVE  \E T2, O2 : Packing(T2, O2)'
<1>1. ReadLine("file")
  BY DEF AppendFile
<1>2. /\ Listed(T, O, ss, ags) /\ pc = "info" /\ ags.header_offset = 0
      /\ info[line][2] \in Names
  BY <1>1, LineIs
<1>3. CASE ags.alloc <= filecount
  <2>1. pc' \in {"failed", "overrun"} /\ ss' = ss /\ ags' = ags
    BY <1>3 DEF AppendFile
  <2> QED BY <1>1, <1>2, <2>1, LineKeeps
<1>4. CASE ~(ags.alloc <= filecount)
  <2>1. PICK name \in Names : name = info[line][2]
    BY <1>2
  <2>2. PICK size : size = getfilesize(dir[name])
    OBVIOUS
  <2>3. size \in Nat
    <3>1. dir[name] \in Contents \cup {Missing}
      BY DEF Packing, FilesAre
    <3>2. ASSUME dir[name] # Missing PROVE Len(dir[name]) \in Nat
      <4>1. IsSeq(dir[name])
        BY <3>1, <3>2, FilesAssumption DEF IsSeq
      <4> QED BY <4>1, Lengths
    <3> QED BY <2>2, <3>1, <3>2 DEF getfilesize
  <2>4. PICK lens, offs : lens = Append(ags.length, size) /\ offs = Append(ags.offset, 0)
    OBVIOUS
  <2>5. /\ ss' = strstore_append(ss, name) /\ pc' = pc
        /\ ags' = [ags EXCEPT !.length = lens, !.offset = offs]
    BY <1>4, <2>1, <2>2, <2>4 DEF AppendFile, AppendString
  <2>6. PICK T2, O2 : T2 = Append(T, name) /\ O2 = Append(O, ss.ssize)
    OBVIOUS
  <2>7. Strings(ss', T2, O2) /\ DOMAIN ss' = {"lcount", "ssize", "scapa", "sdata", "inside"}
    <3>1. Strings(ss, T, O)
      BY <1>2 DEF Listed
    <3>2. Strings(ss', T2, O2)
      BY <2>5, <2>6, <3>1, StringAppended
    <3>3. DOMAIN ss' = {"lcount", "ssize", "scapa", "sdata", "inside"}
      BY <2>5 DEF strstore_append
    <3> QED BY <3>2, <3>3
  <2>8. /\ DOMAIN ags' = DOMAIN ags /\ ags'.length = lens /\ ags'.offset = offs
        /\ ags'.header_offset = ags.header_offset
    BY <1>2, <2>5 DEF Listed
  <2>9. Len(T2) = Len(T) + 1
    <3>1. T \in Seq(Names)
      BY <1>2 DEF Listed, Strings
    <3> QED BY <2>6, <3>1, AppendProperties
  <2>10. lens \in Seq(Nat) /\ Len(lens) = Len(T) + 1
    BY <1>2, <2>3, <2>4, AppendProperties DEF Listed
  <2>11. IsSeq(offs) /\ Len(offs) = Len(T) + 1
    BY <1>2, <2>4, Longer DEF Listed
  <2>12. Listed(T2, O2, ss', ags')
    BY <1>2, <2>7, <2>8, <2>9, <2>10, <2>11 DEF Listed
  <2> QED BY <1>1, <1>2, <2>5, <2>8, <2>12, LineKeeps
<1> QED BY <1>3, <1>4

LEMMA OtherLineKeeps ==
  ASSUME NEW T, NEW O, Packing(T, O), OtherLine \/ BadLine
  PROVE  Packing(T, O)'
<1>1. PICK kind : ReadLine(kind)
  BY DEF OtherLine, BadLine
<1>2. ss' = ss /\ ags' = ags /\ (pc' = pc \/ pc' = "failed")
  BY DEF OtherLine, BadLine
<1>3. Listed(T, O, ss, ags) /\ pc = "info" /\ ags.header_offset = 0
  BY <1>1, LineIs
<1> QED BY <1>1, <1>2, <1>3, LineKeeps

\* Giving up.
LEMMA FailKeeps ==
  ASSUME NEW T, NEW O, Packing(T, O), WriteStep, Fail
  PROVE  Packing(T, O)'
<1>1. /\ pc' = "failed"
      /\ UNCHANGED <<dir, ss, stub, info, line, ags, i, ssoff, pack, fd, copied>>
  BY DEF WriteStep, Fail
<1> QED BY <1>1 DEF Packing, FilesAre

\* What the lists are good for.
LEMMA Known ==
  ASSUME NEW T, NEW O, Packing(T, O), NEW H, H = HeaderSize(T, ags.libversion)
  PROVE  /\ Listed(T, O, ss, ags) /\ Strings(ss, T, O) /\ DOMAIN ags # {}
         /\ Len(T) \in Nat /\ filecount = Len(T) /\ ss.ssize \in Nat /\ H \in Nat
         /\ IsSeq(header) /\ Len(header) = H /\ written = H
         /\ ags.length \in Seq(Nat) /\ Len(ags.length) = Len(T) /\ ags.header_offset \in Nat
<1>1. Listed(T, O, ss, ags)
  BY DEF Packing
<1>2. /\ Strings(ss, T, O) /\ DOMAIN ags # {} /\ ags.length \in Seq(Nat)
      /\ Len(ags.length) = Len(T) /\ ags.header_offset \in Nat
  BY <1>1 DEF Listed
<1>3. Len(T) \in Nat /\ filecount = Len(T) /\ ss.ssize \in Nat
  <2>1. T \in Seq(Names) /\ ss.lcount = Len(T) /\ IsSeq(ss.sdata) /\ Len(ss.sdata) = ss.ssize
    BY <1>2 DEF Strings
  <2> QED BY <2>1, LenProperties, Lengths DEF filecount
<1>4. IsSeq(header) /\ Len(header) = H /\ written = H /\ H \in Nat
  BY <1>2, HeaderIs
<1> QED BY <1>1, <1>2, <1>3, <1>4

\* The header written for its length, and the offsets from it.
LEMMA WriteHeaderKeeps ==
  ASSUME NEW T, NEW O, Packing(T, O), WriteHeader
  PROVE  Packing(T, O)'
<1>1. pc = "info" /\ WriteStep
  BY DEF WriteHeader
<1>2. CASE too_long
  BY <1>1, <1>2, FailKeeps DEF WriteHeader
<1>3. CASE ~too_long
  <2>1. PICK H, h : H = HeaderSize(T, ags.libversion) /\ h = header
    OBVIOUS
  <2>2. PICK n, lens, offs :
          /\ n = Len(T) /\ lens = ags.length
          /\ offs = [k \in 1..filecount |-> written + Total(SubSeq(ags.length, 1, k - 1))]
    OBVIOUS
  <2>3. /\ Listed(T, O, ss, ags) /\ n \in Nat /\ filecount = n /\ ss.ssize \in Nat
        /\ H \in Nat /\ IsSeq(h) /\ Len(h) = H /\ written = H
    BY <2>1, <2>2, Known
  <2>4. /\ pack' = h /\ fd' = 0 /\ pc' \in {"stub", "header"}
        /\ ags' = [ags EXCEPT !.offset = offs]
        /\ UNCHANGED <<dir, ss, stub, info, line, i, ssoff, copied>>
    BY <1>1, <1>3, <2>1, <2>2 DEF WriteHeader, WriteStep
  <2>5. IsSeq(offs) /\ Len(offs) = n /\ \A k \in 1..n : offs[k] = H + Before(lens, k - 1)
    <3>1. offs = [k \in 1..n |-> H + Before(lens, k - 1)]
      BY <2>2, <2>3 DEF Before
    <3>2. offs = [k \in 1..n |-> offs[k]]
      BY <3>1
    <3> QED BY <2>3, <3>1, <3>2, Numbered
  <2>6. /\ DOMAIN ags' = DOMAIN ags /\ ags'.offset = offs /\ ags'.length = lens
        /\ ags'.header_offset = ags.header_offset /\ ags'.libversion = ags.libversion
    BY <2>2, <2>3, <2>4 DEF Listed
  <2>7. Listed(T, O, ss', ags')
    BY <2>2, <2>3, <2>4, <2>5, <2>6 DEF Listed
  <2>8. Tiled(T, ags')
    BY <2>1, <2>2, <2>5, <2>6 DEF Tiled
  <2>9. /\ i = 1 /\ ssoff = 0 /\ copied = <<>> /\ ags.header_offset = 0
        /\ Reached(T, ss.ssize, i, ssoff, pack, fd, copied)
    BY <1>1 DEF Packing
  <2>10. Reached(T, ss'.ssize, i', ssoff', pack', fd', copied')
    <3>1. 0 \in 0..Len(h)
      BY <2>3
    <3> QED BY <2>3, <2>4, <2>9, <3>1 DEF Reached
  <2>11. Covered(T, ags', pack', fd', copied')
    <3>1. H <= 0 + H
      BY <2>3
    <3> QED BY <2>1, <2>3, <2>4, <2>6, <2>9, <3>1 DEF Covered
  <2>12. FilesAre'
    BY <2>4 DEF Packing, FilesAre
  <2> QED BY <2>4, <2>7, <2>8, <2>10, <2>11, <2>12 DEF Packing
<1> QED BY <1>2, <1>3

LEMMA CopyStubKeeps ==
  ASSUME NEW T, NEW O, Packing(T, O), CopyStub
  PROVE  Packing(T, O)'
<1>1. PICK H, st, p, q : /\ H = HeaderSize(T, ags.libversion) /\ st = stub /\ p = pack
                         /\ q = Written(p, fd, st)
  OBVIOUS
<1>2. /\ pc = "stub" /\ pack' = q /\ fd' = fd + Len(st) /\ pc' = "header"
      /\ ags' = [ags EXCEPT !.header_offset = Len(st)]
      /\ UNCHANGED <<dir, ss, stub, info, line, i, ssoff, copied>>
  BY <1>1 DEF CopyStub, WriteStep
<1>3. /\ Listed(T, O, ss, ags) /\ Len(T) \in Nat /\ ss.ssize \in Nat /\ H \in Nat
  BY <1>1, Known
<1>4. IsSeq(st) /\ Len(st) \in Nat
  <2>1. stub \in Stubs
    BY DEF Packing, FilesAre
  <2>2. IsSeq(st)
    BY <1>1, <2>1, FilesAssumption DEF IsSeq
  <2> QED BY <2>2, Lengths
<1>5. /\ Reached(T, ss.ssize, i, ssoff, pack, fd, copied) /\ Tiled(T, ags)
      /\ Covered(T, ags, pack, fd, copied) /\ fd = 0
  BY <1>2 DEF Packing
<1>6. Writes(q, p, 0, st)
  <2>1. IsSeq(p) /\ 0 \in 0..Len(p)
    BY <1>1, <1>5 DEF Reached
  <2> QED BY <1>1, <1>4, <1>5, <2>1, WrittenIs
<1>7. IsSeq(q) /\ Len(q) \in Nat /\ Len(st) <= Len(q) /\ Len(q) <= Len(st) + H
  <2>1. PICK m \in Nat, k \in Nat : m = Len(p) /\ k = Len(st)
    BY <1>1, <1>4, <1>5, Lengths DEF Reached
  <2>2. IsSeq(q) /\ Len(q) = IF 0 + k <= m THEN m ELSE 0 + k
    BY <1>6, <2>1 DEF Writes
  <2>3. m <= H
    <3>1. m <= 0 + H
      BY <1>1, <1>5, <2>1 DEF Covered
    <3> QED BY <1>3, <3>1
  <2> QED BY <1>3, <2>1, <2>2, <2>3
<1>8. /\ DOMAIN ags' = DOMAIN ags /\ ags'.offset = ags.offset /\ ags'.length = ags.length
      /\ ags'.header_offset = Len(st) /\ ags'.libversion = ags.libversion
  BY <1>2, <1>3 DEF Listed
<1>9. Listed(T, O, ss', ags')
  BY <1>2, <1>3, <1>4, <1>8 DEF Listed
<1>10. Tiled(T, ags')
  BY <1>5, <1>8 DEF Tiled
<1>11. fd' = Len(st)
  BY <1>2, <1>4, <1>5
<1>12. Reached(T, ss'.ssize, i', ssoff', pack', fd', copied')
  <2>1. Len(st) \in 0..Len(q)
    BY <1>4, <1>7
  <2> QED BY <1>2, <1>5, <1>7, <1>11, <2>1 DEF Reached
<1>13. Covered(T, ags', pack', fd', copied')
  BY <1>1, <1>2, <1>5, <1>7, <1>8, <1>11 DEF Covered
<1>14. FilesAre'
  BY <1>2 DEF Packing, FilesAre
<1> QED BY <1>2, <1>9, <1>10, <1>12, <1>13, <1>14 DEF Packing

LEMMA WriteHeaderAgainKeeps ==
  ASSUME NEW T, NEW O, Packing(T, O), WriteHeaderAgain
  PROVE  Packing(T, O)'
<1>1. PICK H, h, p, q, f : /\ H = HeaderSize(T, ags.libversion) /\ h = header /\ p = pack
                           /\ f = fd /\ q = Written(p, f, h)
  OBVIOUS
<1>2. /\ pc = "header" /\ pack' = q /\ fd' = f + Len(h) /\ pc' \in {"failed", "files"}
      /\ i' = 1 /\ ssoff' = 0
      /\ UNCHANGED <<dir, ss, stub, info, line, ags, copied>>
  BY <1>1 DEF WriteHeaderAgain, WriteStep
<1>3. /\ Listed(T, O, ss, ags) /\ Strings(ss, T, O) /\ Len(T) \in Nat /\ ss.ssize \in Nat
      /\ H \in Nat /\ IsSeq(h) /\ Len(h) = H /\ ags.length \in Seq(Nat)
  BY <1>1, Known
<1>4. /\ Reached(T, ss.ssize, i, ssoff, pack, fd, copied) /\ Tiled(T, ags)
      /\ Covered(T, ags, pack, fd, copied)
  BY <1>2 DEF Packing
<1>5. IsSeq(p) /\ f \in 0..Len(p) /\ Len(p) \in Nat
  <2>1. IsSeq(p) /\ f \in 0..Len(p)
    BY <1>1, <1>4 DEF Reached
  <2> QED BY <2>1, Lengths
<1>6. Writes(q, p, f, h)
  BY <1>1, <1>3, <1>5, WrittenIs
<1>7. IsSeq(q) /\ Len(q) = f + H /\ f + H \in Nat
  <2>1. PICK m \in Nat : m = Len(p)
    BY <1>5
  <2>2. IsSeq(q) /\ Len(q) = IF f + H <= m THEN m ELSE f + H
    BY <1>3, <1>6, <2>1 DEF Writes
  <2>3. m <= f + H
    BY <1>1, <1>4, <2>1 DEF Covered
  <2> QED BY <1>3, <1>5, <2>1, <2>2, <2>3
<1>8. fd' = f + H /\ f = ags.header_offset /\ copied = <<>>
  BY <1>1, <1>2, <1>3, <1>4 DEF Covered
<1>9. Reached(T, ss'.ssize, i', ssoff', pack', fd', copied')
  <2>1. f + H \in 0..Len(q) /\ 1 \in 1..Len(T) + 1
    BY <1>3, <1>7
  <2> QED BY <1>2, <1>3, <1>4, <1>7, <1>8, <2>1 DEF Reached
<1>10. Copying(T, O, ss'.ssize, ags', i', ssoff', pack', fd', copied')
  <2>1. Before(ags.length, 0) = 0
    BY <1>3, Sums
  <2>2. EndOf(T, ags, 1 - 1) = f + H
    BY <1>1, <1>7, <1>8, <2>1 DEF EndOf
  <2>3. Start(O, ss.ssize, 1) = 0
    BY <1>3 DEF Strings
  <2>4. InPlace(ags, q, <<>>, 1 - 1)
    <3>1. 1..(1 - 1) = {}
      OBVIOUS
    <3> QED BY <3>1 DEF InPlace
  <2>5. Len(<<>>) = 1 - 1
    BY EmptyList
  <2> QED BY <1>2, <1>7, <1>8, <2>2, <2>3, <2>4, <2>5 DEF Copying
<1>11. FilesAre' /\ Listed(T, O, ss', ags') /\ Tiled(T, ags')
  <2>1. FilesAre'
    BY <1>2 DEF Packing, FilesAre
  <2> QED BY <1>2, <1>3, <1>4, <2>1
<1> QED BY <1>2, <1>9, <1>10, <1>11 DEF Packing

LEMMA SumsGrow ==
  ASSUME NEW f, f \in Seq(Nat), NEW m \in 0..Len(f), NEW n \in 0..Len(f), m <= n
  PROVE  Before(f, m) <= Before(f, n)
<1> DEFINE S == {d \in Nat : m + d <= Len(f) => Before(f, m) <= Before(f, m + d)}
<1>1. /\ Len(f) \in Nat
      /\ \A k \in 0..Len(f) : Before(f, k) \in Nat
      /\ \A k \in 0..Len(f) - 1 : Before(f, k + 1) = Before(f, k) + f[k + 1]
  BY Sums, LenProperties
<1>2. 0 \in S
  <2>1. Before(f, m) \in Nat /\ m + 0 = m
    BY <1>1
  <2> QED BY <2>1
<1>3. ASSUME NEW d \in S PROVE d + 1 \in S
  <2> SUFFICES ASSUME m + (d + 1) <= Len(f)
               PROVE  Before(f, m) <= Before(f, m + (d + 1))
    OBVIOUS
  <2>1. PICK k \in Nat : k = m + d
    BY <1>1
  <2>2. k \in 0..Len(f) - 1 /\ k \in 0..Len(f) /\ k + 1 \in 1..Len(f) /\ m + (d + 1) = k + 1
        /\ m + d <= Len(f)
    BY <1>1, <2>1
  <2>3. Before(f, k + 1) = Before(f, k) + f[k + 1] /\ f[k + 1] \in Nat
    BY <1>1, <2>2, ElementOfSeq
  <2>4. Before(f, m) <= Before(f, k) /\ Before(f, k) \in Nat /\ Before(f, m) \in Nat
    BY <1>1, <2>1, <2>2
  <2>5. Before(f, m) <= Before(f, k + 1)
    BY <2>3, <2>4, SMTT(30)
  <2> QED BY <2>2, <2>5
<1>4. S = Nat
  <2>1. S \in SUBSET Nat
    OBVIOUS
  <2> HIDE DEF S
  <2> QED BY <1>2, <1>3, <2>1, Induction
<1>5. n - m \in Nat /\ m + (n - m) = n /\ n <= Len(f)
  BY <1>1
<1>6. n - m \in S
  BY <1>4, <1>5
<1> QED BY <1>5, <1>6

\* What is written behind the files leaves them as they are.
LEMMA PlacesStay ==
  ASSUME NEW T, NEW a, NEW m \in 0..Len(T), NEW p, NEW q, NEW c, NEW c2,
         T \in Seq(Names), a.length \in Seq(Nat), Len(a.length) = Len(T),
         a.header_offset \in Nat, HeaderSize(T, a.libversion) \in Nat,
         Tiled(T, a), InPlace(a, p, c, m), Len(p) = EndOf(T, a, m),
         \A k \in 1..Len(p) : q[k] = p[k], \A k \in 1..m : c2[k] = c[k]
  PROVE  InPlace(a, q, c2, m)
<1>1. PICK n \in Nat, ho \in Nat, H \in Nat, lens \in {a.length} :
        n = Len(T) /\ ho = a.header_offset /\ H = HeaderSize(T, a.libversion) /\ lens = a.length
  BY LenProperties
<1>2. /\ lens \in Seq(Nat) /\ Len(lens) = n /\ m \in Nat /\ m <= n
      /\ \A k \in 0..n : Before(lens, k) \in Nat
      /\ \A k \in 0..n - 1 : Before(lens, k + 1) = Before(lens, k) + lens[k + 1]
  BY <1>1, Sums, SMTT(30)
<1> SUFFICES ASSUME NEW k \in 1..m
             PROVE  /\ IsSeq(c2[k]) /\ Len(c2[k]) = a.length[k]
                    /\ \A j \in 1..a.length[k] :
                         q[a.header_offset + a.offset[k] + j] = c2[k][j]
  BY DEF InPlace
<1>3. /\ IsSeq(c[k]) /\ Len(c[k]) = a.length[k] /\ c2[k] = c[k]
      /\ \A j \in 1..a.length[k] : p[a.header_offset + a.offset[k] + j] = c[k][j]
  BY DEF InPlace
<1>4. k \in 1..n /\ k \in 0..n /\ k - 1 \in 0..n - 1 /\ (k - 1) + 1 = k /\ m \in 0..n /\ k <= m
      /\ k - 1 \in 0..n
  BY <1>2
<1>5. PICK x \in Nat, y \in Nat, z \in Nat, l \in Nat :
        /\ x = Before(lens, k - 1) /\ y = Before(lens, k) /\ z = Before(lens, m) /\ l = lens[k]
  BY <1>2, <1>4, ElementOfSeq
<1>6. y = x + l /\ y <= z
  <2>1. y = x + l
    BY <1>2, <1>4, <1>5
  <2>2. y <= z
    BY <1>2, <1>4, <1>5, SumsGrow
  <2> QED BY <2>1, <2>2
<1>7. a.offset[k] = H + x /\ Len(p) = ho + H + z /\ a.length[k] = l
  BY <1>1, <1>4, <1>5 DEF Tiled, EndOf
<1>8. ASSUME NEW j \in 1..a.length[k]
      PROVE  q[a.header_offset + a.offset[k] + j] = c2[k][j]
  <2>1. ho + (H + x) + j \in 1..Len(p)
    <3>1. j \in 1..l
      BY <1>7
    <3>2. j \in Nat /\ 1 <= j /\ j <= l /\ x + l <= z
      BY <1>6, <3>1
    <3>3. PICK jj \in Nat, w \in Nat : jj = j /\ w = ho + H + z
      BY <3>2
    <3>4. ho + (H + x) + jj \in 1..w
      BY <3>2, <3>3
    <3> QED BY <1>7, <3>3, <3>4
  <2>2. a.header_offset + a.offset[k] + j = ho + (H + x) + j
    BY <1>1, <1>7
  <2>3. p[a.header_offset + a.offset[k] + j] = c[k][j]
    BY <1>3
  <2> QED BY <1>3, <2>1, <2>2, <2>3
<1> QED BY <1>3, <1>8

LEMMA CopyFileKeeps ==
  ASSUME NEW T, NEW O, Packing(T, O), CopyFile
  PROVE  Packing(T, O)'
<1>1. PICK H, p, f, n, k, e, lens :
        /\ H = HeaderSize(T, ags.libversion) /\ p = pack /\ f = fd /\ n = Len(T) /\ k = i
        /\ e = ss.ssize /\ lens = ags.length
  OBVIOUS
<1>2. /\ Listed(T, O, ss, ags) /\ Strings(ss, T, O) /\ n \in Nat /\ filecount = n /\ e \in Nat
      /\ H \in Nat /\ lens \in Seq(Nat) /\ Len(lens) = n /\ ags.header_offset \in Nat
  BY <1>1, Known
<1>3. pc = "files" /\ k <= n /\ WriteStep
  BY <1>1, <1>2 DEF CopyFile
<1>4. /\ Reached(T, e, k, ssoff, p, f, copied) /\ Tiled(T, ags)
      /\ Copying(T, O, e, ags, k, ssoff, p, f, copied)
  BY <1>1, <1>3 DEF Packing
<1>5. k \in 1..n /\ k \in Nat /\ k - 1 \in 0..n - 1 /\ (k - 1) + 1 = k /\ k - 1 \in 0..n
  BY <1>1, <1>2, <1>3, <1>4 DEF Reached
<1>6. PICK L \in Nat : L = ags.length[k]
  BY <1>1, <1>2, <1>5, ElementOfSeq
<1>7. ssoff = O[k] /\ T[k] \in Names /\ string_at(ss, ssoff) = T[k]
  <2>1. k <= Len(O)
    BY <1>1, <1>2, <1>5 DEF Strings
  <2>2. ssoff = O[k]
    BY <1>4, <2>1 DEF Copying, Start
  <2> QED BY <1>1, <1>2, <1>5, <2>2, StringRead
<1>8. PICK c : c = dir[string_at(ss, ssoff)]
  OBVIOUS
<1>9. CASE ~copy_into_file(k, c)
  <2>1. Fail
    BY <1>1, <1>3, <1>8, <1>9 DEF CopyFile
  <2> QED BY <1>3, <2>1, FailKeeps
<1>10. CASE copy_into_file(k, c)
  <2>1. c # Missing /\ Len(c) >= L
    BY <1>6, <1>10 DEF copy_into_file
  <2>2. IsSeq(c) /\ Len(c) \in Nat
    <3>1. c \in Contents \cup {Missing}
      BY <1>7, <1>8 DEF Packing, FilesAre
    <3>2. IsSeq(c)
      BY <2>1, <3>1, FilesAssumption DEF IsSeq
    <3> QED BY <3>2, Lengths
  <2>3. PICK bytes, q, c2 : /\ bytes = SubSeq(c, 1, L) /\ q = Written(p, f, bytes)
                            /\ c2 = Append(copied, bytes)
    OBVIOUS
  <2>4. /\ pack' = q /\ fd' = f + Len(bytes) /\ copied' = c2 /\ i' = k + 1
        /\ ssoff' = next_name(ssoff)
        /\ UNCHANGED <<dir, ss, stub, info, line, ags, pc>>
    <3>1. (IF Len(c) < ags.length[k] THEN Len(c) ELSE ags.length[k]) = L
      BY <1>6, <2>1, <2>2
    <3> QED BY <1>1, <1>3, <1>8, <1>10, <2>3, <3>1 DEF CopyFile, WriteStep
  <2>5. IsSeq(bytes) /\ Len(bytes) = L
    <3>1. PartOf(bytes, c, 1, L)
      BY <2>1, <2>2, <2>3, Part
    <3>2. IsSeq(bytes) /\ Len(bytes) = IF 1 <= L THEN L - 1 + 1 ELSE 0
      BY <3>1 DEF PartOf
    <3> QED BY <3>2
  <2>6. IsSeq(p) /\ IsSeq(copied) /\ f = Len(p) /\ f \in Nat /\ Len(copied) = k - 1
    <3>1. IsSeq(p) /\ IsSeq(copied) /\ f = Len(p) /\ Len(copied) = k - 1
      BY <1>4 DEF Reached, Copying
    <3> QED BY <3>1, Lengths
  <2>7. /\ IsSeq(q) /\ Len(q) = f + L
        /\ \A j \in 1..Len(p) : q[j] = p[j]
        /\ \A j \in 1..L : q[f + j] = bytes[j]
    <3>1. f \in 0..Len(p)
      BY <2>6
    <3>2. Writes(q, p, f, bytes)
      BY <2>3, <2>5, <2>6, <3>1, WrittenIs
    <3>3. /\ IsSeq(q) /\ Len(q) = IF f + L <= f THEN f ELSE f + L
          /\ \A j \in 1..f : q[j] = p[j]
          /\ \A j \in 1..L : q[f + j] = bytes[j]
      BY <2>5, <2>6, <3>2 DEF Writes
    <3>4. Len(q) = f + L
      BY <2>6, <3>3
    <3> QED BY <2>6, <3>3, <3>4
  <2>8. /\ IsSeq(c2) /\ Len(c2) = k /\ c2[k] = bytes
        /\ \A j \in 1..k - 1 : c2[j] = copied[j]
    <3>1. /\ IsSeq(c2) /\ Len(c2) = Len(copied) + 1 /\ c2[Len(copied) + 1] = bytes
          /\ \A j \in 1..Len(copied) : c2[j] = copied[j]
      BY <2>3, <2>6, Longer
    <3> QED BY <1>5, <2>6, <3>1
  <2>9. ssoff' = Start(O, e, k + 1) /\ ssoff' \in 0..e
    <3>1. ssoff' = Start(O, e, k + 1)
      BY <1>1, <1>2, <1>5, <1>7, <2>4, NextRead
    <3>2. Start(O, e, k + 1) = O[k] + strlen[T[k]] + 1 /\ O[k] + strlen[T[k]] + 1 <= e
      BY <1>1, <1>2, <1>5 DEF Strings
    <3>3. O[k] \in Nat /\ strlen[T[k]] \in Nat
      BY <1>1, <1>2, <1>5, StringRead, SMTT(30)
    <3> QED BY <1>2, <3>1, <3>2, <3>3
  <2>10. PICK x \in Nat, ho \in Nat : x = Before(lens, k - 1) /\ ho = ags.header_offset
    BY <1>2, <1>5, Sums
  <2>11. Before(lens, k) = x + L
    <3>1. Before(lens, (k - 1) + 1) = Before(lens, k - 1) + lens[(k - 1) + 1]
      BY <1>2, <1>5, Sums
    <3> QED BY <1>1, <1>5, <1>6, <2>10, <3>1
  <2>12. f = ho + H + x /\ ags.offset[k] = H + x
    BY <1>1, <1>4, <1>5, <2>6, <2>10 DEF Copying, EndOf, Tiled
  <2>13. Len(q) = EndOf(T, ags, (k + 1) - 1)
    <3>1. EndOf(T, ags, k) = ho + H + (x + L)
      BY <1>1, <2>10, <2>11 DEF EndOf
    <3>2. (k + 1) - 1 = k /\ ho + H + (x + L) = ho + H + x + L
      BY <1>2, <1>5
    <3> QED BY <2>7, <2>12, <3>1, <3>2
  <2>14. InPlace(ags, q, c2, (k + 1) - 1)
    <3>1. InPlace(ags, q, c2, k - 1)
      <4>1. T \in Seq(Names) /\ InPlace(ags, p, copied, k - 1) /\ Len(p) = EndOf(T, ags, k - 1)
        BY <1>2, <1>4 DEF Copying, Strings
      <4>2. Len(ags.length) = Len(T) /\ ags.length \in Seq(Nat) /\ k - 1 \in 0..Len(T)
        BY <1>1, <1>2, <1>5
      <4>3. HeaderSize(T, ags.libversion) \in Nat /\ ags.header_offset \in Nat /\ Tiled(T, ags)
        BY <1>1, <1>2, <1>4
      <4>4. PICK m : m = k - 1
        OBVIOUS
      <4>5. /\ m \in 0..Len(T) /\ InPlace(ags, p, copied, m) /\ Len(p) = EndOf(T, ags, m)
            /\ \A j \in 1..m : c2[j] = copied[j]
        BY <2>8, <4>1, <4>2, <4>4
      <4>6. \A j \in 1..Len(p) : q[j] = p[j]
        BY <2>7
      <4>7. InPlace(ags, q, c2, m)
        BY <4>1, <4>2, <4>3, <4>5, <4>6, PlacesStay
      <4> QED BY <4>4, <4>7
    <3>2. /\ IsSeq(c2[k]) /\ Len(c2[k]) = ags.length[k]
          /\ \A j \in 1..ags.length[k] : q[ags.header_offset + ags.offset[k] + j] = c2[k][j]
      <4>1. ags.header_offset + ags.offset[k] = f
        BY <1>2, <2>10, <2>12
      <4> QED BY <1>6, <2>5, <2>7, <2>8, <4>1
    <3>3. (k + 1) - 1 = k /\ \A j \in 1..k : j = k \/ j \in 1..k - 1
      BY <1>5
    <3> QED BY <3>1, <3>2, <3>3 DEF InPlace
  <2>15. Copying(T, O, ss'.ssize, ags', i', ssoff', pack', fd', copied')
    <3>1. (k + 1) - 1 = k
      BY <1>5
    <3>2. Len(c2) = (k + 1) - 1 /\ f + Len(bytes) = Len(q)
      BY <2>5, <2>7, <2>8, <3>1
    <3>3. Copying(T, O, e, ags, k + 1, ssoff', q, f + Len(bytes), c2)
      BY <2>9, <2>13, <2>14, <3>2 DEF Copying
    <3> QED BY <1>1, <2>4, <3>3
  <2>16. Reached(T, ss'.ssize, i', ssoff', pack', fd', copied')
    <3>1. k + 1 \in 1..n + 1 /\ f + Len(bytes) \in 0..Len(q)
      BY <1>2, <1>5, <2>5, <2>6, <2>7
    <3>2. Reached(T, e, k + 1, ssoff', q, f + Len(bytes), c2)
      BY <1>1, <2>7, <2>8, <2>9, <3>1 DEF Reached
    <3> QED BY <1>1, <2>4, <3>2
  <2>17. FilesAre' /\ Listed(T, O, ss', ags') /\ Tiled(T, ags')
    <3>1. FilesAre'
      BY <2>4 DEF Packing, FilesAre
    <3> QED BY <1>2, <1>4, <2>4, <3>1
  <2> QED BY <1>3, <2>4, <2>15, <2>16, <2>17 DEF Packing
<1> QED BY <1>9, <1>10

\* The footer behind the files.
LEMMA WriteFooterKeeps ==
  ASSUME NEW T, NEW O, Packing(T, O), WriteFooter
  PROVE  Packing(T, O)'
<1>1. PICK H, p, f, n, k, offs, sigs, foot :
        /\ H = HeaderSize(T, ags.libversion) /\ p = pack /\ f = fd /\ n = Len(T) /\ k = i
        /\ offs = (IF myversion = 30 THEN write_ull(ags.header_offset)
                                     ELSE write_int(ags.header_offset))
        /\ sigs = [j \in 1..12 |-> Sig] /\ foot = offs \o sigs
  OBVIOUS
<1>2. /\ Listed(T, O, ss, ags) /\ n \in Nat /\ filecount = n /\ H \in Nat
      /\ ags.length \in Seq(Nat) /\ Len(ags.length) = n /\ ags.header_offset \in Nat
      /\ T \in Seq(Names)
  BY <1>1, Known DEF Strings
<1>3. /\ pc = "files" /\ k > n /\ pack' = Written(p, f, foot) /\ pc' = "packed"
      /\ UNCHANGED <<dir, ss, stub, info, line, ags, i, ssoff, fd, copied>>
  BY <1>1, <1>2 DEF WriteFooter, WriteStep
<1>4. /\ Reached(T, ss.ssize, k, ssoff, p, f, copied) /\ Tiled(T, ags)
      /\ Copying(T, O, ss.ssize, ags, k, ssoff, p, f, copied)
  BY <1>1, <1>3 DEF Packing
<1>5. k = n + 1 /\ k - 1 = n
  <2>1. k \in 1..n + 1
    BY <1>1, <1>4 DEF Reached
  <2> QED BY <1>2, <1>3, <2>1
<1>6. /\ IsSeq(p) /\ f = Len(p) /\ f \in Nat /\ f \in 0..Len(p) /\ Len(p) = EndOf(T, ags, n)
      /\ Len(copied) = n /\ InPlace(ags, p, copied, n)
  <2>1. IsSeq(p) /\ f = Len(p) /\ Len(p) = EndOf(T, ags, n)
        /\ Len(copied) = n /\ InPlace(ags, p, copied, n)
    BY <1>4, <1>5 DEF Reached, Copying
  <2>2. f \in Nat
    BY <2>1, Lengths
  <2> QED BY <2>1, <2>2
<1>7. PICK w \in Nat : w = IF ags.libversion >= 30 THEN 8 ELSE 4
  OBVIOUS
<1>8. IsSeq(foot) /\ Len(foot) = w + 12
  <2>1. IsSeq(offs) /\ Len(offs) = w
    <3>1. myversion = 30 <=> ags.libversion >= 30
      BY DEF myversion
    <3> QED BY <1>1, <1>7, <3>1, BytesAre
  <2>2. IsSeq(sigs) /\ Len(sigs) = 12
    <3>1. PICK m \in Nat : m = 12
      OBVIOUS
    <3>2. sigs = [j \in 1..m |-> sigs[j]]
      BY <1>1, <3>1
    <3> QED BY <3>1, <3>2, Numbered
  <2>3. Joins(foot, offs, sigs)
    BY <1>1, <2>1, <2>2, Joined
  <2> QED BY <2>1, <2>2, <2>3 DEF Joins
<1>9. PICK q : q = Written(p, f, foot)
  OBVIOUS
<1>10. /\ IsSeq(q) /\ Len(q) = f + (w + 12)
       /\ \A j \in 1..Len(p) : q[j] = p[j]
  <2>1. Writes(q, p, f, foot)
    BY <1>6, <1>8, <1>9, WrittenIs
  <2>2. /\ IsSeq(q) /\ Len(q) = IF f + (w + 12) <= f THEN f ELSE f + (w + 12)
        /\ \A j \in 1..f : q[j] = p[j]
    BY <1>6, <1>8, <2>1 DEF Writes
  <2>3. ~(f + (w + 12) <= f)
    BY <1>6
  <2>4. IsSeq(q) /\ Len(q) = f + (w + 12)
    BY <2>2, <2>3
  <2>5. 1..Len(p) = 1..f
    BY <1>6
  <2> QED BY <2>2, <2>4, <2>5
<1>11. InPlace(ags, q, copied, n)
  <2>1. n \in 0..Len(T) /\ Len(ags.length) = Len(T) /\ HeaderSize(T, ags.libversion) \in Nat
    BY <1>1, <1>2
  <2>2. Tiled(T, ags)
    BY <1>4
  <2>3. \A j \in 1..n : copied[j] = copied[j]
    OBVIOUS
  <2> QED BY <1>2, <1>6, <1>10, <2>1, <2>2, <2>3, PlacesStay
<1>12. Whole(T, ags', i', pack', copied')
  <2>1. PICK d \in Nat : d = EndOf(T, ags, n)
    BY <1>6
  <2>2. f + (w + 12) = d + 12 + w
    BY <1>6, <2>1
  <2>3. Len(q) = EndOf(T, ags, n) + 12 + w
    BY <1>10, <2>1, <2>2
  <2>4. Whole(T, ags, k, q, copied)
    BY <1>1, <1>5, <1>6, <1>7, <1>11, <2>3 DEF Whole
  <2> QED BY <1>1, <1>3, <1>9, <2>4
<1>13. Reached(T, ss'.ssize, i', ssoff', pack', fd', copied')
  <2>1. f \in 0..Len(q)
    BY <1>6, <1>10
  <2> QED BY <1>1, <1>3, <1>4, <1>9, <1>10, <2>1 DEF Reached
<1>14. FilesAre' /\ Listed(T, O, ss', ags') /\ Tiled(T, ags')
  <2>1. FilesAre'
    BY <1>3 DEF Packing, FilesAre
  <2> QED BY <1>2, <1>3, <1>4, <2>1
<1> QED BY <1>3, <1>12, <1>13, <1>14 DEF Packing

\* Every step keeps the invariant; the second pass is outside of it.
LEMMA PackStep == IInv /\ [Next]_vars => IInv'
<1> SUFFICES ASSUME IInv, [Next]_vars, pass' = 1, pc' # "extract"
             PROVE  \E T, O : Packing(T, O)'
  BY DEF IInv
<1>1. pass = 1 /\ pc # "extract"
  <2>1. ASSUME NEW n \in Names, Change(n) PROVE pass = 1 /\ pc # "extract"
    BY <2>1 DEF Change
  <2>2. CASE SetVersion \/ SetNumFiles \/ AppendFile \/ OtherLine \/ BadLine
    BY <2>2 DEF SetVersion, SetNumFiles, AppendFile, OtherLine, BadLine, ReadLine
  <2>3. CASE WriteHeader \/ CopyStub \/ WriteHeaderAgain \/ CopyFile \/ WriteFooter
    BY <2>3 DEF WriteHeader, CopyStub, WriteHeaderAgain, CopyFile, WriteFooter, WriteStep
  <2>4. CASE Open \/ ExtractFile \/ Repack
    <3>1. ~Open /\ ~Repack
      <4>1. Open => pc' = "extract"
        BY DEF Open
      <4>2. Repack => pass' = 2
        BY DEF Repack
      <4> QED BY <4>1, <4>2
    <3>2. ExtractFile => pc' = "extract"
      <4>1. ExtractFile => pc = "extract" /\ pc' = pc
        BY DEF ExtractFile
      <4> QED BY <4>1
    <3> QED BY <2>4, <3>1, <3>2
  <2>5. CASE UNCHANGED vars
    BY <2>5 DEF vars
  <2> QED BY <2>1, <2>2, <2>3, <2>4, <2>5 DEF Next
<1>2. PICK T, O : Packing(T, O)
  BY <1>1 DEF IInv
<1> SUFFICES Packing(T, O)' \/ \E T2, O2 : Packing(T2, O2)'
  OBVIOUS
<1>3. ASSUME NEW n \in Names, Change(n) PROVE Packing(T, O)'
  BY <1>2, <1>3, ChangeKeeps
<1>4. CASE SetVersion
  BY <1>2, <1>4, SetVersionKeeps
<1>5. CASE SetNumFiles
  BY <1>2, <1>5, SetNumFilesKeeps
<1>6. CASE AppendFile
  BY <1>2, <1>6, AppendFileKeeps
<1>7. CASE OtherLine \/ BadLine
  BY <1>2, <1>7, OtherLineKeeps
<1>8. CASE WriteHeader
  BY <1>2, <1>8, WriteHeaderKeeps
<1>9. CASE CopyStub
  BY <1>2, <1>9, CopyStubKeeps
<1>10. CASE WriteHeaderAgain
  BY <1>2, <1>10, WriteHeaderAgainKeeps
<1>11. CASE CopyFile
  BY <1>2, <1>11, CopyFileKeeps
<1>12. CASE WriteFooter
  BY <1>2, <1>12, WriteFooterKeeps
<1>13. ~Open /\ ~ExtractFile /\ ~Repack
  BY <1>1 DEF Open, ExtractFile, Repack
<1>14. CASE UNCHANGED vars
  <2>1. UNCHANGED <<dir, ss, stub, info, line, ags, i, ssoff, pack, fd, copied, pc>>
    BY <1>14 DEF vars
  <2> QED BY <1>2, <2>1 DEF Packing, FilesAre
<1> QED BY <1>3, <1>4, <1>5, <1>6, <1>7, <1>8, <1>9, <1>10, <1>11, <1>12, <1>13, <1>14 DEF Next

LEMMA PackInv == Spec => []IInv
<1> QED BY PackStart, PackStep, PTL DEF Spec

\* In the first pack each file is as long as its entry says: copy_into_file took
\* as many bytes as getfilesize told when the index was read, or agspack failed,
\* whoever saved or removed files in between.
THEOREM PacksAreWhole == Spec => [](pass = 1 => PackWhole)
<1>1. IInv => (pass = 1 => PackWhole)
  <2> SUFFICES ASSUME IInv, pass = 1, pc = "packed", NEW n \in 1..filecount
               PROVE  Len(copied[n]) = ags.length[n]
    BY DEF PackWhole
  <2>1. PICK T, O : Packing(T, O)
    BY DEF IInv
  <2>2. filecount = Len(T)
    BY <2>1, Known
  <2>3. InPlace(ags, pack, copied, Len(T))
    BY <2>1 DEF Packing, Whole
  <2> QED BY <2>2, <2>3 DEF InPlace
<1> QED BY <1>1, PackInv, PTL

\* In the first pack the header's offsets are those of the files, one behind the
\* other, with the executable in front and the footer behind: write_header counts
\* what it writes, for both versions, and what the truncated file still holds of
\* the first header is written over.
THEOREM FilesFollowHeader == Spec => [](pass = 1 => OffsetsTile)
<1>1. IInv => (pass = 1 => OffsetsTile)
  <2> SUFFICES ASSUME IInv, pass = 1, pc = "packed" PROVE OffsetsTile
    BY DEF OffsetsTile
  <2>1. PICK T, O : Packing(T, O)
    BY DEF IInv
  <2>2. PICK H, p, n, ho, lens :
          /\ H = HeaderSize(T, ags.libversion) /\ p = pack /\ n = Len(T)
          /\ ho = ags.header_offset /\ lens = ags.length
    OBVIOUS
  <2>3. /\ n \in Nat /\ filecount = n /\ H \in Nat /\ Len(header) = H /\ ho \in Nat
        /\ lens \in Seq(Nat) /\ Len(lens) = n
    BY <2>1, <2>2, Known
  <2>4. /\ IsSeq(p) /\ InPlace(ags, p, copied, n) /\ Tiled(T, ags)
        /\ Len(p) = ho + H + Before(lens, n) + 12 + (IF ags.libversion >= 30 THEN 8 ELSE 4)
    <3>1. /\ Reached(T, ss.ssize, i, ssoff, p, fd, copied) /\ Tiled(T, ags)
          /\ Whole(T, ags, i, p, copied)
      BY <2>1, <2>2 DEF Packing
    <3> QED BY <2>2, <3>1 DEF Reached, Whole, EndOf
  <2>5. Len(pack) = ags.header_offset + Len(header) + Total(ags.length)
                      + 12 + (IF myversion = 30 THEN 8 ELSE 4)
    <3>1. Before(lens, n) = Total(ags.length)
      BY <2>2, <2>3, Sums
    <3>2. myversion = 30 <=> ags.libversion >= 30
      BY DEF myversion
    <3> QED BY <2>2, <2>3, <2>4, <3>1, <3>2
  <2>6. ASSUME NEW k \in 1..filecount,
               NEW at, at = ags.header_offset + ags.offset[k]
        PROVE  SubSeq(pack, at + 1, at + ags.length[k]) = copied[k]
    <3>1. k \in 1..n /\ k \in 0..n /\ n \in 0..n /\ k - 1 \in 0..n - 1 /\ k - 1 \in 0..n
          /\ (k - 1) + 1 = k /\ k <= n
      BY <2>3
    <3>2. PICK x \in Nat, y \in Nat, z \in Nat, l \in Nat :
            /\ x = Before(lens, k - 1) /\ y = Before(lens, k) /\ z = Before(lens, n)
            /\ l = lens[k]
      BY <2>3, <3>1, Sums, ElementOfSeq
    <3>3. y = x + l /\ y <= z
      <4>1. Before(lens, (k - 1) + 1) = Before(lens, k - 1) + lens[(k - 1) + 1]
        BY <2>3, <3>1, Sums
      <4>2. y = x + l
        BY <3>1, <3>2, <4>1
      <4>3. y <= z
        BY <2>3, <3>1, <3>2, SumsGrow
      <4> QED BY <4>2, <4>3
    <3>4. at = ho + (H + x)
      BY <2>2, <2>4, <2>6, <3>1, <3>2 DEF Tiled
    <3>5. /\ IsSeq(copied[k]) /\ Len(copied[k]) = l
          /\ \A j \in 1..l : p[at + j] = copied[k][j]
      BY <2>2, <2>4, <2>6, <3>1, <3>2 DEF InPlace
    <3>6. PICK a \in Nat, len \in Nat : a = at /\ len = Len(p)
      <4>1. at \in Nat
        BY <2>3, <3>2, <3>4, SMTT(30)
      <4>2. Len(p) \in Nat
        BY <2>4, Lengths
      <4> QED BY <4>1, <4>2
    <3>7. a + l <= len /\ a + 1 \in Nat \ {0} /\ a + l \in Nat
      <4>1. PICK w \in Nat : w = IF ags.libversion >= 30 THEN 8 ELSE 4
        OBVIOUS
      <4>2. len = ho + H + z + 12 + w
        BY <2>4, <3>2, <3>6, <4>1
      <4>3. PICK hh \in Nat, o \in Nat : hh = H /\ o = ho
        BY <2>3
      <4>4. a = o + (hh + x) /\ len = o + hh + z + 12 + w /\ x + l <= z
        BY <3>3, <3>4, <3>6, <4>2, <4>3
      <4>5. a + l <= len
        BY <4>4
      <4> QED BY <4>5
    <3>8. PICK s : s = SubSeq(p, a + 1, a + l)
      OBVIOUS
    <3>9. PartOf(s, p, a + 1, a + l)
      BY <2>4, <3>6, <3>7, <3>8, Part
    <3>10. /\ IsSeq(s) /\ Len(s) = IF a + 1 <= a + l THEN a + l - (a + 1) + 1 ELSE 0
           /\ \A j \in 1..a + l - (a + 1) + 1 : s[j] = p[a + 1 + j - 1]
      BY <3>9 DEF PartOf
    <3>11. Len(s) = l /\ a + l - (a + 1) + 1 = l
      BY <3>10
    <3>12. ASSUME NEW j \in 1..l PROVE s[j] = copied[k][j]
      <4>1. a + 1 + j - 1 = a + j
        OBVIOUS
      <4>2. s[j] = p[a + j]
        BY <3>10, <3>11, <4>1
      <4> QED BY <3>5, <3>6, <4>2
    <3>13. s = copied[k]
      BY <3>5, <3>10, <3>11, <3>12, SameSeq
    <3> QED BY <2>2, <3>2, <3>6, <3>8, <3>13
  <2> QED BY <2>5, <2>6 DEF OffsetsTile
<1> QED BY <1>1, PackInv, PTL

\* While the first pack is made the running offset of the names is in the store and
\* ends where they end, the arrays have an entry for each name, and what is written
\* next is written in the pack or right behind it.
THEOREM PackTyped == Spec => [](pass = 1 /\ pc # "extract" => TypeOK)
<1>1. IInv => (pass = 1 /\ pc # "extract" => TypeOK)
  <2> SUFFICES ASSUME IInv, pass = 1, pc # "extract" PROVE TypeOK
    OBVIOUS
  <2>1. PICK T, O : Packing(T, O)
    BY DEF IInv
  <2>2. /\ Reached(T, ss.ssize, i, ssoff, pack, fd, copied) /\ Listed(T, O, ss, ags)
        /\ pc \in {"info", "stub", "header", "files", "packed", "failed", "overrun"}
        /\ pc = "files" => Copying(T, O, ss.ssize, ags, i, ssoff, pack, fd, copied)
    BY <2>1 DEF Packing
  <2>3. filecount = Len(T) /\ Len(O) = Len(T) /\ Len(T) \in Nat
    BY <2>1, <2>2, Known DEF Listed, Strings
  <2>4. /\ i \in 1..filecount + 1 /\ ssoff \in 0..ss.ssize /\ fd \in 0..Len(pack)
        /\ Len(ags.length) = filecount /\ Len(ags.offset) = filecount
    BY <2>2, <2>3 DEF Reached, Listed
  <2>5. pc = "files" /\ i > filecount => ssoff = ss.ssize
    <3>1. i > filecount => ~(i <= Len(O))
      BY <2>3, <2>4
    <3> QED BY <2>2, <3>1 DEF Copying, Start
  <2>6. pc \in {"info", "stub", "header", "files", "packed", "extract", "failed", "overrun"}
        /\ (pc \in {"files", "extract"} /\ i > filecount => ssoff = ss.ssize)
    BY <2>2, <2>5
  <2> QED BY <2>4, <2>6 DEF TypeOK
<1> QED BY <1>1, PackInv, PTL
=============================================================================
