---------------------------- MODULE SpritesProofs ----------------------------
(***************************************************************************)
(* Theorems about agsprite.  Nothing of a 16 bit colour is lost in a targa *)
(* file; the run-length codecs give back every picture they were given,    *)
(* and the one of targa files writes no more than it allocates; the        *)
(* offsets found are those of the slots; what was packed is extracted.     *)
(***************************************************************************)
EXTENDS Sprites, SequenceTheorems, WellFoundedInduction, TLAPS

-----------------------------------------------------------------------------
(* Colours                                                                 *)

\* rgb565_to_888 gives bytes, as raw24_to_ags16 expects them ...
LEMMA Bytes888 ==
  ASSUME NEW lo \in Byte, NEW hi \in Byte
  PROVE  blue888(lo) \in Byte /\ green888(lo, hi) \in Byte /\ red888(hi) \in Byte
<1>1. blue888(lo) \in Byte
  BY SMT DEF blue888, Byte
<1>2. green888(lo, hi) \in Byte
  BY SMT DEF green888, Byte
<1>3. red888(hi) \in Byte
  BY SMT DEF red888, Byte
<1> QED BY <1>1, <1>2, <1>3

\* ... in the form is_upscaled_16bit looks for ...
LEMMA Upscaled ==
  ASSUME NEW lo \in Byte, NEW hi \in Byte
  PROVE  /\ blue888(lo) % 8 = blue888(lo) \div 32
         /\ green888(lo, hi) % 4 = green888(lo, hi) \div 64
         /\ red888(hi) % 8 = red888(hi) \div 32
<1>1. blue888(lo) % 8 = blue888(lo) \div 32
  BY SMT DEF blue888, Byte
<1>2. green888(lo, hi) % 4 = green888(lo, hi) \div 64
  BY SMT DEF green888, Byte
<1>3. red888(hi) % 8 = red888(hi) \div 32
  BY SMT DEF red888, Byte
<1> QED BY <1>1, <1>2, <1>3

\* ... and rawx_to_ags16 makes the same bytes of them.
LEMMA Back565 ==
  ASSUME NEW lo \in Byte, NEW hi \in Byte
  PROVE  /\ low565(blue888(lo), green888(lo, hi)) = lo
         /\ high565(green888(lo, hi), red888(hi)) = hi
<1>1. low565(blue888(lo), green888(lo, hi)) = lo
  BY SMT DEF low565, blue888, green888, Byte
<1>2. high565(green888(lo, hi), red888(hi)) = hi
  BY SMTT(60) DEF high565, green888, red888, Byte
<1> QED BY <1>1, <1>2

\* A 16 bit sprite that was written to a targa file with 24 bit is recognised as
\* one (is_upscaled_16bit) and gets its own bytes back (raw24_to_ags16): this is
\* what the repacking of 16 bit sprites rests on.
THEOREM Round565 ==
  ASSUME NEW lo \in Byte, NEW hi \in Byte
  PROVE  /\ is_upscaled_16bit(rgb565_to_888(<<lo, hi>>))
         /\ rawx_to_ags16(rgb565_to_888(<<lo, hi>>)) = <<lo, hi>>
<1>1. is_upscaled_16bit(rgb565_to_888(<<lo, hi>>))
  BY Upscaled DEF is_upscaled_16bit, rgb565_to_888
<1>2. rawx_to_ags16(rgb565_to_888(<<lo, hi>>)) = <<lo, hi>>
  BY Back565 DEF rawx_to_ags16, rgb565_to_888
<1> QED BY <1>1, <1>2

\* The bytes of a reduced colour ...
LEMMA Bytes565 ==
  ASSUME NEW b \in Byte, NEW g \in Byte, NEW r \in Byte
  PROVE  low565(b, g) \in Byte /\ high565(g, r) \in Byte
<1>1. low565(b, g) \in Byte
  BY SMT DEF low565, Byte
<1>2. high565(g, r) \in Byte
  BY SMT DEF high565, Byte
<1> QED BY <1>1, <1>2

\* Green is put together from two bytes ...
LEMMA GreenParts ==
  ASSUME NEW lo \in Byte, NEW hi \in Byte, NEW u \in 0..7, NEW l \in 0..7,
         lo \div 32 = l, hi % 8 = u
  PROVE  green888(lo, hi) \div 4 = 8 * u + l
<1>1. green888(lo, hi) = 32 * u + 4 * l + (u \div 2)
  BY SMT DEF green888, Byte
<1>2. u \div 2 \in 0..3
  BY SMT
<1> QED BY <1>1, <1>2, SMT

\* ... and so is what the bytes show.
LEMMA UpperBits ==
  ASSUME NEW b \in Byte, NEW g \in Byte, NEW r \in Byte
  PROVE  /\ blue888(low565(b, g)) \div 8 = b \div 8
         /\ green888(low565(b, g), high565(g, r)) \div 4 = g \div 4
         /\ red888(high565(g, r)) \div 8 = r \div 8
<1>1. blue888(low565(b, g)) \div 8 = b \div 8
  BY SMT DEF blue888, low565, Byte
<1>2. green888(low565(b, g), high565(g, r)) \div 4 = g \div 4
  <2>1. PICK u \in 0..7, l \in 0..7, rest \in 0..3 : g = 32 * u + 4 * l + rest
    <3>1. g = 32 * (g \div 32) + 4 * ((g \div 4) % 8) + (g % 4)
      BY SMT DEF Byte
    <3>2. g \div 32 \in 0..7 /\ (g \div 4) % 8 \in 0..7 /\ g % 4 \in 0..3
      BY SMT DEF Byte
    <3> QED BY <3>1, <3>2
  <2>2. low565(b, g) \div 32 = l
    BY <2>1, SMT DEF low565, Byte
  <2>3. high565(g, r) % 8 = u
    BY <2>1, SMT DEF high565, Byte
  <2>4. green888(low565(b, g), high565(g, r)) \div 4 = 8 * u + l
    BY <2>2, <2>3, Bytes565, GreenParts
  <2>5. g \div 4 = 8 * u + l
    BY <2>1, SMT
  <2> QED BY <2>4, <2>5
<1>3. red888(high565(g, r)) \div 8 = r \div 8
  BY SMT DEF red888, high565, Byte
<1> QED BY <1>1, <1>2, <1>3

\* A colour that is reduced to 16 bit (options h and H) keeps its upper bits, and
\* reducing it again changes nothing: extracting and packing with these options
\* any number of times gives the sprite the first time gave.
THEOREM Reduced565 ==
  ASSUME NEW b \in Byte, NEW g \in Byte, NEW r \in Byte, NEW q, NEW p,
         q = rawx_to_ags16(<<b, g, r>>), p = rgb565_to_888(q)
  PROVE  /\ p[1] \div 8 = b \div 8 /\ p[2] \div 4 = g \div 4 /\ p[3] \div 8 = r \div 8
         /\ rawx_to_ags16(p) = q
<1>1. q = <<low565(b, g), high565(g, r)>>
  BY DEF rawx_to_ags16
<1>2. p = <<blue888(low565(b, g)), green888(low565(b, g), high565(g, r)), red888(high565(g, r))>>
  BY <1>1 DEF rgb565_to_888
<1>3. p[1] \div 8 = b \div 8 /\ p[2] \div 4 = g \div 4 /\ p[3] \div 8 = r \div 8
  BY <1>2, UpperBits
<1>4. rawx_to_ags16(p) = q
  BY <1>1, Bytes565, Round565
<1> QED BY <1>3, <1>4

-----------------------------------------------------------------------------
(* Sequences                                                               *)

IsSeq(s) == s \in Seq(Range(s))

LEMMA Induction ==
  ASSUME NEW S \in SUBSET Nat, 0 \in S, \A n \in S : n + 1 \in S
  PROVE  S = Nat
<1> DEFINE R == OpToRel(<, Nat)
           Rest == Nat \ S
<1>1. IsWellFoundedOn(R, Nat)
  BY NatLessThanWellFounded
<1>2. ASSUME Rest # {} PROVE FALSE
  <2>1. PICK x \in Rest : \A y \in Rest : ~ (<<y, x>> \in R)
    <3> HIDE DEF R
    <3> QED BY <1>1, <1>2, WFMin
  <2>2. x \in Nat /\ x # 0 /\ x - 1 \in Nat /\ (x - 1) + 1 = x
    OBVIOUS
  <2>3. x - 1 \in Rest
    BY <2>2
  <2>4. ~(x - 1 < x)
    <3>1. ~ (<<x - 1, x>> \in R)
      BY <2>1, <2>3
    <3> QED BY <2>2, <3>1 DEF OpToRel
  <2> QED BY <2>2, <2>4
<1> QED BY <1>2

LEMMA EmptyList == IsSeq(<<>>) /\ Len(<<>>) = 0
<1>1. <<>> \in Seq({})
  BY EmptySeq
<1> QED BY <1>1, SeqOfRange, EmptySeq DEF IsSeq

LEMMA Longer ==
  ASSUME NEW s, IsSeq(s), NEW x
  PROVE  /\ IsSeq(Append(s, x)) /\ Len(s) \in Nat /\ Len(Append(s, x)) = Len(s) + 1
         /\ \A k \in 1..Len(s) : Append(s, x)[k] = s[k]
         /\ Append(s, x)[Len(s) + 1] = x
<1> DEFINE S == Range(s) \cup {x}
<1>1. s \in Seq(S) /\ x \in S
  <2>1. s \in Seq(Range(s)) /\ Range(s) \subseteq S
    BY DEF IsSeq
  <2> HIDE DEF S
  <2>2. s \in Seq(S)
    BY <2>1, SeqMonotonic
  <2> QED BY <2>2 DEF S
<1> HIDE DEF S
<1>2. Append(s, x) \in Seq(S)
  BY <1>1, AppendProperties
<1>3. IsSeq(Append(s, x))
  BY <1>2, SeqOfRange DEF IsSeq
<1>4. Len(s) \in Nat
  BY <1>1, LenProperties
<1> QED BY <1>1, <1>3, <1>4, AppendProperties

LEMMA OneOrTwo ==
  ASSUME NEW x, NEW y
  PROVE  IsSeq(<<x>>) /\ Len(<<x>>) = 1 /\ IsSeq(<<x, y>>) /\ Len(<<x, y>>) = 2
<1>1. <<x>> \in Seq({x}) /\ <<x, y>> \in Seq({x, y})
  OBVIOUS
<1>2. IsSeq(<<x>>) /\ IsSeq(<<x, y>>)
  BY <1>1, SeqOfRange DEF IsSeq
<1> QED BY <1>2

\* Sequences built element by element, and taken from others.
LEMMA Numbered ==
  ASSUME NEW n \in Nat, NEW f, f = [k \in 1..n |-> f[k]]
  PROVE  IsSeq(f) /\ Len(f) = n
<1> DEFINE S == {f[k] : k \in 1..n}
<1>1. f \in [1..n -> S]
  OBVIOUS
<1>2. f \in Seq(S)
  BY <1>1, SeqDef
<1>3. Len(f) = n
  BY <1>1, <1>2, LenProperties
<1> QED BY <1>2, <1>3, SeqOfRange DEF IsSeq

LEMMA Lengths ==
  ASSUME NEW s, IsSeq(s)
  PROVE  Len(s) \in Nat /\ s = [k \in 1..Len(s) |-> s[k]]
<1>1. s \in Seq(Range(s))
  BY DEF IsSeq
<1>2. Len(s) \in Nat /\ s \in [1..Len(s) -> Range(s)]
  BY <1>1, LenProperties
<1> QED BY <1>2

LEMMA SameSeq ==
  ASSUME NEW s, IsSeq(s), NEW t, IsSeq(t), Len(s) = Len(t),
         \A k \in 1..Len(s) : s[k] = t[k]
  PROVE  s = t
<1>1. s = [k \in 1..Len(s) |-> s[k]] /\ t = [k \in 1..Len(t) |-> t[k]]
  BY Lengths
<1> QED BY <1>1

Joins(c, s, t) ==
  /\ IsSeq(c) /\ Len(c) = Len(s) + Len(t)
  /\ \A k \in 1..Len(s) : c[k] = s[k]
  /\ \A k \in 1..Len(t) : c[Len(s) + k] = t[k]

LEMMA Joined ==
  ASSUME NEW s, IsSeq(s), NEW t, IsSeq(t)
  PROVE  Joins(s \o t, s, t)
<1> DEFINE S == Range(s) \cup Range(t)
<1>1. s \in Seq(S) /\ t \in Seq(S)
  <2>1. s \in Seq(Range(s)) /\ Range(s) \subseteq S /\ t \in Seq(Range(t)) /\ Range(t) \subseteq S
    BY DEF IsSeq
  <2> HIDE DEF S
  <2> QED BY <2>1, SeqMonotonic
<1> HIDE DEF S
<1>2. s \o t \in Seq(S)
  BY <1>1, ConcatProperties
<1>3. IsSeq(s \o t)
  BY <1>2, SeqOfRange DEF IsSeq
<1>4. Len(s) \in Nat /\ Len(t) \in Nat
  BY <1>1, LenProperties
<1>5. /\ Len(s \o t) = Len(s) + Len(t)
      /\ \A k \in 1..Len(s) + Len(t) : (s \o t)[k] = IF k <= Len(s) THEN s[k] ELSE t[k - Len(s)]
  BY <1>1, ConcatProperties
<1>6. \A k \in 1..Len(s) : (s \o t)[k] = s[k]
  BY <1>4, <1>5
<1>7. ASSUME NEW k \in 1..Len(t) PROVE (s \o t)[Len(s) + k] = t[k]
  <2>1. PICK n \in Nat, m \in Nat : n = Len(s) /\ m = Len(t)
    BY <1>4
  <2>2. n + k \in 1..n + m /\ ~(n + k <= n) /\ (n + k) - n = k
    BY <2>1
  <2> QED BY <1>5, <2>1, <2>2
<1> QED BY <1>3, <1>4, <1>5, <1>6, <1>7 DEF Joins

\* The part of a sequence from one place to another, which may be empty.
PartOf(p, s, m, n) ==
  /\ IsSeq(p) /\ Len(p) = IF m <= n THEN n - m + 1 ELSE 0
  /\ \A k \in 1..n - m + 1 : p[k] = s[m + k - 1]

LEMMA Part ==
  ASSUME NEW s, IsSeq(s), NEW m \in Nat \ {0}, NEW n \in Nat, n <= Len(s)
  PROVE  PartOf(SubSeq(s, m, n), s, m, n)
<1>1. s \in Seq(Range(s)) /\ Len(s) \in Nat
  BY Lengths DEF IsSeq
<1>2. \A k \in m..n : s[k] \in Range(s)
  BY <1>1, ElementOfSeq
<1>3. SubSeq(s, m, n) \in Seq(Range(s))
  BY <1>2, SubSeqProperties
<1>4. /\ Len(SubSeq(s, m, n)) = IF m <= n THEN n - m + 1 ELSE 0
      /\ \A k \in 1..n - m + 1 : SubSeq(s, m, n)[k] = s[m + k - 1]
  BY <1>2, SubSeqProperties
<1> QED BY <1>3, <1>4, SeqOfRange DEF IsSeq, PartOf

\* The least of some numbers.
LEMMA MinIs ==
  ASSUME NEW S \in SUBSET Nat, S # {}
  PROVE  Min(S) \in S /\ \A y \in S : Min(S) <= y
<1> DEFINE R == OpToRel(<, Nat)
<1>1. IsWellFoundedOn(R, Nat)
  BY NatLessThanWellFounded
<1>2. PICK x \in S : \A y \in S : ~ (<<y, x>> \in R)
  <2> HIDE DEF R
  <2> QED BY <1>1, WFMin
<1>3. \A y \in S : x <= y
  <2> SUFFICES ASSUME NEW y \in S PROVE ~(y < x)
    OBVIOUS
  <2>1. ~(<<y, x>> \in R)
    BY <1>2
  <2> QED BY <2>1 DEF OpToRel
<1> QED BY <1>3 DEF Min

-----------------------------------------------------------------------------
(* Sequences that are made a chunk and the rest at a time                  *)

\* f makes, of each place d, the chunk there and those of the places behind it;
\* mu tells how much is left behind a place.
Chunked(f, D, mu, c, nx) ==
  f = [d \in D |-> IF mu[d] = 0 THEN <<>> ELSE <<c[d]>> \o f[nx[d]]]

Advances(D, mu, nx) ==
  /\ mu \in [D -> Nat] /\ nx \in [D -> D]
  /\ \A d \in D : mu[d] # 0 => mu[nx[d]] < mu[d]

LEMMA ChunkedExists ==
  ASSUME NEW D, NEW mu, NEW c, NEW nx, Advances(D, mu, nx),
         NEW M \in Nat, \A d \in D : mu[d] <= M
  PROVE  \E f : Chunked(f, D, mu, c, nx)
<1> DEFINE Near(m) == {d \in D : mu[d] <= m}
           Has(m) == \E f : f = [d \in Near(m) |-> IF mu[d] = 0 THEN <<>> ELSE <<c[d]>> \o f[nx[d]]]
           S == {m \in Nat : Has(m)}
<1>1. \A d \in D : mu[d] \in Nat /\ nx[d] \in D /\ (mu[d] # 0 => mu[nx[d]] < mu[d])
  BY DEF Advances
<1>2. Has(0)
  <2> DEFINE f == [d \in Near(0) |-> <<>>]
  <2>1. \A d \in Near(0) : mu[d] = 0
    BY <1>1
  <2>2. f = [d \in Near(0) |-> IF mu[d] = 0 THEN <<>> ELSE <<c[d]>> \o f[nx[d]]]
    BY <2>1
  <2> QED BY <2>2
<1>3. ASSUME NEW m \in Nat, Has(m) PROVE Has(m + 1)
  <2>1. PICK f : f = [d \in Near(m) |-> IF mu[d] = 0 THEN <<>> ELSE <<c[d]>> \o f[nx[d]]]
    BY <1>3
  <2> DEFINE g == [d \in Near(m + 1) |-> IF mu[d] <= m THEN f[d] ELSE <<c[d]>> \o f[nx[d]]]
  <2>2. ASSUME NEW d \in Near(m + 1)
        PROVE  g[d] = IF mu[d] = 0 THEN <<>> ELSE <<c[d]>> \o g[nx[d]]
    <3>1. d \in D /\ mu[d] \in Nat /\ mu[d] <= m + 1
      BY <1>1
    <3>2. CASE mu[d] = 0
      <4>1. d \in Near(m) /\ mu[d] <= m
        BY <3>1, <3>2
      <4>2. f[d] = <<>>
        BY <2>1, <3>2, <4>1
      <4> QED BY <3>2, <4>1, <4>2
    <3>3. CASE mu[d] # 0
      <4>1. nx[d] \in D /\ mu[nx[d]] \in Nat /\ mu[nx[d]] < mu[d]
        BY <1>1, <3>1, <3>3
      <4>2. mu[nx[d]] <= m /\ nx[d] \in Near(m + 1)
        BY <3>1, <4>1
      <4>3. g[nx[d]] = f[nx[d]]
        BY <4>2
      <4>4. CASE mu[d] <= m
        <5>1. f[d] = <<c[d]>> \o f[nx[d]]
          BY <2>1, <3>1, <3>3, <4>4
        <5>2. g[d] = f[d]
          BY <4>4
        <5> QED BY <3>3, <4>3, <5>1, <5>2
      <4>5. CASE ~(mu[d] <= m)
        <5>1. g[d] = <<c[d]>> \o f[nx[d]]
          BY <4>5
        <5> QED BY <3>3, <4>3, <5>1
      <4> QED BY <4>4, <4>5
    <3> QED BY <3>2, <3>3
  <2>3. g = [d \in Near(m + 1) |-> IF mu[d] = 0 THEN <<>> ELSE <<c[d]>> \o g[nx[d]]]
    BY <2>2
  <2> HIDE DEF g
  <2> QED BY <2>3
<1> HIDE DEF Has
<1>4. S = Nat
  <2>1. S \in SUBSET Nat
    OBVIOUS
  <2>2. 0 \in S /\ \A m \in S : m + 1 \in S
    BY <1>2, <1>3
  <2> HIDE DEF S
  <2> QED BY <2>1, <2>2, Induction
<1>5. Has(M)
  BY <1>4
<1>6. Near(M) = D
  OBVIOUS
<1> QED BY <1>5, <1>6 DEF Has, Chunked

\* The places e the chunks s of place d are made at: each is behind the one before,
\* and behind the last nothing is left.
Path(e, s, d, D, mu, c, nx) ==
  /\ IsSeq(s) /\ e \in [1..Len(s) + 1 -> D] /\ e[1] = d /\ mu[e[Len(s) + 1]] = 0
  /\ \A k \in 1..Len(s) : mu[e[k]] # 0 /\ e[k + 1] = nx[e[k]] /\ s[k] = c[e[k]]

LEMMA PathOf ==
  ASSUME NEW D, NEW mu, NEW c, NEW nx, Advances(D, mu, nx),
         NEW f, Chunked(f, D, mu, c, nx), NEW d0 \in D
  PROVE  \E e : Path(e, f[d0], d0, D, mu, c, nx)
<1> DEFINE Has(d) == \E e : Path(e, f[d], d, D, mu, c, nx)
           S == {m \in Nat : \A d \in D : mu[d] <= m => Has(d)}
<1>1. \A d \in D : mu[d] \in Nat /\ nx[d] \in D /\ (mu[d] # 0 => mu[nx[d]] < mu[d])
  BY DEF Advances
<1>2. ASSUME NEW d \in D, mu[d] = 0 PROVE Has(d)
  <2>1. f[d] = <<>>
    BY <1>2 DEF Chunked
  <2> DEFINE e == [k \in 1..1 |-> d]
  <2>2. IsSeq(<<>>) /\ Len(<<>>) = 0
    BY EmptyList
  <2>3. 1 \in 1..1 /\ 1..0 = {} /\ 0 + 1 = 1
    OBVIOUS
  <2>4. e \in [1..Len(<<>>) + 1 -> D] /\ e[1] = d /\ mu[e[Len(<<>>) + 1]] = 0
    BY <1>2, <2>2, <2>3
  <2> HIDE DEF e
  <2>5. Path(e, f[d], d, D, mu, c, nx)
    BY <2>1, <2>2, <2>3, <2>4 DEF Path
  <2> QED BY <2>5
<1>3. ASSUME NEW d \in D, mu[d] # 0, Has(nx[d]) PROVE Has(d)
  <2>1. PICK t, a : /\ t = f[nx[d]] /\ Path(a, t, nx[d], D, mu, c, nx)
    BY <1>3
  <2>2. PICK s : s = f[d] /\ s = <<c[d]>> \o t
    BY <1>3, <2>1 DEF Chunked
  <2>3. IsSeq(t) /\ a \in [1..Len(t) + 1 -> D] /\ a[1] = nx[d] /\ mu[a[Len(t) + 1]] = 0
        /\ \A k \in 1..Len(t) : mu[a[k]] # 0 /\ a[k + 1] = nx[a[k]] /\ t[k] = c[a[k]]
    BY <2>1 DEF Path
  <2>4. PICK n \in Nat : n = Len(t)
    BY <2>3, Lengths
  <2>5. IsSeq(s) /\ Len(s) = n + 1 /\ s[1] = c[d] /\ \A k \in 1..n : s[k + 1] = t[k]
    <3>1. IsSeq(<<c[d]>>) /\ Len(<<c[d]>>) = 1 /\ <<c[d]>>[1] = c[d]
      BY OneOrTwo
    <3>2. Joins(s, <<c[d]>>, t)
      BY <2>2, <2>3, <3>1, Joined
    <3>3. IsSeq(s) /\ Len(s) = 1 + n /\ (\A k \in 1..1 : s[k] = <<c[d]>>[k])
          /\ \A k \in 1..n : s[1 + k] = t[k]
      BY <2>4, <3>1, <3>2 DEF Joins
    <3>4. 1 \in 1..1 /\ \A k \in 1..n : 1 + k = k + 1
      OBVIOUS
    <3> QED BY <3>1, <3>3, <3>4
  <2> DEFINE e == [k \in 1..n + 2 |-> IF k = 1 THEN d ELSE a[k - 1]]
  <2>6. /\ e \in [1..Len(s) + 1 -> D] /\ e[1] = d /\ e[Len(s) + 1] = a[n + 1]
        /\ \A k \in 1..n + 1 : e[k + 1] = a[k]
    <3>1. (n + 1) + 1 = n + 2 /\ n + 2 # 1 /\ (n + 2) - 1 = n + 1 /\ n + 2 \in 1..n + 2
          /\ 1 \in 1..n + 2
      OBVIOUS
    <3>2. \A k \in 1..n + 2 : k # 1 => k - 1 \in 1..n + 1
      OBVIOUS
    <3>3. \A k \in 1..n + 1 : k + 1 \in 1..n + 2 /\ k + 1 # 1 /\ (k + 1) - 1 = k
      OBVIOUS
    <3>4. \A k \in 1..n + 2 : e[k] \in D
      BY <2>3, <2>4, <3>2
    <3> QED BY <2>3, <2>4, <2>5, <3>1, <3>3, <3>4
  <2> HIDE DEF e
  <2>7. ASSUME NEW k \in 1..Len(s)
        PROVE  mu[e[k]] # 0 /\ e[k + 1] = nx[e[k]] /\ s[k] = c[e[k]]
    <3>1. CASE k = 1
      <4>1. 1 \in 1..n + 1
        OBVIOUS
      <4> QED BY <1>3, <2>3, <2>5, <2>6, <3>1, <4>1
    <3>2. CASE k # 1
      <4>1. PICK j \in 1..n : k = j + 1
        <5>1. k - 1 \in 1..n /\ k = (k - 1) + 1
          BY <2>5, <3>2
        <5> QED BY <5>1
      <4>2. j \in 1..n + 1 /\ j + 1 \in 1..n + 1
        OBVIOUS
      <4>3. e[k] = a[j] /\ e[k + 1] = a[j + 1] /\ s[k] = t[j]
        BY <2>5, <2>6, <4>1, <4>2
      <4> QED BY <2>3, <2>4, <4>3
    <3> QED BY <3>1, <3>2
  <2>8. Path(e, s, d, D, mu, c, nx)
    BY <2>3, <2>4, <2>5, <2>6, <2>7 DEF Path
  <2> QED BY <2>2, <2>8
<1> HIDE DEF Has
<1>4. S = Nat
  <2>1. 0 \in S
    BY <1>1, <1>2
  <2>2. ASSUME NEW m \in S PROVE m + 1 \in S
    <3> SUFFICES ASSUME NEW d \in D, mu[d] <= m + 1 PROVE Has(d)
      OBVIOUS
    <3>1. CASE mu[d] = 0
      BY <1>2, <3>1
    <3>2. CASE mu[d] # 0
      <4>1. nx[d] \in D /\ mu[nx[d]] <= m
        BY <1>1, <3>2
      <4>2. Has(nx[d])
        BY <4>1
      <4> QED BY <1>3, <3>2, <4>2
    <3> QED BY <3>1, <3>2
  <2>3. S \in SUBSET Nat
    OBVIOUS
  <2> HIDE DEF S
  <2> QED BY <2>1, <2>2, <2>3, Induction
<1>5. mu[d0] \in S
  BY <1>1, <1>4
<1>6. Has(d0)
  BY <1>1, <1>5
<1> QED BY <1>6 DEF Has

-----------------------------------------------------------------------------
(* rle_encode.  A place is a pixel and whether a repetition has just ended. *)

LastOf(px, q) == IF Len(px) + 1 - q < 128 THEN Len(px) + 1 - q ELSE 128

LEMMA LastIs ==
  ASSUME NEW px, IsSeq(px), NEW q \in 1..Len(px)
  PROVE  /\ Len(px) \in Nat /\ LastOf(px, q) \in 1..128 /\ q + LastOf(px, q) <= Len(px) + 1
         /\ Min({128, Len(px) + 1 - q}) = LastOf(px, q)
         /\ LastOf(px, q) = 128 \/ q + LastOf(px, q) = Len(px) + 1
<1>1. PICK n \in Nat : n = Len(px)
  BY Lengths
<1>2. q \in 1..n
  BY <1>1
<1>3. n + 1 - q \in Nat \ {0}
  BY <1>2
<1> DEFINE S == {128, n + 1 - q}
<1>4. S \in SUBSET Nat /\ S # {}
  BY <1>3
<1>5. PICK m \in S : m = Min(S) /\ \A y \in S : m <= y
  <2> HIDE DEF S
  <2> QED BY <1>4, MinIs
<1>6. m <= 128 /\ m <= n + 1 - q /\ (m = 128 \/ m = n + 1 - q)
  BY <1>5
<1>7. m = IF n + 1 - q < 128 THEN n + 1 - q ELSE 128
  BY <1>3, <1>6
<1>8. m = LastOf(px, q)
  BY <1>1, <1>7 DEF LastOf
<1>9. m \in 1..128 /\ q + m <= n + 1 /\ (m = 128 \/ q + m = n + 1)
  BY <1>2, <1>3, <1>6
<1> HIDE DEF S
<1>10. Min({128, Len(px) + 1 - q}) = m
  BY <1>1, <1>5 DEF S
<1> QED BY <1>1, <1>8, <1>9, <1>10

\* Where a series and where a repetition of the n pixels ends.
SeriesAt(px, n, q, c) ==
  /\ c \in 1..128 /\ q + c <= n + 1
  /\ c = 128 \/ q + c = n + 1 \/ (q + c < n /\ px[q + c] = px[q + c + 1])
RepAt(px, n, q, c) ==
  /\ c \in 1..128 /\ q + c <= n + 1
  /\ c = 128 \/ q + c = n + 1 \/ px[q + c] # px[q]
  /\ \A j \in 1..c - 1 : px[q + j] = px[q]
  /\ q < n /\ px[q] = px[q + 1] => c # 1

LEMMA SeriesEnd ==
  ASSUME NEW px, IsSeq(px), NEW n \in Nat, n = Len(px), NEW q \in 1..n
  PROVE  SeriesAt(px, n, q, series_end(px, q))
<1>1. PICK l \in 1..128 : /\ q + l <= n + 1 /\ (l = 128 \/ q + l = n + 1)
                          /\ Min({128, Len(px) + 1 - q}) = l
  BY LastIs, ZenonT(60)
<1> DEFINE S == {c \in 1..l : \/ c = l
                              \/ q + c < n /\ px[q + c] = px[q + c + 1]}
<1>2. series_end(px, q) = Min(S)
  BY <1>1 DEF series_end
<1>3. l \in S /\ S \in SUBSET Nat
  OBVIOUS
<1>4. Min(S) \in S
  <2> HIDE DEF S
  <2> QED BY <1>3, MinIs
<1>5. PICK c \in 1..l : c = Min(S) /\ (c = l \/ (q + c < n /\ px[q + c] = px[q + c + 1]))
  BY <1>4
<1>6. c \in 1..128 /\ q + c <= n + 1
  BY <1>1
<1>7. c = 128 \/ q + c = n + 1 \/ (q + c < n /\ px[q + c] = px[q + c + 1])
  BY <1>1, <1>5
<1> HIDE DEF S
<1>8. SeriesAt(px, n, q, c)
  BY <1>6, <1>7 DEF SeriesAt
<1> QED BY <1>2, <1>5, <1>8

LEMMA RepEnd ==
  ASSUME NEW px, IsSeq(px), NEW n \in Nat, n = Len(px), NEW q \in 1..n
  PROVE  RepAt(px, n, q, rep_end(px, q))
<1>1. PICK l \in 1..128 : /\ q + l <= n + 1 /\ (l = 128 \/ q + l = n + 1)
                          /\ Min({128, Len(px) + 1 - q}) = l
  BY LastIs, ZenonT(60)
<1> DEFINE S == {c \in 1..l : c = l \/ px[q + c] # px[q]}
<1>2. rep_end(px, q) = Min(S)
  BY <1>1 DEF rep_end
<1>3. l \in S /\ S \in SUBSET Nat
  OBVIOUS
<1>4. Min(S) \in S /\ \A y \in S : Min(S) <= y
  <2> HIDE DEF S
  <2> QED BY <1>3, MinIs
<1>5. PICK c \in 1..l : c = Min(S) /\ (c = l \/ px[q + c] # px[q])
  BY <1>4
<1>6. c \in 1..128 /\ q + c <= n + 1
  BY <1>1
<1>7. c = 128 \/ q + c = n + 1 \/ px[q + c] # px[q]
  BY <1>1, <1>5
<1>8. ASSUME NEW j \in 1..c - 1 PROVE px[q + j] = px[q]
  <2>1. j \in 1..l /\ ~(c <= j)
    OBVIOUS
  <2>2. j \notin S
    BY <1>4, <1>5, <2>1
  <2> QED BY <2>1, <2>2
<1>9. ASSUME q < n, px[q] = px[q + 1], c = 1 PROVE FALSE
  <2>1. l = 1
    BY <1>5, <1>9
  <2> QED BY <1>1, <1>9, <2>1
<1> HIDE DEF S
<1>10. RepAt(px, n, q, c)
  BY <1>6, <1>7, <1>8, <1>9 DEF RepAt
<1> QED BY <1>2, <1>5, <1>10

EncPlaces(n) == (1..n + 1) \X BOOLEAN
EncLeft(n) == [d \in EncPlaces(n) |-> n + 1 - d[1]]
EncRep(px, n, d) == ~d[2] /\ d[1] < n /\ px[d[1]] = px[d[1] + 1]
EncCount(px, n, d) == IF EncRep(px, n, d) THEN rep_end(px, d[1]) ELSE series_end(px, d[1])
EncChunk(px, n) ==
  [d \in EncPlaces(n) |->
     LET c == EncCount(px, n, d)
     IN IF EncRep(px, n, d) THEN Chunk(127 + c, <<px[d[1]]>>)
        ELSE Chunk(c - 1, SubSeq(px, d[1], d[1] + c - 1))]
EncNext(px, n) ==
  [d \in EncPlaces(n) |->
     LET c == EncCount(px, n, d)
     IN IF d[1] > n THEN d ELSE <<d[1] + c, EncRep(px, n, d) /\ c < 128>>]

LEMMA Counted ==
  ASSUME NEW px, IsSeq(px), NEW n \in Nat, n = Len(px), NEW q \in 1..n, NEW b \in BOOLEAN
  PROVE  \E c \in 1..128 :
           /\ c = EncCount(px, n, <<q, b>>) /\ q + c \in 1..n + 1
           /\ EncRep(px, n, <<q, b>>) => RepAt(px, n, q, c) /\ q < n /\ px[q] = px[q + 1] /\ ~b
           /\ ~EncRep(px, n, <<q, b>>) => SeriesAt(px, n, q, c)
<1>1. EncRep(px, n, <<q, b>>) <=> ~b /\ q < n /\ px[q] = px[q + 1]
  BY DEF EncRep
<1>2. CASE EncRep(px, n, <<q, b>>)
  <2>1. PICK c \in 1..128 : c = rep_end(px, q) /\ RepAt(px, n, q, c)
    <3>1. rep_end(px, q) \in 1..128
      BY RepEnd DEF RepAt
    <3> QED BY <3>1, RepEnd
  <2>2. c = EncCount(px, n, <<q, b>>)
    BY <1>2, <2>1 DEF EncCount
  <2>3. q + c <= n + 1
    BY <2>1 DEF RepAt
  <2>4. q + c \in 1..n + 1
    BY <2>3
  <2> QED BY <1>1, <1>2, <2>1, <2>2, <2>3, <2>4
<1>3. CASE ~EncRep(px, n, <<q, b>>)
  <2>1. PICK c \in 1..128 : c = series_end(px, q) /\ SeriesAt(px, n, q, c)
    <3>1. series_end(px, q) \in 1..128
      BY SeriesEnd DEF SeriesAt
    <3> QED BY <3>1, SeriesEnd
  <2>2. c = EncCount(px, n, <<q, b>>)
    BY <1>3, <2>1 DEF EncCount
  <2>3. q + c <= n + 1
    BY <2>1 DEF SeriesAt
  <2>4. q + c \in 1..n + 1
    BY <2>3
  <2> QED BY <1>3, <2>1, <2>2, <2>3, <2>4
<1> QED BY <1>2, <1>3

LEMMA EncAdvances ==
  ASSUME NEW px, IsSeq(px), NEW n \in Nat, n = Len(px)
  PROVE  Advances(EncPlaces(n), EncLeft(n), EncNext(px, n))
<1> DEFINE D == EncPlaces(n)
           mu == EncLeft(n)
           nx == EncNext(px, n)
<1>1. ASSUME NEW d \in D
      PROVE  mu[d] \in Nat /\ nx[d] \in D /\ (mu[d] # 0 => mu[nx[d]] < mu[d])
  <2>1. PICK q \in 1..n + 1, b \in BOOLEAN : d = <<q, b>>
    BY DEF EncPlaces
  <2>2. mu[d] = n + 1 - q /\ mu[d] \in Nat
    BY <2>1 DEF EncLeft, EncPlaces
  <2>3. CASE q = n + 1
    <3>1. nx[d] = d
      BY <2>1, <2>3 DEF EncNext
    <3> QED BY <2>2, <2>3, <3>1
  <2>4. CASE q # n + 1
    <3>1. q \in 1..n
      BY <2>4
    <3>2. PICK c \in 1..128 : c = EncCount(px, n, d) /\ q + c \in 1..n + 1
      BY <2>1, <3>1, Counted, ZenonT(60)
    <3>3. EncRep(px, n, d) \in BOOLEAN
      BY DEF EncRep
    <3>4. nx[d] = <<q + c, EncRep(px, n, d) /\ c < 128>>
      <4>1. ~(q > n)
        BY <3>1
      <4> QED BY <2>1, <3>2, <4>1 DEF EncNext
    <3>5. nx[d] \in D
      <4>1. <<q + c, EncRep(px, n, d) /\ c < 128>> \in D
        BY <3>2, <3>3 DEF EncPlaces
      <4> HIDE DEF D, nx
      <4> QED BY <3>4, <4>1
    <3>6. mu[nx[d]] = n + 1 - (q + c)
      BY <3>4, <3>5 DEF EncLeft
    <3>7. n + 1 - (q + c) < n + 1 - q
      OBVIOUS
    <3> QED BY <2>2, <3>5, <3>6, <3>7
  <2> QED BY <2>3, <2>4
<1>2. mu \in [D -> Nat] /\ nx \in [D -> D]
  <2>1. mu = [d \in D |-> mu[d]] /\ nx = [d \in D |-> nx[d]]
    BY DEF EncLeft, EncNext
  <2> HIDE DEF D, mu, nx
  <2> QED BY <1>1, <2>1
<1> QED BY <1>1, <1>2 DEF Advances

\* The stream of a picture is made along such a path.
LEMMA EncodePath ==
  ASSUME NEW px, IsSeq(px), NEW n \in Nat, n = Len(px)
  PROVE  \E e : Path(e, rle_encode(px), <<1, FALSE>>, EncPlaces(n), EncLeft(n),
                     EncChunk(px, n), EncNext(px, n))
<1> DEFINE D == EncPlaces(n)
           mu == EncLeft(n)
           ch == EncChunk(px, n)
           nx == EncNext(px, n)
           Made(f) == [at \in (1..n + 1) \X BOOLEAN |->
             LET q == at[1]
                 rep == ~at[2] /\ q < n /\ px[q] = px[q + 1]
                 c == IF rep THEN rep_end(px, q) ELSE series_end(px, q)
             IN IF q > n THEN <<>>
                ELSE <<IF rep THEN Chunk(127 + c, <<px[q]>>)
                              ELSE Chunk(c - 1, SubSeq(px, q, q + c - 1))>>
                       \o f[<<q + c, rep /\ c < 128>>]]
           E == CHOOSE f : f = Made(f)
<1>1. rle_encode(px) = E[<<1, FALSE>>]
  BY DEF rle_encode
<1>2. ASSUME NEW f PROVE Made(f) = [d \in D |-> IF mu[d] = 0 THEN <<>> ELSE <<ch[d]>> \o f[nx[d]]]
  <2>1. ASSUME NEW d \in D
        PROVE  Made(f)[d] = IF mu[d] = 0 THEN <<>> ELSE <<ch[d]>> \o f[nx[d]]
    <3>1. PICK q \in 1..n + 1, b \in BOOLEAN : d = <<q, b>>
      BY DEF EncPlaces
    <3>2. mu[d] = n + 1 - q
      BY <3>1 DEF EncLeft, EncPlaces
    <3>3. CASE q = n + 1
      <4>1. mu[d] = 0 /\ q > n
        BY <3>2, <3>3
      <4> QED BY <3>1, <4>1 DEF EncPlaces
    <3>4. CASE q # n + 1
      <4>1. mu[d] # 0 /\ ~(q > n)
        BY <3>2, <3>4
      <4> QED BY <3>1, <4>1 DEF EncPlaces, EncChunk, EncNext, EncCount, EncRep
    <3> QED BY <3>3, <3>4
  <2>2. Made(f) = [d \in D |-> Made(f)[d]]
    BY DEF EncPlaces
  <2> HIDE DEF Made, D, mu, ch, nx
  <2> QED BY <2>1, <2>2, SMTT(60)
<1>3. Advances(D, mu, nx)
  BY EncAdvances
<1>4. \A d \in D : mu[d] <= n
  <2> SUFFICES ASSUME NEW d \in D PROVE mu[d] <= n
    OBVIOUS
  <2>1. PICK q \in 1..n + 1, b \in BOOLEAN : d = <<q, b>>
    BY DEF EncPlaces
  <2>2. mu[d] = n + 1 - q
    BY <2>1 DEF EncLeft, EncPlaces
  <2> QED BY <2>2
<1>5. <<1, FALSE>> \in D
  <2>1. 1 \in 1..n + 1
    OBVIOUS
  <2> QED BY <2>1 DEF EncPlaces
<1> HIDE DEF D, mu, ch, nx, Made
<1>6. PICK g : Chunked(g, D, mu, ch, nx)
  BY <1>3, <1>4, ChunkedExists
<1>7. g = Made(g)
  BY <1>2, <1>6 DEF Chunked
<1>8. E = Made(E)
  BY <1>7
<1> HIDE DEF E
<1>9. Chunked(E, D, mu, ch, nx)
  BY <1>2, <1>8 DEF Chunked
<1>10. \E e : Path(e, E[<<1, FALSE>>], <<1, FALSE>>, D, mu, ch, nx)
  BY <1>3, <1>5, <1>9, PathOf
<1> QED BY <1>1, <1>10 DEF D, mu, ch, nx

\* From place q to place q2 with the chunk x.
EncStep(px, n, x, q, b, q2, b2) ==
  /\ q \in 1..n /\ q2 \in 1..n + 1 /\ b \in BOOLEAN /\ b2 \in BOOLEAN
  /\ \E c \in 1..128 :
       /\ q2 = q + c
       /\ \/ /\ ~b /\ q < n /\ px[q] = px[q + 1] /\ RepAt(px, n, q, c)
             /\ x = Chunk(127 + c, <<px[q]>>) /\ b2 = (c < 128)
          \/ /\ b \/ ~(q < n /\ px[q] = px[q + 1])
             /\ SeriesAt(px, n, q, c)
             /\ x = Chunk(c - 1, SubSeq(px, q, q + c - 1)) /\ b2 = FALSE

EncodedBy(px, n, s, L, Q, B) ==
  /\ IsSeq(s) /\ L = Len(s) /\ Q \in [1..L + 1 -> 1..n + 1] /\ B \in [1..L + 1 -> BOOLEAN]
  /\ Q[1] = 1 /\ Q[L + 1] = n + 1 /\ B[1] = FALSE
  /\ \A k \in 1..L : EncStep(px, n, s[k], Q[k], B[k], Q[k + 1], B[k + 1])

LEMMA OneStep ==
  ASSUME NEW px, IsSeq(px), NEW n \in Nat, n = Len(px), NEW q \in 1..n, NEW b \in BOOLEAN
  PROVE  EncStep(px, n, EncChunk(px, n)[<<q, b>>], q, b,
                 EncNext(px, n)[<<q, b>>][1], EncNext(px, n)[<<q, b>>][2])
<1> DEFINE d == <<q, b>>
<1>1. d \in EncPlaces(n)
  BY DEF EncPlaces
<1>2. PICK c \in 1..128 :
           /\ c = EncCount(px, n, d) /\ q + c \in 1..n + 1
           /\ EncRep(px, n, d) => RepAt(px, n, q, c) /\ q < n /\ px[q] = px[q + 1] /\ ~b
           /\ ~EncRep(px, n, d) => SeriesAt(px, n, q, c)
  BY Counted, ZenonT(60)
<1>3. EncRep(px, n, d) \in BOOLEAN /\ (EncRep(px, n, d) <=> ~b /\ q < n /\ px[q] = px[q + 1])
  BY DEF EncRep
<1>4. EncNext(px, n)[d] = <<q + c, EncRep(px, n, d) /\ c < 128>>
  <2>1. ~(q > n)
    OBVIOUS
  <2> QED BY <1>1, <1>2, <2>1 DEF EncNext
<1>5. EncChunk(px, n)[d] = IF EncRep(px, n, d) THEN Chunk(127 + c, <<px[q]>>)
                           ELSE Chunk(c - 1, SubSeq(px, q, q + c - 1))
  BY <1>1, <1>2 DEF EncChunk
<1> DEFINE x == EncChunk(px, n)[d]
           b2 == EncRep(px, n, d) /\ c < 128
<1> HIDE DEF d, x
<1>6. EncStep(px, n, x, q, b, q + c, b2)
  <2>1. CASE EncRep(px, n, d)
    <3>1. /\ ~b /\ q < n /\ px[q] = px[q + 1] /\ RepAt(px, n, q, c)
          /\ x = Chunk(127 + c, <<px[q]>>) /\ b2 = (c < 128)
      BY <1>2, <1>5, <2>1 DEF x
    <3> HIDE DEF b2
    <3>2. b2 \in BOOLEAN
      BY <3>1
    <3> QED BY <1>2, <3>1, <3>2 DEF EncStep
  <2>2. CASE ~EncRep(px, n, d)
    <3>1. /\ b \/ ~(q < n /\ px[q] = px[q + 1])
          /\ SeriesAt(px, n, q, c)
          /\ x = Chunk(c - 1, SubSeq(px, q, q + c - 1)) /\ b2 = FALSE
      BY <1>2, <1>3, <1>5, <2>2 DEF x
    <3> HIDE DEF b2
    <3>2. b2 \in BOOLEAN
      BY <3>1
    <3> QED BY <1>2, <3>1, <3>2 DEF EncStep
  <2> QED BY <2>1, <2>2
<1>7. EncNext(px, n)[d][1] = q + c /\ EncNext(px, n)[d][2] = b2
  BY <1>4
<1> QED BY <1>6, <1>7 DEF d, x

LEMMA EncodeSteps ==
  ASSUME NEW px, IsSeq(px), NEW n \in Nat, n = Len(px)
  PROVE  \E L \in Nat : \E Q, B : EncodedBy(px, n, rle_encode(px), L, Q, B)
<1> DEFINE s == rle_encode(px)
           D == EncPlaces(n)
           mu == EncLeft(n)
           ch == EncChunk(px, n)
           nx == EncNext(px, n)
<1>1. PICK e : Path(e, s, <<1, FALSE>>, D, mu, ch, nx)
  BY EncodePath
<1>2. /\ IsSeq(s) /\ e \in [1..Len(s) + 1 -> D] /\ e[1] = <<1, FALSE>> /\ mu[e[Len(s) + 1]] = 0
      /\ \A k \in 1..Len(s) : mu[e[k]] # 0 /\ e[k + 1] = nx[e[k]] /\ s[k] = ch[e[k]]
  <2> HIDE DEF s, D, mu, ch, nx
  <2> QED BY <1>1 DEF Path
<1>3. PICK L \in Nat : L = Len(s)
  BY <1>2, Lengths
<1> DEFINE Q == [k \in 1..L + 1 |-> e[k][1]]
           B == [k \in 1..L + 1 |-> e[k][2]]
<1>4. ASSUME NEW d \in D
      PROVE  d[1] \in 1..n + 1 /\ d[2] \in BOOLEAN /\ d = <<d[1], d[2]>> /\ mu[d] = n + 1 - d[1]
  BY DEF EncPlaces, EncLeft
<1>5. \A k \in 1..L + 1 : e[k] \in D
  BY <1>2, <1>3
<1>6. Q \in [1..L + 1 -> 1..n + 1] /\ B \in [1..L + 1 -> BOOLEAN]
  <2> HIDE DEF D, mu, ch, nx, s
  <2> QED BY <1>4, <1>5
<1>7. 1 \in 1..L + 1 /\ L + 1 \in 1..L + 1
  OBVIOUS
<1>8. Q[1] = 1 /\ B[1] = FALSE
  <2>1. Q[1] = e[1][1] /\ B[1] = e[1][2]
    BY <1>7
  <2>2. e[1] = <<1, FALSE>>
    BY <1>2
  <2>3. e[1][1] = 1 /\ e[1][2] = FALSE
    BY <2>2
  <2> QED BY <2>1, <2>3
<1>9. Q[L + 1] = n + 1
  <2>1. e[L + 1] \in D /\ mu[e[L + 1]] = 0
    BY <1>2, <1>3, <1>5, <1>7
  <2>2. PICK q \in 1..n + 1 : q = e[L + 1][1] /\ n + 1 - q = 0
    BY <1>4, <2>1
  <2>3. q = n + 1
    BY <2>2
  <2> QED BY <1>7, <2>2, <2>3
<1>10. ASSUME NEW k \in 1..L
       PROVE  EncStep(px, n, s[k], Q[k], B[k], Q[k + 1], B[k + 1])
  <2>1. k \in 1..L + 1 /\ k + 1 \in 1..L + 1
    OBVIOUS
  <2>2. PICK q \in 1..n + 1, b \in BOOLEAN : e[k] = <<q, b>> /\ mu[e[k]] = n + 1 - q
    BY <1>4, <1>5, <2>1
  <2>3. mu[e[k]] # 0 /\ e[k + 1] = nx[e[k]] /\ s[k] = ch[e[k]]
    BY <1>2, <1>3
  <2>4. q \in 1..n
    BY <2>2, <2>3
  <2>5. Q[k] = q /\ B[k] = b /\ Q[k + 1] = nx[<<q, b>>][1] /\ B[k + 1] = nx[<<q, b>>][2]
    BY <2>1, <2>2, <2>3
  <2>6. s[k] = ch[<<q, b>>]
    BY <2>2, <2>3
  <2> HIDE DEF Q, B, s
  <2> QED BY <2>4, <2>5, <2>6, OneStep
<1> HIDE DEF Q, B, s, D, mu, ch, nx
<1>11. EncodedBy(px, n, s, L, Q, B)
  BY <1>2, <1>3, <1>6, <1>8, <1>9, <1>10 DEF EncodedBy
<1> QED BY <1>11 DEF s

\* What is written for the pixels from place q on is at most bpp bytes for each of
\* them and this.
Extra(px, n, q, b) ==
  LET m == n + 1 - q
  IN IF b THEN (m + 2) \div 3
     ELSE IF m = 0 \/ (q < n /\ px[q] = px[q + 1]) THEN m \div 3
     ELSE (m \div 3) + 1

LEMMA Products ==
  ASSUME NEW m \in Nat, NEW c \in Nat \ {0}, NEW r \in Nat, m = r + c, NEW bpp \in Nat \ {0}
  PROVE  \E x \in Nat, y \in Nat :
           /\ x = bpp * r /\ y = bpp * c /\ bpp * m = x + y /\ y >= bpp + c - 1
<1>1. \A a, b \in Nat : a * b \in Nat
  OBVIOUS
<1>2. \A a, b, d \in Nat : a * (b + d) = a * b + a * d
  OBVIOUS
<1>3. PICK x \in Nat, y \in Nat : x = bpp * r /\ y = bpp * c /\ bpp * m = x + y
  BY <1>1, <1>2
<1>4. PICK t \in Nat, u \in Nat : bpp = t + 1 /\ c = u + 1
  <2>1. bpp - 1 \in Nat /\ c - 1 \in Nat /\ bpp = (bpp - 1) + 1 /\ c = (c - 1) + 1
    OBVIOUS
  <2> QED BY <2>1
<1>5. (t + 1) * (u + 1) = t * u + t + u + 1
  <2>1. (t + 1) * (u + 1) = (t + 1) * u + (t + 1) * 1
    BY <1>2
  <2>2. (t + 1) * u = t * u + u
    <3>1. \A a, b \in Nat : (a + 1) * b = a * b + b
      OBVIOUS
    <3> QED BY <3>1
  <2>3. t * u \in Nat
    BY <1>1
  <2> QED BY <2>1, <2>2, <2>3
<1>6. PICK z \in Nat : z = t * u
  BY <1>1
<1>7. y = z + t + u + 1
  BY <1>3, <1>4, <1>5, <1>6
<1>8. y >= bpp + c - 1
  BY <1>4, <1>7
<1> QED BY <1>3, <1>8

Suffice(z, e, u, v, e2) ==
  /\ z \in Nat /\ e \in Nat /\ u \in Nat /\ v \in Nat /\ e2 \in Nat
  /\ 1 + u + v + e2 <= z + e

LEMMA StepFits ==
  ASSUME NEW px, IsSeq(px), NEW n \in Nat, n = Len(px), NEW x, NEW q, NEW b, NEW q2, NEW b2,
         EncStep(px, n, x, q, b, q2, b2), NEW bpp \in Nat \ {0}
  PROVE  Suffice(bpp * (n + 1 - q), Extra(px, n, q, b), bpp * Len(x.px),
                 bpp * (n + 1 - q2), Extra(px, n, q2, b2))
<1>1. q \in 1..n /\ q2 \in 1..n + 1 /\ b \in BOOLEAN /\ b2 \in BOOLEAN
  BY DEF EncStep
<1>2. PICK c \in 1..128 :
       /\ q2 = q + c
       /\ \/ /\ ~b /\ q < n /\ px[q] = px[q + 1] /\ RepAt(px, n, q, c)
             /\ x = Chunk(127 + c, <<px[q]>>) /\ b2 = (c < 128)
          \/ /\ b \/ ~(q < n /\ px[q] = px[q + 1])
             /\ SeriesAt(px, n, q, c)
             /\ x = Chunk(c - 1, SubSeq(px, q, q + c - 1)) /\ b2 = FALSE
  BY DEF EncStep
<1>3. PICK m \in Nat, r \in Nat : m = n + 1 - q /\ r = n + 1 - q2 /\ m = r + c /\ m # 0
  <2>1. n + 1 - q \in Nat /\ n + 1 - q # 0 /\ n + 1 - q2 \in Nat
    BY <1>1
  <2>2. n + 1 - q = (n + 1 - q2) + c
    BY <1>1, <1>2
  <2> QED BY <2>1, <2>2
<1>12. m = r + c /\ m # 0 /\ c \in Nat \ {0}
  BY <1>3
<1>4. PICK rb \in Nat, y \in Nat : rb = bpp * r /\ y = bpp * c /\ bpp * m = rb + y /\ y >= bpp + c - 1
  BY <1>12, Products
<1>11. bpp * (n + 1 - q) = rb + y /\ bpp * (n + 1 - q2) = rb
  BY <1>3, <1>4
<1>5. Extra(px, n, q, b) = IF b THEN (m + 2) \div 3
                           ELSE IF q < n /\ px[q] = px[q + 1] THEN m \div 3
                           ELSE (m \div 3) + 1
  BY <1>3 DEF Extra
<1>6. Extra(px, n, q2, b2) = IF b2 THEN (r + 2) \div 3
                             ELSE IF r = 0 \/ (q2 < n /\ px[q2] = px[q2 + 1]) THEN r \div 3
                             ELSE (r \div 3) + 1
  BY <1>3 DEF Extra
<1>7. m \div 3 \in Nat /\ (m + 2) \div 3 \in Nat /\ r \div 3 \in Nat /\ (r + 2) \div 3 \in Nat
  OBVIOUS
<1>8. PICK E \in Nat, E2 \in Nat : E = Extra(px, n, q, b) /\ E2 = Extra(px, n, q2, b2)
  BY <1>5, <1>6, <1>7
<1>9. CASE ~b /\ q < n /\ px[q] = px[q + 1] /\ RepAt(px, n, q, c)
           /\ x = Chunk(127 + c, <<px[q]>>) /\ b2 = (c < 128)
  <2>1. Len(x.px) = 1 /\ bpp * Len(x.px) = bpp
    <3>1. x.px = <<px[q]>>
      BY <1>9 DEF Chunk
    <3>2. Len(x.px) = 1
      BY <3>1, OneOrTwo
    <3> QED BY <3>2
  <2>2. c # 1
    BY <1>9 DEF RepAt
  <2>3. E = m \div 3
    BY <1>5, <1>8, <1>9
  <2>4. 1 + E2 <= c - 1 + E
    <3>1. CASE c < 128
      <4>1. E2 = (r + 2) \div 3
        BY <1>6, <1>8, <1>9, <3>1
      <4>2. (r + 2) \div 3 <= (r + c) \div 3
        BY <2>2
      <4> QED BY <1>12, <2>2, <2>3, <4>1, <4>2
    <3>2. CASE ~(c < 128)
      <4>1. E2 <= (r \div 3) + 1 /\ c = 128
        BY <1>6, <1>7, <1>8, <1>9, <3>2
      <4>2. r \div 3 <= (r + c) \div 3
        OBVIOUS
      <4> QED BY <1>12, <2>3, <4>1, <4>2
    <3> QED BY <3>1, <3>2
  <2>5. y >= bpp + c - 1
    BY <1>4
  <2>6. Suffice(rb + y, E, bpp, rb, E2)
    BY <2>4, <2>5 DEF Suffice
  <2> QED BY <1>8, <1>11, <2>1, <2>6
<1>10. CASE (b \/ ~(q < n /\ px[q] = px[q + 1])) /\ SeriesAt(px, n, q, c)
            /\ x = Chunk(c - 1, SubSeq(px, q, q + c - 1)) /\ b2 = FALSE
  <2>1. Len(x.px) = c /\ bpp * Len(x.px) = y
    <3>1. x.px = SubSeq(px, q, q + c - 1)
      BY <1>10 DEF Chunk
    <3>2. q \in Nat \ {0} /\ q + c - 1 \in Nat /\ q + c - 1 <= n /\ q <= q + c - 1
          /\ (q + c - 1) - q + 1 = c
      BY <1>1, <1>2
    <3>3. PartOf(x.px, px, q, q + c - 1)
      BY <3>1, <3>2, Part
    <3>4. Len(x.px) = c
      BY <3>2, <3>3 DEF PartOf
    <3> QED BY <1>4, <3>4
  <2>2. (m + 2) \div 3 <= (m \div 3) + 1
    OBVIOUS
  <2>3. E >= (m + 2) \div 3
    <3>1. E = (m + 2) \div 3 \/ E = (m \div 3) + 1
      BY <1>5, <1>8, <1>10
    <3> QED BY <1>7, <2>2, <3>1
  <2>4. c = 128 \/ q2 = n + 1 \/ (q2 < n /\ px[q2] = px[q2 + 1])
    BY <1>2, <1>10 DEF SeriesAt
  <2>5. 1 + E2 <= E
    <3>1. CASE c = 128
      <4>1. E2 <= (r \div 3) + 1
        BY <1>6, <1>7, <1>8, <1>10
      <4>2. (r \div 3) + 2 <= (r + 128 + 2) \div 3
        OBVIOUS
      <4> QED BY <1>12, <1>7, <2>3, <3>1, <4>1, <4>2
    <3>2. CASE q2 = n + 1 \/ (q2 < n /\ px[q2] = px[q2 + 1])
      <4>1. r = 0 \/ (q2 < n /\ px[q2] = px[q2 + 1])
        BY <1>3, <3>2
      <4>2. E2 = r \div 3
        BY <1>6, <1>8, <1>10, <4>1
      <4>3. (r \div 3) + 1 <= (r + c + 2) \div 3
        OBVIOUS
      <4> QED BY <1>12, <1>7, <2>3, <4>2, <4>3
    <3> QED BY <2>4, <3>1, <3>2
  <2>6. Suffice(rb + y, E, y, rb, E2)
    BY <2>5 DEF Suffice
  <2> QED BY <1>8, <1>11, <2>1, <2>6
<1> QED BY <1>2, <1>9, <1>10

-----------------------------------------------------------------------------
(* What a stream takes, and what it is read as: element by element.        *)

\* Two lists that begin alike and go on alike are the same.
LEMMA SameSteps ==
  ASSUME NEW L \in Nat, NEW f, NEW g, f[0] = g[0],
         \A k \in 1..L : f[k - 1] = g[k - 1] => f[k] = g[k]
  PROVE  \A k \in 0..L : f[k] = g[k]
<1> DEFINE S == {m \in Nat : m <= L => f[m] = g[m]}
<1>1. 0 \in S
  OBVIOUS
<1>2. ASSUME NEW m \in S PROVE m + 1 \in S
  <2> SUFFICES ASSUME m + 1 <= L PROVE f[m + 1] = g[m + 1]
    OBVIOUS
  <2>1. m + 1 \in 1..L /\ (m + 1) - 1 = m /\ m <= L
    OBVIOUS
  <2>2. f[m] = g[m]
    BY <2>1
  <2> QED BY <2>1, <2>2
<1>3. S = Nat
  <2>1. S \in SUBSET Nat
    OBVIOUS
  <2> HIDE DEF S
  <2> QED BY <1>1, <1>2, <2>1, Induction
<1> QED BY <1>3

\* The sums of a and the first elements of w.
SumsOf(f, a, w, m) == f = [k \in 0..m |-> IF k = 0 THEN a ELSE f[k - 1] + w[k]]

LEMMA SumsExist ==
  ASSUME NEW L \in Nat, NEW w, NEW a
  PROVE  \E f : SumsOf(f, a, w, L)
<1> USE DEF SumsOf
<1> DEFINE Has(m) == \E f : SumsOf(f, a, w, m)
           S == {m \in Nat : Has(m)}
<1>1. Has(0)
  <2> DEFINE f == [k \in 0..0 |-> a]
  <2>1. f = [k \in 0..0 |-> IF k = 0 THEN a ELSE f[k - 1] + w[k]]
    OBVIOUS
  <2> QED BY <2>1
<1>2. ASSUME NEW m \in Nat, Has(m) PROVE Has(m + 1)
  <2>1. PICK f : f = [k \in 0..m |-> IF k = 0 THEN a ELSE f[k - 1] + w[k]]
    BY <1>2
  <2> DEFINE g == [k \in 0..m + 1 |-> IF k <= m THEN f[k] ELSE f[k - 1] + w[k]]
  <2>2. ASSUME NEW k \in 0..m + 1
        PROVE  g[k] = IF k = 0 THEN a ELSE g[k - 1] + w[k]
    <3>1. CASE k = 0
      <4>1. 0 \in 0..m /\ 0 <= m
        OBVIOUS
      <4> QED BY <2>1, <3>1, <4>1
    <3>2. CASE k # 0
      <4>1. k - 1 \in 0..m /\ k - 1 <= m /\ k - 1 \in 0..m + 1
        BY <3>2
      <4>2. g[k - 1] = f[k - 1]
        BY <4>1
      <4>3. CASE k <= m
        <5>1. k \in 0..m
          BY <4>3
        <5>2. f[k] = f[k - 1] + w[k]
          BY <2>1, <3>2, <5>1
        <5> QED BY <3>2, <4>2, <4>3, <5>2
      <4>4. CASE ~(k <= m)
        BY <3>2, <4>2, <4>4
      <4> QED BY <4>3, <4>4
    <3> QED BY <3>1, <3>2
  <2>3. g = [k \in 0..m + 1 |-> IF k = 0 THEN a ELSE g[k - 1] + w[k]]
    BY <2>2
  <2> HIDE DEF g
  <2> QED BY <2>3
<1> HIDE DEF Has
<1>3. S = Nat
  <2>1. S \in SUBSET Nat /\ 0 \in S /\ \A m \in S : m + 1 \in S
    BY <1>1, <1>2
  <2> HIDE DEF S
  <2> QED BY <2>1, Induction
<1>4. Has(L)
  BY <1>3
<1> QED BY <1>4 DEF Has

\* The bytes of the first chunks.
Sized(f, s, L, bpp) ==
  /\ ChunkBytes(s, bpp) = f[L] /\ f[0] = 0
  /\ \A k \in 1..L : f[k] = f[k - 1] + (1 + bpp * Len(s[k].px))

LEMMA BytesAre ==
  ASSUME NEW s, NEW L \in Nat, L = Len(s), NEW bpp
  PROVE  \E f : Sized(f, s, L, bpp)
<1> DEFINE Made(f) == [n \in 0..L |-> IF n = 0 THEN 0 ELSE f[n - 1] + (1 + bpp * Len(s[n].px))]
           E == CHOOSE f : f = Made(f)
           w == [k \in 1..L |-> 1 + bpp * Len(s[k].px)]
<1>1. ChunkBytes(s, bpp) = E[L]
  BY DEF ChunkBytes
<1>2. PICK g : SumsOf(g, 0, w, L)
  <2> HIDE DEF w
  <2> QED BY SumsExist
<1>3. g = Made(g)
  <2>1. \A k \in 0..L : k # 0 => w[k] = 1 + bpp * Len(s[k].px)
    <3>1. \A k \in 0..L : k # 0 => k \in 1..L
      OBVIOUS
    <3> QED BY <3>1
  <2> HIDE DEF w
  <2> QED BY <1>2, <2>1 DEF SumsOf
<1>4. E = Made(E)
  <2> HIDE DEF Made
  <2> QED BY <1>3
<1> HIDE DEF E
<1>5. E[0] = 0
  <2>1. 0 \in 0..L
    OBVIOUS
  <2> QED BY <1>4, <2>1
<1>6. ASSUME NEW k \in 1..L PROVE E[k] = E[k - 1] + (1 + bpp * Len(s[k].px))
  <2>1. k \in 0..L /\ k # 0
    OBVIOUS
  <2> QED BY <1>4, <2>1
<1> QED BY <1>1, <1>5, <1>6 DEF Sized

\* rle_encode writes no more than it allocates, whatever the picture shows: the
\* buffer is len * bpp + 1 + len / 3 bytes large and filled without a check.
THEOREM EncodeFits ==
  ASSUME NEW px, IsSeq(px), NEW bpp \in Nat \ {0}
  PROVE  ChunkBytes(rle_encode(px), bpp) <= rle_room(px, bpp)
<1>1. PICK n \in Nat : n = Len(px)
  BY Lengths
<1> DEFINE s == rle_encode(px)
<1>2. PICK L \in Nat : \E Q, B : EncodedBy(px, n, s, L, Q, B)
  BY <1>1, EncodeSteps
<1>3. PICK Q, B : EncodedBy(px, n, s, L, Q, B)
  BY <1>2
<1> HIDE DEF s
<1>4. /\ IsSeq(s) /\ L = Len(s) /\ Q \in [1..L + 1 -> 1..n + 1] /\ B \in [1..L + 1 -> BOOLEAN]
      /\ Q[1] = 1 /\ Q[L + 1] = n + 1 /\ B[1] = FALSE
      /\ \A k \in 1..L : EncStep(px, n, s[k], Q[k], B[k], Q[k + 1], B[k + 1])
  BY <1>3 DEF EncodedBy
<1>15. PICK f : Sized(f, s, L, bpp)
  BY <1>4, BytesAre
<1>5. /\ ChunkBytes(s, bpp) = f[L] /\ f[0] = 0
      /\ \A k \in 1..L : f[k] = f[k - 1] + (1 + bpp * Len(s[k].px))
  BY <1>15 DEF Sized
<1> DEFINE Rest(k) == bpp * (n + 1 - Q[k + 1]) + Extra(px, n, Q[k + 1], B[k + 1])
           S == {k \in Nat : k <= L => f[k] \in Nat /\ Rest(k) \in Nat /\ f[k] + Rest(k) <= rle_room(px, bpp)}
<1>6. PICK z \in Nat : z = bpp * n /\ n * bpp = z
  <2>1. \A a, b \in Nat : a * b \in Nat /\ a * b = b * a
    OBVIOUS
  <2> QED BY <2>1
<1>7. PICK t \in Nat : t = n \div 3
  <2>1. n \div 3 \in Nat
    OBVIOUS
  <2> QED BY <2>1
<1>8. rle_room(px, bpp) = z + 1 + t
  BY <1>1, <1>6, <1>7 DEF rle_room
<1>9. 0 \in S
  <2>1. Rest(0) = bpp * n + Extra(px, n, 1, FALSE)
    <3>1. 0 + 1 = 1 /\ n + 1 - 1 = n
      OBVIOUS
    <3> QED BY <1>4, <3>1
  <2>2. Extra(px, n, 1, FALSE) = t \/ Extra(px, n, 1, FALSE) = t + 1
    <3>1. n + 1 - 1 = n
      OBVIOUS
    <3> QED BY <1>7, <3>1 DEF Extra
  <2>3. PICK e \in Nat : e = Extra(px, n, 1, FALSE) /\ e <= t + 1
    <3>1. t \in Nat /\ t + 1 \in Nat /\ t <= t + 1 /\ t + 1 <= t + 1
      OBVIOUS
    <3> QED BY <2>2, <3>1
  <2>4. Rest(0) = z + e
    BY <1>6, <2>1, <2>3
  <2>5. f[0] \in Nat /\ Rest(0) \in Nat /\ f[0] + Rest(0) <= rle_room(px, bpp)
    <3>1. f[0] = 0 /\ e <= t + 1
      BY <1>5, <2>3
    <3>2. 0 + (z + e) <= z + 1 + t
      BY <3>1
    <3> HIDE DEF Rest
    <3> QED BY <1>8, <2>4, <3>1, <3>2
  <2> HIDE DEF Rest
  <2> QED BY <2>5
<1>10. ASSUME NEW m \in S PROVE m + 1 \in S
  <2> SUFFICES ASSUME m + 1 <= L
               PROVE  f[m + 1] \in Nat /\ Rest(m + 1) \in Nat
                      /\ f[m + 1] + Rest(m + 1) <= rle_room(px, bpp)
    OBVIOUS
  <2>1. m \in Nat /\ m + 1 \in 1..L /\ (m + 1) - 1 = m /\ m <= L
    OBVIOUS
  <2>2. f[m] \in Nat /\ Rest(m) \in Nat /\ f[m] + Rest(m) <= rle_room(px, bpp)
    BY <2>1
  <2>3. EncStep(px, n, s[m + 1], Q[m + 1], B[m + 1], Q[(m + 1) + 1], B[(m + 1) + 1])
    BY <1>4, <2>1
  <2>4. Suffice(bpp * (n + 1 - Q[m + 1]), Extra(px, n, Q[m + 1], B[m + 1]), bpp * Len(s[m + 1].px),
                bpp * (n + 1 - Q[(m + 1) + 1]), Extra(px, n, Q[(m + 1) + 1], B[(m + 1) + 1]))
    BY <1>1, <2>3, StepFits
  <2>5. PICK y \in Nat, e \in Nat, u \in Nat, v \in Nat, e2 \in Nat :
          /\ y = bpp * (n + 1 - Q[m + 1]) /\ e = Extra(px, n, Q[m + 1], B[m + 1])
          /\ u = bpp * Len(s[m + 1].px) /\ v = bpp * (n + 1 - Q[(m + 1) + 1])
          /\ e2 = Extra(px, n, Q[(m + 1) + 1], B[(m + 1) + 1])
          /\ 1 + u + v + e2 <= y + e
    BY <2>4 DEF Suffice
  <2>6. Rest(m) = y + e /\ Rest(m + 1) = v + e2
    BY <2>5
  <2>7. f[m + 1] = f[m] + (1 + u)
    BY <1>5, <2>1, <2>5
  <2>8. 1 + u + v + e2 <= y + e
    BY <2>5
  <2> HIDE DEF Rest
  <2>9. PICK a \in Nat, room \in Nat : a = f[m] /\ room = rle_room(px, bpp) /\ a + (y + e) <= room
    BY <1>7, <1>8, <2>2, <2>6
  <2>10. f[m + 1] = a + (1 + u)
    BY <2>7, <2>9
  <2>11. (a + (1 + u)) + (v + e2) <= room
    BY <2>8, <2>9
  <2> QED BY <2>6, <2>9, <2>10, <2>11
<1>11. S = Nat
  <2>1. S \in SUBSET Nat
    OBVIOUS
  <2> HIDE DEF S
  <2> QED BY <1>9, <1>10, <2>1, Induction
<1>12. f[L] \in Nat /\ Rest(L) \in Nat /\ f[L] + Rest(L) <= rle_room(px, bpp)
  BY <1>11
<1>13. rle_room(px, bpp) \in Nat
  BY <1>7, <1>8
<1> HIDE DEF Rest, S
<1>14. f[L] <= rle_room(px, bpp)
  BY <1>12, <1>13
<1> QED BY <1>5, <1>14 DEF s

\* A sequence up to some place, and the part behind it.
LEMMA PartsJoin ==
  ASSUME NEW s, IsSeq(s), NEW q \in Nat \ {0}, NEW c \in Nat, q + c <= Len(s) + 1,
         NEW d, PartOf(d, s, q, q + c - 1)
  PROVE  SubSeq(s, 1, q - 1) \o d = SubSeq(s, 1, q + c - 1)
<1>1. PICK n \in Nat : n = Len(s)
  BY Lengths
<1>2. q - 1 \in Nat /\ q + c - 1 \in Nat /\ q + c - 1 <= n /\ q - 1 <= n
  BY <1>1
<1>3. PICK a \in {SubSeq(s, 1, q - 1)} : PartOf(a, s, 1, q - 1)
  BY <1>1, <1>2, Part
<1>4. PICK z \in {SubSeq(s, 1, q + c - 1)} : PartOf(z, s, 1, q + c - 1)
  BY <1>1, <1>2, Part
<1>5. IsSeq(a) /\ Len(a) = q - 1 /\ \A k \in 1..q - 1 : a[k] = s[k]
  <2>1. q - 1 - 1 + 1 = q - 1 /\ (1 <= q - 1 \/ q - 1 = 0) /\ \A k \in 1..q - 1 : 1 + k - 1 = k
    OBVIOUS
  <2> QED BY <1>2, <1>3, <2>1 DEF PartOf
<1>6. IsSeq(z) /\ Len(z) = q + c - 1 /\ \A k \in 1..q + c - 1 : z[k] = s[k]
  <2>1. (q + c - 1) - 1 + 1 = q + c - 1 /\ (1 <= q + c - 1 \/ q + c - 1 = 0)
        /\ \A k \in 1..q + c - 1 : 1 + k - 1 = k
    OBVIOUS
  <2> QED BY <1>2, <1>4, <2>1 DEF PartOf
<1>7. IsSeq(d) /\ Len(d) = c /\ \A k \in 1..c : d[k] = s[q + k - 1]
  <2>1. (q + c - 1) - q + 1 = c /\ (q <= q + c - 1 \/ c = 0)
    OBVIOUS
  <2>2. IsSeq(d) /\ Len(d) = IF q <= q + c - 1 THEN (q + c - 1) - q + 1 ELSE 0
    BY DEF PartOf
  <2>3. \A k \in 1..c : d[k] = s[q + k - 1]
    BY <2>1 DEF PartOf
  <2>4. ~(q <= q + c - 1) => c = 0
    OBVIOUS
  <2> QED BY <2>1, <2>2, <2>3, <2>4
<1>8. PICK j \in {a \o d} : Joins(j, a, d)
  BY <1>5, <1>7, Joined
<1>9. IsSeq(j) /\ Len(j) = Len(z)
  BY <1>5, <1>6, <1>7, <1>8 DEF Joins
<1>10. ASSUME NEW k \in 1..Len(z) PROVE z[k] = j[k]
  <2>1. k \in 1..q + c - 1 /\ z[k] = s[k]
    BY <1>6
  <2>2. CASE k <= q - 1
    <3>1. k \in 1..Len(a) /\ k \in 1..q - 1
      BY <1>5, <2>1, <2>2
    <3> QED BY <1>5, <1>8, <2>1, <3>1 DEF Joins
  <2>3. CASE ~(k <= q - 1)
    <3>1. PICK m \in 1..c : k = (q - 1) + m
      <4>1. k - (q - 1) \in 1..c /\ k = (q - 1) + (k - (q - 1))
        BY <2>1, <2>3
      <4> QED BY <4>1
    <3>2. q + m - 1 = k
      BY <3>1
    <3>3. j[Len(a) + m] = d[m] /\ Len(a) + m = k
      BY <1>5, <1>7, <1>8, <3>1 DEF Joins
    <3> QED BY <1>7, <2>1, <3>2, <3>3
  <2> QED BY <2>2, <2>3
<1>11. z = j
  BY <1>6, <1>9, <1>10, SameSeq
<1> QED BY <1>3, <1>4, <1>8, <1>11

LEMMA Whole ==
  ASSUME NEW s, IsSeq(s), NEW n \in Nat, n = Len(s)
  PROVE  SubSeq(s, 1, n) = s
<1>1. PartOf(SubSeq(s, 1, n), s, 1, n)
  BY Part
<1>2. n - 1 + 1 = n /\ (1 <= n \/ n = 0) /\ \A k \in 1..n : 1 + k - 1 = k
  OBVIOUS
<1>3. /\ IsSeq(SubSeq(s, 1, n)) /\ Len(SubSeq(s, 1, n)) = n
      /\ \A k \in 1..n : SubSeq(s, 1, n)[k] = s[k]
  BY <1>1, <1>2 DEF PartOf
<1> QED BY <1>3, SameSeq

LEMMA NoneYet == ASSUME NEW s, IsSeq(s) PROVE SubSeq(s, 1, 0) = <<>>
<1>1. Len(s) \in Nat
  BY Lengths
<1>2. PartOf(SubSeq(s, 1, 0), s, 1, 0)
  BY <1>1, Part
<1>3. IsSeq(SubSeq(s, 1, 0)) /\ Len(SubSeq(s, 1, 0)) = 0
  BY <1>2 DEF PartOf
<1> QED BY <1>3, EmptyList, SameSeq

\* c equal pixels, repeated from one or taken from a series of them.
LEMMA Repeated ==
  ASSUME NEW s, NEW q \in Nat \ {0}, NEW c \in 1..128, NEW p,
         \A j \in 0..c - 1 : s[q + j] = p
  PROVE  PartOf(Repeat(p, c), s, q, q + c - 1)
<1>1. c \in Nat /\ q <= q + c - 1 /\ (q + c - 1) - q + 1 = c
  OBVIOUS
<1>2. Repeat(p, c) = [k \in 1..c |-> p]
  BY DEF Repeat
<1>3. IsSeq(Repeat(p, c)) /\ Len(Repeat(p, c)) = c
  BY <1>1, <1>2, Numbered
<1>4. ASSUME NEW k \in 1..c PROVE Repeat(p, c)[k] = s[q + k - 1]
  <2>1. k - 1 \in 0..c - 1 /\ q + k - 1 = q + (k - 1)
    OBVIOUS
  <2> QED BY <1>2, <2>1
<1> QED BY <1>1, <1>3, <1>4 DEF PartOf

LEMMA SeriesPart ==
  ASSUME NEW s, IsSeq(s), NEW q \in Nat \ {0}, NEW c \in 1..128, q + c - 1 <= Len(s)
  PROVE  PartOf(SubSeq(SubSeq(s, q, q + c - 1), 1, c), s, q, q + c - 1)
<1>1. c \in Nat /\ q <= q + c - 1 /\ (q + c - 1) - q + 1 = c /\ q + c - 1 \in Nat
  OBVIOUS
<1>2. PartOf(SubSeq(s, q, q + c - 1), s, q, q + c - 1)
  BY <1>1, Part
<1>3. IsSeq(SubSeq(s, q, q + c - 1)) /\ Len(SubSeq(s, q, q + c - 1)) = c
  BY <1>1, <1>2 DEF PartOf
<1>4. SubSeq(SubSeq(s, q, q + c - 1), 1, c) = SubSeq(s, q, q + c - 1)
  BY <1>1, <1>3, Whole
<1> QED BY <1>2, <1>4

Decodes(px, x, q, q2) == SubSeq(px, 1, q - 1) \o decoded(x) = SubSeq(px, 1, q2 - 1)

\* A chunk of rle_encode is read as the pixels it was made of.
LEMMA StepDecodes ==
  ASSUME NEW px, IsSeq(px), NEW n \in Nat, n = Len(px), NEW x, NEW q, NEW b, NEW q2, NEW b2,
         EncStep(px, n, x, q, b, q2, b2)
  PROVE  Decodes(px, x, q, q2)
<1>1. q \in 1..n /\ q2 \in 1..n + 1
  BY DEF EncStep
<1>2. PICK c \in 1..128 :
       /\ q2 = q + c
       /\ \/ /\ ~b /\ q < n /\ px[q] = px[q + 1] /\ RepAt(px, n, q, c)
             /\ x = Chunk(127 + c, <<px[q]>>) /\ b2 = (c < 128)
          \/ /\ b \/ ~(q < n /\ px[q] = px[q + 1])
             /\ SeriesAt(px, n, q, c)
             /\ x = Chunk(c - 1, SubSeq(px, q, q + c - 1)) /\ b2 = FALSE
  BY DEF EncStep
<1>3. q \in Nat \ {0} /\ c \in Nat /\ q + c <= n + 1 /\ q + c - 1 <= n
  BY <1>1, <1>2
<1>4. PartOf(decoded(x), px, q, q + c - 1)
  <2>1. CASE RepAt(px, n, q, c) /\ x = Chunk(127 + c, <<px[q]>>)
    <3>1. x.flag = 127 + c /\ x.px[1] = px[q]
      BY <2>1 DEF Chunk
    <3>2. 127 + c >= 128 /\ ((127 + c) % 128) + 1 = c
      OBVIOUS
    <3>3. decoded(x) = Repeat(px[q], c)
      BY <3>1, <3>2 DEF decoded
    <3>4. \A j \in 0..c - 1 : px[q + j] = px[q]
      <4>1. q + 0 = q
        BY <1>3
      <4>2. \A j \in 0..c - 1 : j = 0 \/ j \in 1..c - 1
        OBVIOUS
      <4>3. \A j \in 1..c - 1 : px[q + j] = px[q]
        BY <2>1 DEF RepAt
      <4> QED BY <4>1, <4>2, <4>3
    <3> QED BY <1>3, <3>3, <3>4, Repeated, ZenonT(60)
  <2>2. CASE x = Chunk(c - 1, SubSeq(px, q, q + c - 1))
    <3>1. x.flag = c - 1 /\ x.px = SubSeq(px, q, q + c - 1)
      BY <2>2 DEF Chunk
    <3>2. ~(c - 1 >= 128) /\ ((c - 1) % 128) + 1 = c
      OBVIOUS
    <3>3. decoded(x) = SubSeq(SubSeq(px, q, q + c - 1), 1, c)
      BY <3>1, <3>2 DEF decoded
    <3> QED BY <1>3, <3>3, SeriesPart
  <2> QED BY <1>2, <2>1, <2>2
<1>5. SubSeq(px, 1, q - 1) \o decoded(x) = SubSeq(px, 1, q + c - 1)
  BY <1>3, <1>4, PartsJoin
<1>6. q2 - 1 = q + c - 1
  <2>1. q2 = q + c
    BY <1>2
  <2> QED BY <1>3, <2>1
<1> HIDE DEF decoded
<1> QED BY <1>5, <1>6 DEF Decodes

\* The pixels a stream is read as grow by a chunk at a time.
ReadAs(P, s, L) ==
  L = Len(s) /\ P[0] = <<>> /\ \A k \in 1..L : P[k] = P[k - 1] \o decoded(s[k])

LEMMA DecodedIs ==
  ASSUME NEW s, NEW L \in Nat, NEW P, NEW size, ReadAs(P, s, L)
  PROVE  rle_decode(s, size) = SubSeq(P[L], 1, Min({size, Len(P[L])}))
<1> DEFINE Made(f) == [n \in 0..L |-> IF n = 0 THEN <<>> ELSE f[n - 1] \o decoded(s[n])]
           E == CHOOSE f : f = Made(f)
           G == [k \in 0..L |-> P[k]]
<1> USE DEF ReadAs
<1>1. rle_decode(s, size) = SubSeq(E[L], 1, Min({size, Len(E[L])}))
  BY DEF rle_decode
<1>2. G = Made(G)
  <2>1. ASSUME NEW k \in 0..L
        PROVE  G[k] = IF k = 0 THEN <<>> ELSE G[k - 1] \o decoded(s[k])
    <3>1. CASE k = 0
      BY <3>1
    <3>2. CASE k # 0
      <4>1. k \in 1..L /\ k - 1 \in 0..L
        BY <3>2
      <4>2. G[k - 1] = P[k - 1] /\ G[k] = P[k] /\ P[k] = P[k - 1] \o decoded(s[k])
        BY <4>1
      <4> QED BY <3>2, <4>2
    <3> QED BY <3>1, <3>2
  <2>2. G = [k \in 0..L |-> G[k]]
    OBVIOUS
  <2> HIDE DEF G
  <2> QED BY <2>1, <2>2
<1>3. E = Made(E)
  <2> HIDE DEF Made, G
  <2> QED BY <1>2
<1> HIDE DEF E
<1>4. E[0] = P[0]
  <2>1. 0 \in 0..L
    OBVIOUS
  <2> QED BY <1>3, <2>1
<1>5. ASSUME NEW k \in 1..L, E[k - 1] = P[k - 1] PROVE E[k] = P[k]
  <2>1. k \in 0..L /\ k # 0
    OBVIOUS
  <2>2. E[k] = E[k - 1] \o decoded(s[k])
    BY <1>3, <2>1
  <2> QED BY <1>5, <2>2
<1>6. E[L] = P[L]
  <2>1. \A k \in 0..L : E[k] = P[k]
    BY <1>4, <1>5, SameSteps
  <2> QED BY <2>1
<1> QED BY <1>1, <1>6

\* rle_decode, reading what rle_encode wrote, gives the picture back: Targa_readfile
\* and Targa_writefile lose nothing to the compression of targa files.
THEOREM EncodeDecode ==
  ASSUME NEW px, IsSeq(px)
  PROVE  rle_decode(rle_encode(px), Len(px)) = px
<1>1. PICK n \in Nat : n = Len(px)
  BY Lengths
<1> DEFINE s == rle_encode(px)
<1>2. PICK L \in Nat : \E Q, B : EncodedBy(px, n, s, L, Q, B)
  BY <1>1, EncodeSteps
<1>3. PICK Q, B : EncodedBy(px, n, s, L, Q, B)
  BY <1>2
<1> HIDE DEF s
<1>4. /\ L = Len(s) /\ Q[1] = 1 /\ Q[L + 1] = n + 1
      /\ \A k \in 1..L : EncStep(px, n, s[k], Q[k], B[k], Q[k + 1], B[k + 1])
  BY <1>3 DEF EncodedBy
<1> DEFINE P == [k \in 0..L |-> SubSeq(px, 1, Q[k + 1] - 1)]
<1>5. P[0] = <<>>
  <2>1. 0 \in 0..L /\ 0 + 1 = 1 /\ 1 - 1 = 0
    OBVIOUS
  <2>2. P[0] = SubSeq(px, 1, 0)
    BY <1>4, <2>1
  <2> QED BY <2>2, NoneYet
<1>6. P[L] = px
  <2>1. L \in 0..L /\ (n + 1) - 1 = n
    OBVIOUS
  <2>2. P[L] = SubSeq(px, 1, n)
    BY <1>4, <2>1
  <2> QED BY <1>1, <2>2, Whole
<1>7. ASSUME NEW k \in 1..L PROVE P[k] = P[k - 1] \o decoded(s[k])
  <2>1. k \in 0..L /\ k - 1 \in 0..L /\ (k - 1) + 1 = k
    OBVIOUS
  <2>2. P[k] = SubSeq(px, 1, Q[k + 1] - 1) /\ P[k - 1] = SubSeq(px, 1, Q[k] - 1)
    BY <2>1
  <2>3. EncStep(px, n, s[k], Q[k], B[k], Q[k + 1], B[k + 1])
    BY <1>4
  <2>4. SubSeq(px, 1, Q[k] - 1) \o decoded(s[k]) = SubSeq(px, 1, Q[k + 1] - 1)
    <3>1. Decodes(px, s[k], Q[k], Q[k + 1])
      BY <1>1, <2>3, StepDecodes
    <3> QED BY <3>1 DEF Decodes
  <2> HIDE DEF P
  <2> QED BY <2>2, <2>4
<1> HIDE DEF P
<1>8. rle_decode(s, n) = SubSeq(px, 1, Min({n, n}))
  <2>1. ReadAs(P, s, L)
    BY <1>4, <1>5, <1>7 DEF ReadAs
  <2>2. rle_decode(s, n) = SubSeq(P[L], 1, Min({n, Len(P[L])}))
    BY <2>1, DecodedIs
  <2> QED BY <1>1, <1>6, <2>2
<1>9. Min({n, n}) = n
  <2>1. {n, n} \in SUBSET Nat /\ n \in {n, n}
    OBVIOUS
  <2>2. Min({n, n}) \in {n, n}
    BY <2>1, MinIs
  <2> QED BY <2>2
<1>10. SubSeq(px, 1, n) = px
  BY <1>1, Whole
<1> QED BY <1>1, <1>8, <1>9, <1>10 DEF s

-----------------------------------------------------------------------------
(* packl and unpackl.  A place is a pixel of the line.                     *)

\* A run or a series from q to j: of a run all pixels are the same.
LineAt(px, n, q, j) ==
  /\ j \in q..n /\ j <= q + 127
  /\ q < n /\ px[q] = px[q + 1] => j # q /\ \A k \in q..j : px[k] = px[q]

LineEnd(px, n, q) == IF q = n THEN n ELSE packl_end(px, q)

LEMMA LineEnds ==
  ASSUME NEW px, IsSeq(px), NEW n \in Nat, n = Len(px), NEW q \in 1..n
  PROVE  LineAt(px, n, q, LineEnd(px, n, q))
<1>1. CASE q = n
  <2>1. LineEnd(px, n, q) = q
    BY <1>1 DEF LineEnd
  <2>2. q \in q..n /\ q <= q + 127 /\ ~(q < n)
    BY <1>1
  <2> QED BY <2>1, <2>2 DEF LineAt
<1>2. CASE q # n
  <2> DEFINE T == {q + 127, n}
  <2>1. T \in SUBSET Nat /\ n \in T
    OBVIOUS
  <2>2. PICK l \in T : l = Min(T) /\ l <= n /\ l <= q + 127
    <3>1. Min(T) \in T /\ \A y \in T : Min(T) <= y
      <4> HIDE DEF T
      <4> QED BY <2>1, MinIs
    <3>2. n \in T /\ q + 127 \in T
      OBVIOUS
    <3> HIDE DEF T
    <3> QED BY <3>1, <3>2
  <2>3. l \in Nat /\ q + 1 <= l
    BY <1>2
  <2> DEFINE run == px[q] = px[q + 1]
             S == {j \in q + 1..l : j = l \/ (px[j] = px[j + 1]) # run}
  <2>4. packl_end(px, q) = Min(S)
    BY <2>2 DEF packl_end
  <2>5. l \in S /\ S \in SUBSET Nat
    BY <2>3
  <2>6. Min(S) \in S /\ \A y \in S : Min(S) <= y
    <3> HIDE DEF S
    <3> QED BY <2>5, MinIs
  <2>7. PICK j \in q + 1..l : j = Min(S) /\ \A y \in S : j <= y
    BY <2>6
  <2>8. j \in q..n /\ j <= q + 127 /\ j # q
    <3>1. PICK m \in Nat : m = l /\ m <= n /\ m <= q + 127
      BY <2>2, <2>3
    <3>2. j \in q + 1..m
      BY <3>1
    <3> QED BY <3>1, <3>2
  <2>9. ASSUME px[q] = px[q + 1] PROVE \A k \in q..j : px[k] = px[q]
    <3>1. ASSUME NEW k \in q + 1..j - 1 PROVE px[k] = px[k + 1]
      <4>1. k \in q + 1..l /\ ~(j <= k)
        BY <2>3
      <4>2. k \notin S
        BY <2>7, <4>1
      <4> QED BY <2>9, <4>1, <4>2
    <3> DEFINE R == {m \in Nat : q + m <= j => px[q + m] = px[q]}
    <3>2. 0 \in R
      <4>1. q + 0 = q
        OBVIOUS
      <4> QED BY <4>1
    <3>3. ASSUME NEW m \in R PROVE m + 1 \in R
      <4> SUFFICES ASSUME q + (m + 1) <= j PROVE px[q + (m + 1)] = px[q]
        OBVIOUS
      <4>1. q + m <= j /\ q + (m + 1) = (q + m) + 1
        BY <2>8
      <4>2. px[q + m] = px[q]
        BY <4>1
      <4>3. CASE m = 0
        <5>1. q + (m + 1) = q + 1
          BY <4>3
        <5> QED BY <2>9, <5>1
      <4>4. CASE m # 0
        <5>1. q + m \in q + 1..j - 1
          BY <2>8, <4>4
        <5> QED BY <3>1, <4>1, <4>2, <5>1
      <4> QED BY <4>3, <4>4
    <3>4. R = Nat
      <4>1. R \in SUBSET Nat
        OBVIOUS
      <4> HIDE DEF R
      <4> QED BY <3>2, <3>3, <4>1, Induction
    <3> SUFFICES ASSUME NEW k \in q..j PROVE px[k] = px[q]
      OBVIOUS
    <3>5. k - q \in Nat /\ q + (k - q) = k /\ q + (k - q) <= j
      BY <2>8
    <3> QED BY <3>4, <3>5
  <2>10. LineEnd(px, n, q) = j
    BY <1>2, <2>4, <2>7 DEF LineEnd
  <2> QED BY <2>8, <2>9, <2>10 DEF LineAt
<1> QED BY <1>1, <1>2

LineRun(px, n, q) == q < n /\ px[q] = px[q + 1]
LineLeft(n) == [q \in 1..n + 1 |-> n + 1 - q]
LineChunk(px, n) ==
  [q \in 1..n + 1 |->
     LET j == LineEnd(px, n, q)
     IN IF LineRun(px, n, q) THEN Chunk((q - j) % 256, <<px[q]>>)
        ELSE Chunk(j - q, SubSeq(px, q, j))]
LineNext(px, n) == [q \in 1..n + 1 |-> IF q > n THEN q ELSE LineEnd(px, n, q) + 1]

\* From place q to place q2 with the chunk x.
LineStep(px, n, x, q, q2) ==
  /\ q \in 1..n /\ q2 \in 1..n + 1
  /\ \E c \in 1..128 :
       /\ q2 = q + c
       /\ \/ /\ c # 1 /\ \A j \in 0..c - 1 : px[q + j] = px[q]
             /\ x = Chunk(257 - c, <<px[q]>>)
          \/ x = Chunk(c - 1, SubSeq(px, q, q + c - 1))

LEMMA OneLineStep ==
  ASSUME NEW px, IsSeq(px), NEW n \in Nat, n = Len(px), NEW q \in 1..n
  PROVE  LineStep(px, n, LineChunk(px, n)[q], q, LineNext(px, n)[q])
<1>1. PICK j \in {LineEnd(px, n, q)} : LineAt(px, n, q, j)
  BY LineEnds
<1>2. PICK m \in q..n : m = j /\ m <= q + 127
  BY <1>1 DEF LineAt
<1>3. PICK c \in 1..128 : c = m - q + 1
  <2>1. m <= q + 127
    BY <1>2
  <2>2. m - q + 1 \in 1..128
    BY <2>1
  <2> QED BY <2>2
<1>4. m = q + c - 1 /\ q + c \in 1..n + 1 /\ m + 1 = q + c /\ m - q = c - 1
  BY <1>3
<1>5. q \in 1..n + 1 /\ ~(q > n)
  OBVIOUS
<1>6. LineNext(px, n)[q] = q + c
  BY <1>1, <1>2, <1>4, <1>5 DEF LineNext
<1>7. LineChunk(px, n)[q] = IF LineRun(px, n, q) THEN Chunk((q - m) % 256, <<px[q]>>)
                            ELSE Chunk(m - q, SubSeq(px, q, m))
  BY <1>1, <1>2, <1>5 DEF LineChunk
<1> DEFINE x == LineChunk(px, n)[q]
<1> HIDE DEF x
<1>8. CASE LineRun(px, n, q)
  <2>1. m # q /\ \A k \in q..m : px[k] = px[q]
    BY <1>1, <1>2, <1>8 DEF LineAt, LineRun
  <2>2. c # 1
    BY <1>3, <2>1
  <2>3. \A k \in 0..c - 1 : px[q + k] = px[q]
    <3>1. \A k \in 0..c - 1 : q + k \in q..m
      BY <1>3
    <3> QED BY <2>1, <3>1
  <2>4. (q - m) % 256 = 257 - c
    <3>1. q - m = 1 - c
      BY <1>3
    <3>2. (1 - c) % 256 = 257 - c
      BY <2>2
    <3> QED BY <3>1, <3>2
  <2>5. x = Chunk(257 - c, <<px[q]>>)
    BY <1>7, <1>8, <2>4, SMTT(60) DEF x
  <2>6. LineStep(px, n, x, q, q + c)
    BY <1>4, <2>2, <2>3, <2>5, ZenonT(60) DEF LineStep
  <2> QED BY <1>6, <2>6 DEF x
<1>9. CASE ~LineRun(px, n, q)
  <2>1. x = Chunk(c - 1, SubSeq(px, q, q + c - 1))
    BY <1>4, <1>7, <1>9 DEF x
  <2>2. LineStep(px, n, x, q, q + c)
    BY <1>4, <2>1, ZenonT(60) DEF LineStep
  <2> QED BY <1>6, <2>2 DEF x
<1> QED BY <1>8, <1>9

LEMMA LineAdvances ==
  ASSUME NEW px, IsSeq(px), NEW n \in Nat, n = Len(px)
  PROVE  Advances(1..n + 1, LineLeft(n), LineNext(px, n))
<1> DEFINE D == 1..n + 1
           mu == LineLeft(n)
           nx == LineNext(px, n)
<1>1. ASSUME NEW q \in D
      PROVE  mu[q] \in Nat /\ nx[q] \in D /\ (mu[q] # 0 => mu[nx[q]] < mu[q])
  <2>1. mu[q] = n + 1 - q /\ mu[q] \in Nat
    BY DEF LineLeft
  <2>2. CASE q = n + 1
    <3>1. nx[q] = q
      BY <2>2 DEF LineNext
    <3> QED BY <2>1, <2>2, <3>1
  <2>3. CASE q # n + 1
    <3>1. q \in 1..n
      BY <2>3
    <3>2. LineStep(px, n, LineChunk(px, n)[q], q, nx[q])
      BY <3>1, OneLineStep
    <3>3. PICK c \in 1..128, q2 \in 1..n + 1 : q2 = nx[q] /\ q2 = q + c
      BY <3>2 DEF LineStep
    <3>4. mu[q2] = n + 1 - q2
      BY DEF LineLeft
    <3>5. n + 1 - q2 < n + 1 - q
      BY <3>3
    <3> HIDE DEF mu, nx
    <3> QED BY <2>1, <3>3, <3>4, <3>5
  <2> QED BY <2>2, <2>3
<1>2. mu \in [D -> Nat] /\ nx \in [D -> D]
  <2>1. mu = [q \in D |-> mu[q]] /\ nx = [q \in D |-> nx[q]]
    BY DEF LineLeft, LineNext
  <2> HIDE DEF D, mu, nx
  <2> QED BY <1>1, <2>1
<1> QED BY <1>1, <1>2 DEF Advances

LEMMA LinePath ==
  ASSUME NEW px, IsSeq(px), NEW n \in Nat, n = Len(px)
  PROVE  \E e : Path(e, packl(px), 1, 1..n + 1, LineLeft(n), LineChunk(px, n), LineNext(px, n))
<1> DEFINE D == 1..n + 1
           mu == LineLeft(n)
           ch == LineChunk(px, n)
           nx == LineNext(px, n)
           Made(f) == [q \in 1..n + 1 |->
             LET j == IF q = n THEN n ELSE packl_end(px, q)
                 run == q < n /\ px[q] = px[q + 1]
             IN IF q > n THEN <<>>
                ELSE <<IF run THEN Chunk((q - j) % 256, <<px[q]>>) ELSE Chunk(j - q, SubSeq(px, q, j))>>
                       \o f[j + 1]]
           E == CHOOSE f : f = Made(f)
<1>1. packl(px) = E[1]
  BY DEF packl
<1>2. ASSUME NEW f PROVE Made(f) = [d \in D |-> IF mu[d] = 0 THEN <<>> ELSE <<ch[d]>> \o f[nx[d]]]
  <2>1. ASSUME NEW q \in D
        PROVE  Made(f)[q] = IF mu[q] = 0 THEN <<>> ELSE <<ch[q]>> \o f[nx[q]]
    <3>1. mu[q] = n + 1 - q
      BY DEF LineLeft
    <3>2. CASE q = n + 1
      <4>1. mu[q] = 0 /\ q > n
        BY <3>1, <3>2
      <4> QED BY <4>1
    <3>3. CASE q # n + 1
      <4>1. mu[q] # 0 /\ ~(q > n)
        BY <3>1, <3>3
      <4> QED BY <4>1 DEF LineChunk, LineNext, LineEnd, LineRun
    <3> QED BY <3>2, <3>3
  <2>2. Made(f) = [d \in D |-> Made(f)[d]]
    OBVIOUS
  <2> HIDE DEF Made, D, mu, ch, nx
  <2> QED BY <2>1, <2>2, SMTT(60)
<1>3. Advances(D, mu, nx)
  BY LineAdvances
<1>4. \A d \in D : mu[d] <= n
  BY DEF LineLeft
<1>5. 1 \in D
  OBVIOUS
<1> HIDE DEF D, mu, ch, nx, Made
<1>6. PICK g : Chunked(g, D, mu, ch, nx)
  BY <1>3, <1>4, ChunkedExists
<1>7. g = Made(g)
  BY <1>2, <1>6 DEF Chunked
<1>8. E = Made(E)
  BY <1>7
<1> HIDE DEF E
<1>9. Chunked(E, D, mu, ch, nx)
  BY <1>2, <1>8 DEF Chunked
<1>10. \E e : Path(e, E[1], 1, D, mu, ch, nx)
  BY <1>3, <1>5, <1>9, PathOf
<1> QED BY <1>1, <1>10 DEF D, mu, ch, nx

UnpacksTo(px, x, q, q2) == SubSeq(px, 1, q - 1) \o unpacked(x) = SubSeq(px, 1, q2 - 1)

\* A chunk of packl is read as the pixels it was made of.
LEMMA StepUnpacks ==
  ASSUME NEW px, IsSeq(px), NEW n \in Nat, n = Len(px), NEW x, NEW q, NEW q2,
         LineStep(px, n, x, q, q2)
  PROVE  UnpacksTo(px, x, q, q2)
<1>1. q \in 1..n /\ q2 \in 1..n + 1
  BY DEF LineStep
<1>2. PICK c \in 1..128 :
       /\ q2 = q + c
       /\ \/ /\ c # 1 /\ \A j \in 0..c - 1 : px[q + j] = px[q]
             /\ x = Chunk(257 - c, <<px[q]>>)
          \/ x = Chunk(c - 1, SubSeq(px, q, q + c - 1))
  BY ZenonT(60) DEF LineStep
<1>3. q \in Nat \ {0} /\ c \in Nat /\ q + c <= n + 1 /\ q + c - 1 <= n
  BY <1>1, <1>2
<1>4. PartOf(unpacked(x), px, q, q + c - 1)
  <2>1. CASE c # 1 /\ (\A j \in 0..c - 1 : px[q + j] = px[q]) /\ x = Chunk(257 - c, <<px[q]>>)
    <3>1. x.flag = 257 - c /\ x.px[1] = px[q]
      BY <2>1 DEF Chunk
    <3>2. 257 - c > 128 /\ (257 - c) - 256 < 0 /\ 1 - ((257 - c) - 256) = c
      BY <2>1
    <3>3. unpacked(x) = Repeat(px[q], c)
      BY <3>1, <3>2 DEF unpacked
    <3> QED BY <1>3, <2>1, <3>3, Repeated, ZenonT(60)
  <2>2. CASE x = Chunk(c - 1, SubSeq(px, q, q + c - 1))
    <3>1. x.flag = c - 1 /\ x.px = SubSeq(px, q, q + c - 1)
      BY <2>2 DEF Chunk
    <3>2. ~(c - 1 > 128) /\ c - 1 # 128 /\ ~(c - 1 < 0) /\ (c - 1) + 1 = c
      OBVIOUS
    <3>3. unpacked(x) = SubSeq(SubSeq(px, q, q + c - 1), 1, c)
      BY <3>1, <3>2, ZenonT(60) DEF unpacked
    <3> QED BY <1>3, <3>3, SeriesPart
  <2> QED BY <1>2, <2>1, <2>2, SMTT(60)
<1>5. SubSeq(px, 1, q - 1) \o unpacked(x) = SubSeq(px, 1, q + c - 1)
  BY <1>3, <1>4, PartsJoin
<1>6. q2 - 1 = q + c - 1
  <2>1. q2 = q + c
    BY <1>2
  <2> QED BY <1>3, <2>1
<1> HIDE DEF unpacked
<1> QED BY <1>5, <1>6, ZenonT(60) DEF UnpacksTo

\* Pixels are read until there are enough.
UnpackedAs(P, s, L, size) ==
  /\ L = Len(s) /\ P[0] = <<>> /\ Len(P[L]) <= size
  /\ \A k \in 1..L : ~(Len(P[k - 1]) >= size) /\ P[k] = P[k - 1] \o unpacked(s[k])

LEMMA UnpackedIs ==
  ASSUME NEW s, NEW L \in Nat, NEW P, NEW size, UnpackedAs(P, s, L, size)
  PROVE  unpackl(s, size) = [ok |-> TRUE, px |-> P[L]]
<1> DEFINE Made(f) == [n \in 0..L |->
             IF n = 0 THEN <<>>
             ELSE LET o == f[n - 1] IN IF Len(o) >= size THEN o ELSE o \o unpacked(s[n])]
           E == CHOOSE f : f = Made(f)
           G == [k \in 0..L |-> P[k]]
<1> USE DEF UnpackedAs
<1>1. unpackl(s, size) = [ok |-> Len(E[L]) <= size, px |-> E[L]]
  BY DEF unpackl
<1>2. G = Made(G)
  <2>1. ASSUME NEW k \in 0..L
        PROVE  G[k] = IF k = 0 THEN <<>>
                      ELSE IF Len(G[k - 1]) >= size THEN G[k - 1] ELSE G[k - 1] \o unpacked(s[k])
    <3>1. CASE k = 0
      BY <3>1
    <3>2. CASE k # 0
      <4>1. k \in 1..L /\ k - 1 \in 0..L
        BY <3>2
      <4>2. G[k - 1] = P[k - 1] /\ G[k] = P[k]
        BY <4>1
      <4>3. ~(Len(P[k - 1]) >= size) /\ P[k] = P[k - 1] \o unpacked(s[k])
        BY <4>1
      <4> HIDE DEF G
      <4> QED BY <3>2, <4>2, <4>3
    <3> QED BY <3>1, <3>2
  <2>2. G = [k \in 0..L |-> G[k]]
    OBVIOUS
  <2> HIDE DEF G
  <2> QED BY <2>1, <2>2
<1>3. E = Made(E)
  <2> HIDE DEF Made, G
  <2> QED BY <1>2
<1> HIDE DEF E
<1>4. E[0] = P[0]
  <2>1. 0 \in 0..L
    OBVIOUS
  <2> QED BY <1>3, <2>1
<1>5. ASSUME NEW k \in 1..L, E[k - 1] = P[k - 1] PROVE E[k] = P[k]
  <2>1. k \in 0..L /\ k # 0
    OBVIOUS
  <2>2. E[k] = IF Len(E[k - 1]) >= size THEN E[k - 1] ELSE E[k - 1] \o unpacked(s[k])
    BY <1>3, <2>1
  <2>3. ~(Len(P[k - 1]) >= size) /\ P[k] = P[k - 1] \o unpacked(s[k])
    OBVIOUS
  <2> QED BY <1>5, <2>2, <2>3
<1>6. E[L] = P[L]
  <2>1. \A k \in 0..L : E[k] = P[k]
    <3>1. \A k \in 1..L : E[k - 1] = P[k - 1] => E[k] = P[k]
      BY <1>5
    <3> HIDE DEF UnpackedAs
    <3> QED BY <1>4, <3>1, SameSteps
  <2> QED BY <2>1
<1>7. (Len(P[L]) <= size) = TRUE
  OBVIOUS
<1> QED BY <1>1, <1>6, <1>7

\* The stream s is made of the pixels of px from place a on to place b.
LinedBy(px, n, s, a, b, L, e) ==
  /\ IsSeq(s) /\ L = Len(s) /\ e \in [1..L + 1 -> 1..n + 1] /\ e[1] = a /\ e[L + 1] = b
  /\ \A k \in 1..L : LineStep(px, n, s[k], e[k], e[k + 1])
Lined(px, n, s, a, b) == \E L \in Nat : \E e : LinedBy(px, n, s, a, b, L, e)

LEMMA LineLined ==
  ASSUME NEW px, IsSeq(px), NEW n \in Nat, n = Len(px)
  PROVE  Lined(px, n, packl(px), 1, n + 1)
<1> DEFINE s == packl(px)
           D == 1..n + 1
           mu == LineLeft(n)
           ch == LineChunk(px, n)
           nx == LineNext(px, n)
<1>2. PICK e : Path(e, s, 1, D, mu, ch, nx)
  BY LinePath
<1>3. /\ IsSeq(s) /\ e \in [1..Len(s) + 1 -> D] /\ e[1] = 1 /\ mu[e[Len(s) + 1]] = 0
      /\ \A k \in 1..Len(s) : mu[e[k]] # 0 /\ e[k + 1] = nx[e[k]] /\ s[k] = ch[e[k]]
  <2> HIDE DEF s, D, mu, ch, nx
  <2> QED BY <1>2 DEF Path
<1>4. PICK L \in Nat : L = Len(s)
  BY <1>3, Lengths
<1>5. \A q \in D : mu[q] = n + 1 - q
  BY DEF LineLeft
<1> HIDE DEF s, mu, ch, nx
<1>6. \A k \in 1..L + 1 : e[k] \in 1..n + 1
  BY <1>3, <1>4
<1>7. e[L + 1] = n + 1
  <2>1. L + 1 \in 1..L + 1
    OBVIOUS
  <2>2. PICK q \in 1..n + 1 : q = e[L + 1]
    BY <1>6, <2>1
  <2>3. n + 1 - q = 0
    BY <1>3, <1>4, <1>5, <2>2
  <2>4. q = n + 1
    BY <2>3
  <2> QED BY <2>2, <2>4
<1>8. ASSUME NEW k \in 1..L PROVE LineStep(px, n, s[k], e[k], e[k + 1])
  <2>1. k \in 1..L + 1
    OBVIOUS
  <2>2. PICK q \in 1..n + 1 : q = e[k]
    BY <1>6, <2>1
  <2>3. n + 1 - q # 0
    BY <1>3, <1>4, <1>5, <2>2
  <2>4. q \in 1..n
    BY <2>3
  <2>5. LineStep(px, n, LineChunk(px, n)[q], q, LineNext(px, n)[q])
    BY <2>4, OneLineStep
  <2>6. e[k + 1] = nx[q] /\ s[k] = ch[q]
    BY <1>3, <1>4, <2>2
  <2> QED BY <2>2, <2>5, <2>6 DEF ch, nx
<1>9. LinedBy(px, n, s, 1, n + 1, L, e)
  BY <1>3, <1>4, <1>7, <1>8 DEF LinedBy
<1> QED BY <1>9 DEF Lined, s

\* Reading the stream of a whole picture gives the picture.
LEMMA LinedUnpacks ==
  ASSUME NEW px, IsSeq(px), NEW n \in Nat, n = Len(px), NEW s, Lined(px, n, s, 1, n + 1)
  PROVE  unpackl(s, n) = [ok |-> TRUE, px |-> px]
<1>1. PICK L \in Nat : \E e : LinedBy(px, n, s, 1, n + 1, L, e)
  BY DEF Lined
<1>2. PICK e : LinedBy(px, n, s, 1, n + 1, L, e)
  BY <1>1
<1>3. /\ L = Len(s) /\ e \in [1..L + 1 -> 1..n + 1] /\ e[1] = 1 /\ e[L + 1] = n + 1
      /\ \A k \in 1..L : LineStep(px, n, s[k], e[k], e[k + 1])
  BY <1>2 DEF LinedBy
<1> DEFINE P == [k \in 0..L |-> SubSeq(px, 1, e[k + 1] - 1)]
<1>4. P[0] = <<>>
  <2>1. 0 \in 0..L /\ 0 + 1 = 1 /\ 1 - 1 = 0
    OBVIOUS
  <2>2. P[0] = SubSeq(px, 1, 0)
    BY <1>3, <2>1
  <2> QED BY <2>2, NoneYet
<1>5. P[L] = px
  <2>1. L \in 0..L /\ (n + 1) - 1 = n
    OBVIOUS
  <2>2. P[L] = SubSeq(px, 1, n)
    BY <1>3, <2>1
  <2> QED BY <2>2, Whole
<1>6. ASSUME NEW k \in 1..L
      PROVE  ~(Len(P[k - 1]) >= n) /\ P[k] = P[k - 1] \o unpacked(s[k])
  <2>1. k \in 0..L /\ k - 1 \in 0..L /\ (k - 1) + 1 = k
    OBVIOUS
  <2>2. P[k] = SubSeq(px, 1, e[k + 1] - 1) /\ P[k - 1] = SubSeq(px, 1, e[k] - 1)
    BY <2>1
  <2> HIDE DEF P
  <2>3. LineStep(px, n, s[k], e[k], e[k + 1])
    BY <1>3
  <2>4. UnpacksTo(px, s[k], e[k], e[k + 1])
    BY <2>3, StepUnpacks
  <2>5. P[k] = P[k - 1] \o unpacked(s[k])
    BY <2>2, <2>4 DEF UnpacksTo
  <2>6. PICK q \in 1..n : q = e[k]
    BY <2>3 DEF LineStep
  <2>7. q - 1 \in Nat /\ q - 1 <= n /\ ~(q - 1 >= n) /\ (q - 1) - 1 + 1 = q - 1 /\ (1 <= q - 1 \/ q - 1 = 0)
    OBVIOUS
  <2>8. Len(SubSeq(px, 1, q - 1)) = q - 1
    <3>1. PartOf(SubSeq(px, 1, q - 1), px, 1, q - 1)
      BY <2>7, Part
    <3> QED BY <2>7, <3>1 DEF PartOf
  <2>9. Len(P[k - 1]) = q - 1
    BY <2>2, <2>6, <2>8
  <2> QED BY <2>5, <2>7, <2>9
<1> HIDE DEF P
<1>7. UnpackedAs(P, s, L, n)
  <2>1. Len(P[L]) <= n
    <3>1. n <= n
      OBVIOUS
    <3> QED BY <1>5, <3>1
  <2> QED BY <1>3, <1>4, <1>6, <2>1 DEF UnpackedAs
<1>8. unpackl(s, n) = [ok |-> TRUE, px |-> P[L]]
  BY <1>7, UnpackedIs
<1> QED BY <1>5, <1>8

\* What a stream takes is a number of bytes.
LEMMA LinedBytes ==
  ASSUME NEW px, IsSeq(px), NEW n \in Nat, n = Len(px), NEW s, NEW a, NEW b,
         Lined(px, n, s, a, b), NEW bpp \in Nat
  PROVE  ChunkBytes(s, bpp) \in Nat
<1>1. PICK L \in Nat : \E e : LinedBy(px, n, s, a, b, L, e)
  BY DEF Lined
<1>2. PICK e : LinedBy(px, n, s, a, b, L, e)
  BY <1>1
<1>3. L = Len(s) /\ \A k \in 1..L : LineStep(px, n, s[k], e[k], e[k + 1])
  BY <1>2 DEF LinedBy
<1>4. PICK f : Sized(f, s, L, bpp)
  BY <1>3, BytesAre
<1>5. /\ ChunkBytes(s, bpp) = f[L] /\ f[0] = 0
      /\ \A k \in 1..L : f[k] = f[k - 1] + (1 + bpp * Len(s[k].px))
  BY <1>4 DEF Sized
<1>6. ASSUME NEW k \in 1..L PROVE bpp * Len(s[k].px) \in Nat
  <2>1. LineStep(px, n, s[k], e[k], e[k + 1])
    BY <1>3
  <2>2. PICK q \in 1..n : q = e[k]
    BY <2>1, SMTT(60) DEF LineStep
  <2>3. PICK c \in 1..128 : /\ q + c \in 1..n + 1
                            /\ s[k].px = <<px[q]>> \/ s[k].px = SubSeq(px, q, q + c - 1)
    <3>1. e[k + 1] \in 1..n + 1
      BY <2>1 DEF LineStep
    <3>2. PICK c \in 1..128 : /\ e[k + 1] = q + c
                              /\ \/ s[k] = Chunk(257 - c, <<px[q]>>)
                                 \/ s[k] = Chunk(c - 1, SubSeq(px, q, q + c - 1))
      BY <2>1, <2>2, ZenonT(60) DEF LineStep
    <3>3. s[k].px = <<px[q]>> \/ s[k].px = SubSeq(px, q, q + c - 1)
      BY <3>2 DEF Chunk
    <3> QED BY <3>1, <3>2, <3>3, ZenonT(60)
  <2>4. Len(s[k].px) \in Nat
    <3>1. CASE s[k].px = <<px[q]>>
      BY <3>1, OneOrTwo
    <3>2. CASE s[k].px = SubSeq(px, q, q + c - 1)
      <4>1. q \in Nat \ {0} /\ q + c - 1 \in Nat /\ q + c - 1 <= n
        BY <2>3
      <4>2. PartOf(s[k].px, px, q, q + c - 1)
        BY <3>2, <4>1, Part
      <4>3. IsSeq(s[k].px)
        BY <4>2 DEF PartOf
      <4> QED BY <4>3, Lengths
    <3> QED BY <2>3, <3>1, <3>2
  <2>5. \A u, v \in Nat : u * v \in Nat
    OBVIOUS
  <2> QED BY <2>4, <2>5
<1> DEFINE S == {m \in Nat : m <= L => f[m] \in Nat}
<1>7. 0 \in S
  BY <1>5
<1>8. ASSUME NEW m \in S PROVE m + 1 \in S
  <2> SUFFICES ASSUME m + 1 <= L PROVE f[m + 1] \in Nat
    OBVIOUS
  <2>1. m + 1 \in 1..L /\ (m + 1) - 1 = m /\ m <= L
    OBVIOUS
  <2>2. PICK u \in Nat, v \in Nat : u = f[m] /\ v = bpp * Len(s[m + 1].px)
    BY <1>6, <2>1
  <2>3. f[m + 1] = u + (1 + v)
    BY <1>5, <2>1, <2>2
  <2> QED BY <2>3
<1>9. S = Nat
  <2>1. S \in SUBSET Nat
    OBVIOUS
  <2> HIDE DEF S
  <2> QED BY <1>7, <1>8, <2>1, Induction
<1> QED BY <1>5, <1>9

\* unpackl, reading what packl wrote, gives the line back and finds neither too few
\* pixels nor too many: a line that was packed for a sprite can be extracted.
THEOREM PackUnpack ==
  ASSUME NEW px, IsSeq(px)
  PROVE  unpackl(packl(px), Len(px)) = [ok |-> TRUE, px |-> px]
<1>1. PICK n \in Nat : n = Len(px)
  BY Lengths
<1>2. Lined(px, n, packl(px), 1, n + 1)
  BY <1>1, LineLined
<1> QED BY <1>1, <1>2, LinedUnpacks

-----------------------------------------------------------------------------
(* ags_pack packs a picture line by line                                   *)

\* The streams of two parts, one behind the other.
LEMMA LinedJoin ==
  ASSUME NEW px, NEW n \in Nat, NEW s, NEW t, NEW a, NEW b, NEW c,
         Lined(px, n, s, a, b), Lined(px, n, t, b, c)
  PROVE  Lined(px, n, s \o t, a, c)
<1>1. PICK L \in Nat : \E e : LinedBy(px, n, s, a, b, L, e)
  BY DEF Lined
<1>2. PICK e : LinedBy(px, n, s, a, b, L, e)
  BY <1>1
<1>3. PICK M \in Nat : \E f : LinedBy(px, n, t, b, c, M, f)
  BY DEF Lined
<1>4. PICK f : LinedBy(px, n, t, b, c, M, f)
  BY <1>3
<1>5. /\ IsSeq(s) /\ L = Len(s) /\ e \in [1..L + 1 -> 1..n + 1] /\ e[1] = a /\ e[L + 1] = b
      /\ \A k \in 1..L : LineStep(px, n, s[k], e[k], e[k + 1])
  BY <1>2 DEF LinedBy
<1>6. /\ IsSeq(t) /\ M = Len(t) /\ f \in [1..M + 1 -> 1..n + 1] /\ f[1] = b /\ f[M + 1] = c
      /\ \A k \in 1..M : LineStep(px, n, t[k], f[k], f[k + 1])
  BY <1>4 DEF LinedBy
<1>7. PICK r \in {s \o t} : Joins(r, s, t)
  BY <1>5, <1>6, Joined
<1>8. /\ IsSeq(r) /\ Len(r) = L + M
      /\ \A k \in 1..L : r[k] = s[k]
      /\ \A k \in 1..M : r[L + k] = t[k]
  BY <1>5, <1>6, <1>7 DEF Joins
<1> DEFINE h == [k \in 1..(L + M) + 1 |-> IF k <= L THEN e[k] ELSE f[k - L]]
<1>9. /\ \A k \in 1..L : h[k] = e[k]
      /\ \A k \in 1..M + 1 : h[L + k] = f[k]
  <2>1. \A k \in 1..L : k \in 1..(L + M) + 1 /\ k <= L
    OBVIOUS
  <2>2. \A k \in 1..M + 1 : L + k \in 1..(L + M) + 1 /\ ~(L + k <= L) /\ (L + k) - L = k
    OBVIOUS
  <2> QED BY <2>1, <2>2
<1>10. h \in [1..(L + M) + 1 -> 1..n + 1]
  <2>1. ASSUME NEW k \in 1..(L + M) + 1 PROVE (IF k <= L THEN e[k] ELSE f[k - L]) \in 1..n + 1
    <3>1. CASE k <= L
      <4>1. k \in 1..L + 1
        BY <3>1
      <4> QED BY <1>5, <3>1, <4>1
    <3>2. CASE ~(k <= L)
      <4>1. k - L \in 1..M + 1
        BY <3>2
      <4> QED BY <1>6, <3>2, <4>1
    <3> QED BY <3>1, <3>2
  <2> QED BY <2>1
<1> HIDE DEF h
<1>11. h[1] = a
  <2>1. CASE L = 0
    <3>1. 1 \in 1..M + 1 /\ L + 1 = 1
      BY <2>1
    <3>2. h[1] = f[1] /\ e[1] = b
      BY <1>5, <1>9, <3>1
    <3> QED BY <1>5, <1>6, <3>2
  <2>2. CASE L # 0
    <3>1. 1 \in 1..L
      BY <2>2
    <3> QED BY <1>5, <1>9, <3>1
  <2> QED BY <2>1, <2>2
<1>12. h[(L + M) + 1] = c
  <2>1. M + 1 \in 1..M + 1 /\ L + (M + 1) = (L + M) + 1
    OBVIOUS
  <2> QED BY <1>6, <1>9, <2>1
<1>13. ASSUME NEW k \in 1..L + M PROVE LineStep(px, n, r[k], h[k], h[k + 1])
  <2>1. CASE k <= L
    <3>1. k \in 1..L
      BY <2>1
    <3>2. h[k + 1] = e[k + 1]
      <4>1. CASE k = L
        <5>1. k + 1 = L + 1 /\ 1 \in 1..M + 1
          BY <4>1
        <5>2. h[L + 1] = f[1]
          BY <1>9, <5>1
        <5> QED BY <1>5, <1>6, <5>1, <5>2
      <4>2. CASE k # L
        <5>1. k + 1 \in 1..L
          BY <3>1, <4>2
        <5> QED BY <1>9, <5>1
      <4> QED BY <4>1, <4>2
    <3>3. h[k] = e[k] /\ r[k] = s[k] /\ LineStep(px, n, s[k], e[k], e[k + 1])
      BY <1>5, <1>8, <1>9, <3>1
    <3> QED BY <3>2, <3>3
  <2>2. CASE ~(k <= L)
    <3>1. PICK m \in 1..M : k = L + m
      <4>1. k - L \in 1..M /\ k = L + (k - L)
        BY <2>2
      <4> QED BY <4>1
    <3>2. m \in 1..M + 1 /\ m + 1 \in 1..M + 1 /\ L + (m + 1) = k + 1
      BY <3>1
    <3>3. h[k] = f[m] /\ h[k + 1] = f[m + 1]
      BY <1>9, <3>1, <3>2
    <3>4. r[k] = t[m] /\ LineStep(px, n, t[m], f[m], f[m + 1])
      BY <1>6, <1>8, <3>1
    <3> QED BY <3>3, <3>4
  <2> QED BY <2>1, <2>2
<1>14. LinedBy(px, n, r, a, c, L + M, h)
  BY <1>8, <1>10, <1>11, <1>12, <1>13 DEF LinedBy
<1>15. L + M \in Nat
  OBVIOUS
<1>16. Lined(px, n, r, a, c)
  BY <1>14, <1>15 DEF Lined
<1> QED BY <1>7, <1>16

LEMMA LinedNone ==
  ASSUME NEW px, NEW n \in Nat, NEW s, IsSeq(s), Len(s) = 0, NEW a \in 1..n + 1
  PROVE  Lined(px, n, s, a, a)
<1> DEFINE e == [k \in 1..0 + 1 |-> a]
<1>1. 1 \in 1..0 + 1 /\ 0 + 1 \in 1..0 + 1 /\ \A k \in 1..0 : FALSE
  OBVIOUS
<1>2. e \in [1..0 + 1 -> 1..n + 1] /\ e[1] = a /\ e[0 + 1] = a
  BY <1>1
<1> HIDE DEF e
<1>3. LinedBy(px, n, s, a, a, 0, e)
  BY <1>1, <1>2 DEF LinedBy
<1> QED BY <1>3 DEF Lined

\* A part of a part.
LEMMA PartPart ==
  ASSUME NEW s, IsSeq(s), NEW o \in Nat, NEW w \in Nat, o + w <= Len(s),
         NEW q \in Nat \ {0}, NEW c \in Nat \ {0}, q + c <= w + 1
  PROVE  SubSeq(SubSeq(s, o + 1, o + w), q, q + c - 1) = SubSeq(s, o + q, o + q + c - 1)
<1>1. PICK n \in Nat : n = Len(s)
  BY Lengths
<1>2. /\ o + 1 \in Nat \ {0} /\ o + w \in Nat /\ o + w <= n /\ (o + w) - (o + 1) + 1 = w
      /\ o + 1 <= o + w
  BY <1>1
<1>3. PICK p \in {SubSeq(s, o + 1, o + w)} : PartOf(p, s, o + 1, o + w)
  BY <1>1, <1>2, Part
<1>4. IsSeq(p) /\ Len(p) = w /\ \A k \in 1..w : p[k] = s[(o + 1) + k - 1]
  BY <1>2, <1>3 DEF PartOf
<1>5. /\ q + c - 1 \in Nat /\ q + c - 1 <= w /\ (q + c - 1) - q + 1 = c /\ q <= q + c - 1
      /\ o + q \in Nat \ {0} /\ o + q + c - 1 \in Nat /\ o + q + c - 1 <= n
      /\ (o + q + c - 1) - (o + q) + 1 = c /\ o + q <= o + q + c - 1
  BY <1>1
<1>6. PICK x \in {SubSeq(p, q, q + c - 1)} : PartOf(x, p, q, q + c - 1)
  BY <1>4, <1>5, Part
<1>7. PICK y \in {SubSeq(s, o + q, o + q + c - 1)} : PartOf(y, s, o + q, o + q + c - 1)
  BY <1>1, <1>5, Part
<1>8. IsSeq(x) /\ Len(x) = c /\ \A k \in 1..c : x[k] = p[q + k - 1]
  BY <1>5, <1>6 DEF PartOf
<1>9. IsSeq(y) /\ Len(y) = c /\ \A k \in 1..c : y[k] = s[(o + q) + k - 1]
  BY <1>5, <1>7 DEF PartOf
<1>10. ASSUME NEW k \in 1..c PROVE x[k] = y[k]
  <2>1. q + k - 1 \in 1..w /\ (o + 1) + (q + k - 1) - 1 = (o + q) + k - 1
    OBVIOUS
  <2> QED BY <1>4, <1>8, <1>9, <2>1
<1>11. x = y
  BY <1>8, <1>9, <1>10, SameSeq
<1> QED BY <1>3, <1>6, <1>7, <1>11

\* A step in a line is a step in the picture the line is a part of.
LEMMA ShiftedStep ==
  ASSUME NEW px, IsSeq(px), NEW n \in Nat, n = Len(px), NEW o \in Nat, NEW w \in Nat, o + w <= n,
         NEW line, line = SubSeq(px, o + 1, o + w), NEW x, NEW q, NEW q2,
         LineStep(line, w, x, q, q2)
  PROVE  LineStep(px, n, x, o + q, o + q2)
<1>1. PartOf(line, px, o + 1, o + w)
  <2>1. o + 1 \in Nat \ {0} /\ o + w \in Nat /\ o + w <= Len(px)
    OBVIOUS
  <2> QED BY <2>1, Part
<1>2. \A k \in 1..w : line[k] = px[o + k]
  <2>1. (o + w) - (o + 1) + 1 = w /\ \A k \in 1..w : (o + 1) + k - 1 = o + k
    OBVIOUS
  <2> QED BY <1>1, <2>1 DEF PartOf
<1>3. q \in 1..w /\ q2 \in 1..w + 1
  BY SMTT(60) DEF LineStep
<1>4. PICK c \in 1..128 :
       /\ q2 = q + c
       /\ \/ /\ c # 1 /\ \A j \in 0..c - 1 : line[q + j] = line[q]
             /\ x = Chunk(257 - c, <<line[q]>>)
          \/ x = Chunk(c - 1, SubSeq(line, q, q + c - 1))
  BY ZenonT(60) DEF LineStep
<1>5. q + c <= w + 1 /\ c \in Nat \ {0} /\ q \in Nat \ {0}
  BY <1>3, <1>4
<1>6. o + q \in 1..n /\ o + q2 \in 1..n + 1 /\ o + q2 = (o + q) + c
  BY <1>3, <1>4, <1>5, SMTT(60)
<1>7. CASE /\ c # 1 /\ \A j \in 0..c - 1 : line[q + j] = line[q]
           /\ x = Chunk(257 - c, <<line[q]>>)
  <2>1. line[q] = px[o + q]
    BY <1>2, <1>3
  <2>2. ASSUME NEW j \in 0..c - 1 PROVE px[(o + q) + j] = px[o + q]
    <3>1. q + j \in 1..w /\ o + (q + j) = (o + q) + j
      BY <1>3, <1>5
    <3> QED BY <1>2, <1>7, <2>1, <3>1
  <2> QED BY <1>6, <1>7, <2>1, <2>2, ZenonT(60) DEF LineStep
<1>8. CASE x = Chunk(c - 1, SubSeq(line, q, q + c - 1))
  <2>1. SubSeq(SubSeq(px, o + 1, o + w), q, q + c - 1) = SubSeq(px, o + q, o + q + c - 1)
    BY <1>5, PartPart
  <2>2. x = Chunk(c - 1, SubSeq(px, o + q, (o + q) + c - 1))
    BY <1>8, <2>1
  <2> QED BY <1>6, <2>2, ZenonT(60) DEF LineStep
<1> QED BY <1>4, <1>7, <1>8

\* The stream of a line packs its part of the picture.
LEMMA Shifted ==
  ASSUME NEW px, IsSeq(px), NEW n \in Nat, n = Len(px), NEW o \in Nat, NEW w \in Nat, o + w <= n
  PROVE  Lined(px, n, packl(SubSeq(px, o + 1, o + w)), o + 1, (o + w) + 1)
<1> DEFINE line == SubSeq(px, o + 1, o + w)
           s == packl(line)
<1>1. IsSeq(line) /\ w = Len(line)
  <2>1. o + 1 \in Nat \ {0} /\ o + w \in Nat /\ o + w <= Len(px)
        /\ (o + w) - (o + 1) + 1 = w /\ (o + 1 <= o + w \/ w = 0)
    OBVIOUS
  <2>2. PartOf(line, px, o + 1, o + w)
    BY <2>1, Part
  <2>3. IsSeq(line) /\ Len(line) = IF o + 1 <= o + w THEN (o + w) - (o + 1) + 1 ELSE 0
    BY <2>2 DEF PartOf
  <2>4. ~(o + 1 <= o + w) => w = 0
    OBVIOUS
  <2> HIDE DEF line
  <2> QED BY <2>1, <2>3, <2>4
<1>2. Lined(line, w, s, 1, w + 1)
  <2> HIDE DEF line
  <2> QED BY <1>1, LineLined
<1>3. PICK L \in Nat : \E e : LinedBy(line, w, s, 1, w + 1, L, e)
  BY <1>2 DEF Lined
<1>4. PICK e : LinedBy(line, w, s, 1, w + 1, L, e)
  BY <1>3
<1>5. /\ IsSeq(s) /\ L = Len(s) /\ e \in [1..L + 1 -> 1..w + 1] /\ e[1] = 1 /\ e[L + 1] = w + 1
      /\ \A k \in 1..L : LineStep(line, w, s[k], e[k], e[k + 1])
  BY <1>4 DEF LinedBy
<1> DEFINE f == [k \in 1..L + 1 |-> o + e[k]]
<1>6. \A k \in 1..L + 1 : e[k] \in 1..w + 1 /\ f[k] = o + e[k]
  BY <1>5
<1>7. f \in [1..L + 1 -> 1..n + 1]
  <2>1. ASSUME NEW k \in 1..L + 1 PROVE o + e[k] \in 1..n + 1
    <3>1. PICK q \in 1..w + 1 : q = e[k]
      BY <1>6
    <3>2. o + q \in 1..n + 1
      OBVIOUS
    <3> QED BY <3>1, <3>2
  <2> QED BY <2>1
<1>8. f[1] = o + 1 /\ f[L + 1] = (o + w) + 1
  <2>1. 1 \in 1..L + 1 /\ L + 1 \in 1..L + 1 /\ o + (w + 1) = (o + w) + 1
    OBVIOUS
  <2> HIDE DEF f
  <2> QED BY <1>5, <1>6, <2>1
<1>9. ASSUME NEW k \in 1..L PROVE LineStep(px, n, s[k], f[k], f[k + 1])
  <2>1. LineStep(px, n, s[k], o + e[k], o + e[k + 1])
    <3>1. LineStep(line, w, s[k], e[k], e[k + 1])
      BY <1>5
    <3> HIDE DEF s
    <3> QED BY <3>1, ShiftedStep
  <2>2. k \in 1..L + 1 /\ k + 1 \in 1..L + 1
    OBVIOUS
  <2> HIDE DEF f
  <2> QED BY <1>6, <2>1, <2>2
<1> HIDE DEF f, s
<1>10. LinedBy(px, n, s, o + 1, (o + w) + 1, L, f)
  BY <1>5, <1>7, <1>8, <1>9 DEF LinedBy
<1>11. Lined(px, n, s, o + 1, (o + w) + 1)
  BY <1>10 DEF Lined
<1> QED BY <1>11 DEF s

\* The streams of the lines, joined one by one; g has them up to each line.
JoinsOf(g, F, m) == g = [k \in 1..m |-> IF k = 1 THEN F[k] ELSE g[k - 1] \o F[k]]

LEMMA JoinsExist ==
  ASSUME NEW F, NEW N \in Nat
  PROVE  \E g : JoinsOf(g, F, N)
<1> DEFINE Has(m) == \E g : JoinsOf(g, F, m)
           S == {m \in Nat : Has(m)}
<1>1. Has(0)
  <2> DEFINE g == [k \in 1..0 |-> 0]
  <2>1. g = [k \in 1..0 |-> IF k = 1 THEN F[k] ELSE g[k - 1] \o F[k]]
    <3>1. 1..0 = {}
      OBVIOUS
    <3> QED BY <3>1
  <2> QED BY <2>1 DEF JoinsOf
<1>2. ASSUME NEW m \in Nat, Has(m) PROVE Has(m + 1)
  <2>1. PICK h : h = [k \in 1..m |-> IF k = 1 THEN F[k] ELSE h[k - 1] \o F[k]]
    BY <1>2 DEF JoinsOf
  <2> DEFINE last == IF m = 0 THEN F[1] ELSE h[m] \o F[m + 1]
             g == [k \in 1..m + 1 |-> IF k = m + 1 THEN last ELSE h[k]]
  <2>2. ASSUME NEW k \in 1..m + 1
        PROVE  g[k] = IF k = 1 THEN F[k] ELSE g[k - 1] \o F[k]
    <3>1. CASE k = m + 1 /\ m = 0
      BY <3>1
    <3>2. CASE k = m + 1 /\ m # 0
      <4>1. k # 1 /\ k - 1 = m /\ m \in 1..m + 1 /\ m # m + 1
        BY <3>2
      <4>2. g[m] = h[m] /\ g[k] = h[m] \o F[m + 1]
        BY <3>2, <4>1
      <4> HIDE DEF g
      <4> QED BY <3>2, <4>1, <4>2
    <3>3. CASE k # m + 1 /\ k # 1
      <4>1. k \in 1..m /\ k - 1 \in 1..m + 1 /\ k - 1 # m + 1
        BY <3>3
      <4>2. g[k] = h[k] /\ g[k - 1] = h[k - 1]
        BY <3>3, <4>1
      <4>3. h[k] = h[k - 1] \o F[k]
        BY <2>1, <3>3, <4>1
      <4> HIDE DEF g
      <4> QED BY <3>3, <4>2, <4>3
    <3>4. CASE k # m + 1 /\ k = 1
      <4>1. 1 \in 1..m
        BY <3>4
      <4>2. h[1] = F[1]
        BY <2>1, <4>1
      <4> QED BY <3>4, <4>2
    <3> QED BY <3>1, <3>2, <3>3, <3>4
  <2>3. g = [k \in 1..m + 1 |-> IF k = 1 THEN F[k] ELSE g[k - 1] \o F[k]]
    <3>1. g = [k \in 1..m + 1 |-> g[k]]
      OBVIOUS
    <3> HIDE DEF g
    <3> QED BY <2>2, <3>1
  <2> QED BY <2>3 DEF JoinsOf
<1> HIDE DEF Has
<1>3. S = Nat
  <2>1. 0 \in S /\ \A m \in S : m + 1 \in S
    BY <1>1, <1>2
  <2>2. S \in SUBSET Nat
    OBVIOUS
  <2> HIDE DEF S
  <2> QED BY <2>1, <2>2, Induction
<1>4. Has(N)
  BY <1>3
<1> QED BY <1>4 DEF Has

LEMMA Lines ==
  /\ \A h, w \in Nat : h * w \in Nat /\ w * h = h * w
  /\ \A h, w \in Nat : (h + 1) * w = h * w + w
  /\ \A w \in Nat : 0 * w = 0 /\ w * 0 = 0
  /\ \A y, h, w \in Nat : y <= h => y * w <= h * w
<1>1. /\ \A h, w \in Nat : h * w \in Nat /\ w * h = h * w
      /\ \A h, w \in Nat : (h + 1) * w = h * w + w
      /\ \A w \in Nat : 0 * w = 0 /\ w * 0 = 0
  OBVIOUS
<1>2. ASSUME NEW y \in Nat, NEW h \in Nat, NEW w \in Nat, y <= h PROVE y * w <= h * w
  <2>1. PICK d \in Nat : h = y + d
    <3>1. h - y \in Nat /\ h = y + (h - y)
      BY <1>2
    <3> QED BY <3>1
  <2>2. h * w = y * w + d * w
    BY <2>1
  <2>3. PICK a \in Nat, b \in Nat : a = y * w /\ b = d * w
    BY <1>1
  <2>4. a <= a + b
    OBVIOUS
  <2> QED BY <2>2, <2>3, <2>4
<1> QED BY <1>1, <1>2

\* A picture and its pixels.
IsPicture(d) == d.w \in Nat /\ d.h \in Nat /\ IsSeq(d.px) /\ Len(d.px) = d.w * d.h

\* What ags_pack makes of a picture packs all of its pixels.
LEMMA PictureLined ==
  ASSUME NEW d, IsPicture(d), NEW n \in Nat, n = d.w * d.h
  PROVE  Lined(d.px, n, ags_pack(d), 1, n + 1)
<1>1. PICK w \in Nat, h \in Nat : w = d.w /\ h = d.h
  BY DEF IsPicture
<1>2. PICK px \in {d.px} : IsSeq(px) /\ Len(px) = n
  BY DEF IsPicture
<1>3. n = h * w
  BY <1>1, Lines
<1> DEFINE F == [y \in 1..h |-> packl(SubSeq(px, (y - 1) * w + 1, y * w))]
<1>4. ags_pack(d) = FlattenSeq(F) /\ IsSeq(F) /\ Len(F) = h
  <2>1. ags_pack(d) = FlattenSeq(F)
    BY <1>1, <1>2 DEF ags_pack
  <2>2. F = [y \in 1..h |-> F[y]]
    OBVIOUS
  <2> HIDE DEF F
  <2> QED BY <2>1, <2>2, Numbered
<1>5. ASSUME NEW m \in Nat, m + 1 <= h
      PROVE  Lined(px, n, F[m + 1], m * w + 1, (m + 1) * w + 1)
  <2>1. m + 1 \in 1..h /\ (m + 1) - 1 = m
    BY <1>5
  <2>2. F[m + 1] = packl(SubSeq(px, m * w + 1, (m + 1) * w))
    BY <2>1
  <2>3. PICK o \in Nat : o = m * w
    BY Lines
  <2>4. (m + 1) * w = o + w
    BY <2>3, Lines
  <2>5. o + w <= n
    <3>1. (m + 1) * w <= h * w
      BY <1>5, Lines
    <3> QED BY <1>3, <2>4, <3>1
  <2> HIDE DEF F
  <2>6. Lined(px, n, packl(SubSeq(px, o + 1, o + w)), o + 1, (o + w) + 1)
    BY <1>2, <2>5, Shifted
  <2> QED BY <2>2, <2>3, <2>4, <2>6
<1> HIDE DEF F
<1>6. CASE h = 0
  <2>1. FlattenSeq(F) = F
    BY <1>4, <1>6 DEF FlattenSeq
  <2>2. n = 0
    BY <1>3, <1>6, Lines
  <2>3. 1 \in 1..n + 1 /\ n + 1 = 1
    BY <2>2
  <2>4. Lined(px, n, F, 1, 1)
    BY <1>4, <1>6, <2>3, LinedNone
  <2> QED BY <1>2, <1>4, <2>1, <2>3, <2>4
<1>7. CASE h # 0
  <2> DEFINE g == CHOOSE x : JoinsOf(x, F, h)
             S == {m \in Nat : m + 1 <= h => Lined(px, n, g[m + 1], 1, (m + 1) * w + 1)}
  <2>1. JoinsOf(g, F, h)
    BY JoinsExist
  <2>2. FlattenSeq(F) = g[h]
    BY <1>4, <1>7 DEF FlattenSeq, JoinsOf
  <2> HIDE DEF g
  <2>3. g = [k \in 1..h |-> IF k = 1 THEN F[k] ELSE g[k - 1] \o F[k]]
    BY <2>1 DEF JoinsOf
  <2>4. 0 \in S
    <3>1. 1 \in 1..h /\ 0 + 1 = 1 /\ 0 + 1 <= h
      BY <1>7
    <3>2. g[1] = F[1]
      BY <2>3, <3>1
    <3>3. Lined(px, n, F[0 + 1], 0 * w + 1, (0 + 1) * w + 1)
      BY <1>5, <3>1
    <3>4. 0 * w + 1 = 1
      BY Lines
    <3> QED BY <3>1, <3>2, <3>3, <3>4
  <2>5. ASSUME NEW m \in S PROVE m + 1 \in S
    <3> SUFFICES ASSUME (m + 1) + 1 <= h
                 PROVE  Lined(px, n, g[(m + 1) + 1], 1, ((m + 1) + 1) * w + 1)
      OBVIOUS
    <3>1. PICK k \in Nat : k = m + 1 /\ k + 1 <= h /\ k <= h /\ k # 0
      OBVIOUS
    <3>2. Lined(px, n, g[k], 1, k * w + 1)
      BY <3>1
    <3>3. Lined(px, n, F[k + 1], k * w + 1, (k + 1) * w + 1)
      BY <1>5, <3>1
    <3>4. g[k + 1] = g[k] \o F[k + 1]
      <4>1. k + 1 \in 1..h /\ k + 1 # 1 /\ (k + 1) - 1 = k
        BY <3>1
      <4> QED BY <2>3, <4>1
    <3>5. Lined(px, n, g[k] \o F[k + 1], 1, (k + 1) * w + 1)
      BY <3>2, <3>3, LinedJoin
    <3> QED BY <3>1, <3>4, <3>5
  <2>6. S = Nat
    <3>1. S \in SUBSET Nat
      OBVIOUS
    <3> HIDE DEF S
    <3> QED BY <2>4, <2>5, <3>1, Induction
  <2>7. PICK m \in Nat : m + 1 = h
    <3>1. h - 1 \in Nat /\ (h - 1) + 1 = h
      BY <1>7
    <3> QED BY <3>1
  <2>8. m + 1 <= h
    BY <2>7
  <2>9. Lined(px, n, g[m + 1], 1, (m + 1) * w + 1)
    BY <2>6, <2>8
  <2> QED BY <1>2, <1>3, <1>4, <2>2, <2>7, <2>9
<1> QED BY <1>6, <1>7

\* unpackl, reading the packed lines of a picture one behind the other, gives the
\* whole picture back, whatever its size: no line spills into the next, and every
\* sprite SpriteFile_add packed can be extracted.
THEOREM PictureUnpacks ==
  ASSUME NEW d, IsPicture(d)
  PROVE  unpackl(ags_pack(d), d.w * d.h) = [ok |-> TRUE, px |-> d.px]
<1>1. PICK n \in Nat : n = d.w * d.h /\ IsSeq(d.px) /\ n = Len(d.px)
  BY Lines DEF IsPicture
<1>2. Lined(d.px, n, ags_pack(d), 1, n + 1)
  BY <1>1, PictureLined
<1>3. unpackl(ags_pack(d), n) = [ok |-> TRUE, px |-> d.px]
  BY <1>1, <1>2, LinedUnpacks
<1> QED BY <1>1, <1>3

-----------------------------------------------------------------------------
(* The layout of a sprite file                                             *)

LaidOut(f, N) ==
  /\ Place(f, 0) = HeadBytes(f.version)
  /\ \A k \in 1..N : Place(f, k) = Place(f, k - 1) + SlotBytes(f, f.slots[k])

LEMMA Places ==
  ASSUME NEW f, NEW N \in Nat, N = Len(f.slots)
  PROVE  LaidOut(f, N)
<1> DEFINE a == HeadBytes(f.version)
           w == [k \in 1..N |-> SlotBytes(f, f.slots[k])]
           Made(p) == [n \in 0..N |-> IF n = 0 THEN a ELSE p[n - 1] + SlotBytes(f, f.slots[n])]
           E == CHOOSE p : p = Made(p)
<1>1. \A k : Place(f, k) = E[k]
  BY DEF Place
<1>2. PICK g : SumsOf(g, a, w, N)
  <2> HIDE DEF w, a
  <2> QED BY SumsExist
<1>3. g = Made(g)
  <2>1. \A k \in 0..N : k # 0 => w[k] = SlotBytes(f, f.slots[k])
    <3>1. \A k \in 0..N : k # 0 => k \in 1..N
      OBVIOUS
    <3> QED BY <3>1
  <2> HIDE DEF w, a
  <2> QED BY <1>2, <2>1 DEF SumsOf
<1>4. E = Made(E)
  <2> HIDE DEF Made
  <2> QED BY <1>3
<1> HIDE DEF E
<1>5. E[0] = a
  <2>1. 0 \in 0..N
    OBVIOUS
  <2> HIDE DEF a
  <2> QED BY <1>4, <2>1
<1>6. ASSUME NEW k \in 1..N PROVE E[k] = E[k - 1] + SlotBytes(f, f.slots[k])
  <2>1. k \in 0..N /\ k # 0
    OBVIOUS
  <2> HIDE DEF a
  <2> QED BY <1>4, <2>1
<1> QED BY <1>1, <1>5, <1>6 DEF LaidOut

versions == {4, 5, 6, 10, 11, 12}

\* What SpriteFile_read keeps of a file.
HeadOf(f, hd) == hd.version = f.version /\ hd.compressed = is_compressed(f)
Header(f) == [version |-> f.version, compressed |-> is_compressed(f)]

\* A slot that states what it takes, and whose data makes a picture or none.
GoodSlot(f, k) ==
  LET s == f.slots[k]
      px == unpacked_px(Header(f), s)
  IN \/ s = EmptySlot
     \/ /\ s.bpp \in Nat \ {0} /\ s.fmt \in {0, 32, 33, 34} /\ Len(s.pal) \in Nat
        /\ data_size(Header(f), s) \in Nat
        /\ k < Len(f.slots) => DataBytes(s) = data_size(Header(f), s)
        /\ \/ DataBytes(s) < data_size(Header(f), s) \/ px = <<>>
           \/ s.w \in Nat /\ s.h \in Nat /\ IsSeq(px) /\ Len(px) = s.w * s.h

GoodFile(f, N) ==
  /\ f.version \in versions /\ DOMAIN f.slots = 1..N /\ N = Len(f.slots)
  /\ \A k \in 1..N : GoodSlot(f, k)

LEMMA SameHead ==
  ASSUME NEW f, NEW hd, HeadOf(f, hd), NEW s
  PROVE  /\ data_size(hd, s) = data_size(Header(f), s)
         /\ unpacked_px(hd, s) = unpacked_px(Header(f), s)
         /\ skipped(hd, s) = skipped(Header(f), s)
<1>1. Header(f).version = hd.version /\ Header(f).compressed = hd.compressed
  BY DEF HeadOf, Header
<1>2. data_size(hd, s) = data_size(Header(f), s)
  BY <1>1 DEF data_size
<1>3. skipped(hd, s) = skipped(Header(f), s)
  BY <1>1, <1>2 DEF skipped
<1>4. unpacked_px(hd, s) = unpacked_px(Header(f), s)
  BY <1>1, <1>2 DEF unpacked_px
<1> QED BY <1>2, <1>3, <1>4

LEMMA PaletteBytes ==
  ASSUME NEW s, s.fmt \in {0, 32, 33, 34}, Len(s.pal) \in Nat
  PROVE  v12_palbytes(s) \in Nat
<1>1. PICK n \in Nat : n = Len(s.pal)
  OBVIOUS
<1>2. v12_pal_bpp(s.fmt) \in {0, 2, 3, 4}
  BY DEF v12_pal_bpp
<1>3. PICK b \in {0, 2, 3, 4} : b = v12_pal_bpp(s.fmt)
  BY <1>2
<1>4. b * n \in Nat
  OBVIOUS
<1> QED BY <1>1, <1>3, <1>4 DEF v12_palbytes

\* A slot with another behind it takes what is skipped.
LEMMA SkippedIs ==
  ASSUME NEW f, NEW N \in Nat, GoodFile(f, N), NEW k \in 1..N, k < N
  PROVE  /\ SlotBytes(f, f.slots[k]) \in Nat \ {0}
         /\ skipped(Header(f), f.slots[k]) = SlotBytes(f, f.slots[k])
<1> DEFINE s == f.slots[k]
           hd == Header(f)
<1>1. f.version \in versions /\ GoodSlot(f, k) /\ N = Len(f.slots)
  BY DEF GoodFile
<1>2. hd.version = f.version /\ hd.compressed = is_compressed(f)
  BY DEF Header
<1>3. CASE s.bpp = 0
  <2>1. SlotBytes(f, s) = 2 /\ skipped(hd, s) = 2
    BY <1>3 DEF SlotBytes, skipped
  <2> QED BY <2>1
<1>4. CASE s.bpp # 0
  <2>1. s # EmptySlot
    BY <1>4 DEF EmptySlot
  <2>2. /\ s.fmt \in {0, 32, 33, 34} /\ Len(s.pal) \in Nat /\ data_size(hd, s) \in Nat
        /\ DataBytes(s) = data_size(hd, s)
    BY <1>1, <2>1 DEF GoodSlot
  <2>3. PICK b \in Nat, m \in Nat, v \in versions :
          b = v12_palbytes(s) /\ m = data_size(hd, s) /\ v = f.version
    BY <1>1, <2>2, PaletteBytes
  <2>4. SlotBytes(f, s) = m + (IF v >= 12 THEN 12 + b ELSE IF is_compressed(f) THEN 10 ELSE 6)
    BY <1>4, <2>2, <2>3 DEF SlotBytes
  <2>5. skipped(hd, s) = 6 + m + (IF v >= 12 THEN 6 + b ELSE IF is_compressed(f) THEN 4 ELSE 0)
    BY <1>2, <1>4, <2>3 DEF skipped
  <2>6. CASE v >= 12
    <3>1. m + (12 + b) = 6 + m + (6 + b) /\ m + (12 + b) \in Nat \ {0}
      OBVIOUS
    <3> QED BY <2>4, <2>5, <2>6, <3>1
  <2>7. CASE ~(v >= 12) /\ is_compressed(f)
    <3>1. m + 10 = 6 + m + 4 /\ m + 10 \in Nat \ {0}
      OBVIOUS
    <3> QED BY <2>4, <2>5, <2>7, <3>1
  <2>8. CASE ~(v >= 12) /\ ~is_compressed(f)
    <3>1. m + 6 = 6 + m + 0 /\ m + 6 \in Nat \ {0}
      OBVIOUS
    <3> QED BY <2>4, <2>5, <2>8, <3>1
  <2> QED BY <2>6, <2>7, <2>8
<1> QED BY <1>3, <1>4

LEMMA HeadSize ==
  ASSUME NEW v \in versions
  PROVE  HeadBytes(v) \in Nat \ {0}
<1>1. PICK m \in Nat : m = 3 * MaxColours
  BY MaxColoursAssumption
<1>2. HeadBytes(v) = 15 + (IF v = 4 THEN m ELSE IF v >= 6 THEN 5 ELSE 0)
                     + (IF v >= 11 THEN 4 ELSE 2) + (IF v >= 12 THEN 4 ELSE 0)
  BY <1>1 DEF HeadBytes
<1> QED BY <1>2 DEF versions

\* Each slot is behind those in front of it.
LEMMA Behind ==
  ASSUME NEW f, NEW N \in Nat, GoodFile(f, N)
  PROVE  \A k \in 0..N - 1 : /\ Place(f, k) \in Nat \ {0}
                             /\ \A j \in 0..k - 1 : Place(f, j) < Place(f, k)
<1>1. LaidOut(f, N) /\ f.version \in versions
  BY Places DEF GoodFile
<1> DEFINE Ok(k) == /\ Place(f, k) \in Nat \ {0}
                    /\ \A j \in 0..k - 1 : Place(f, j) \in Nat /\ Place(f, j) < Place(f, k)
           S == {k \in Nat : k + 1 <= N => Ok(k)}
<1>2. 0 \in S
  <2>1. Place(f, 0) \in Nat \ {0}
    BY <1>1, HeadSize DEF LaidOut
  <2>2. \A j \in 0..0 - 1 : FALSE
    OBVIOUS
  <2> QED BY <2>1, <2>2
<1>3. ASSUME NEW m \in S PROVE m + 1 \in S
  <2> SUFFICES ASSUME (m + 1) + 1 <= N PROVE Ok(m + 1)
    OBVIOUS
  <2>1. m + 1 <= N /\ m + 1 \in 1..N /\ m + 1 < N /\ (m + 1) - 1 = m
    OBVIOUS
  <2>2. Ok(m)
    BY <2>1
  <2>3. PICK a \in Nat, b \in Nat \ {0} : a = Place(f, m) /\ b = SlotBytes(f, f.slots[m + 1])
    BY <2>1, <2>2, SkippedIs
  <2>4. Place(f, m + 1) = a + b
    BY <1>1, <2>1, <2>3 DEF LaidOut
  <2>5. a + b \in Nat \ {0} /\ a < a + b
    OBVIOUS
  <2>6. ASSUME NEW j \in 0..(m + 1) - 1 PROVE Place(f, j) \in Nat /\ Place(f, j) < Place(f, m + 1)
    <3>1. CASE j = m
      BY <2>3, <2>4, <2>5, <3>1
    <3>2. CASE j # m
      <4>1. j \in 0..m - 1
        BY <3>2
      <4>2. PICK p \in Nat : p = Place(f, j) /\ p < a
        BY <2>2, <2>3, <4>1
      <4>3. p < a + b
        BY <4>2
      <4> QED BY <2>4, <4>2, <4>3
    <3> QED BY <3>1, <3>2
  <2> QED BY <2>4, <2>5, <2>6
<1>4. S = Nat
  <2>1. S \in SUBSET Nat
    OBVIOUS
  <2> HIDE DEF S
  <2> QED BY <1>2, <1>3, <2>1, Induction
<1>5. \A k \in 0..N - 1 : k \in Nat /\ k + 1 <= N
  OBVIOUS
<1> HIDE DEF Ok
<1>6. \A k \in 0..N - 1 : Ok(k)
  BY <1>4, <1>5
<1> QED BY <1>6 DEF Ok

LEMMA Found ==
  ASSUME NEW N \in Nat, GoodFile(file, N), NEW k \in 0..N - 1
  PROVE  SlotAt(Place(file, k)) = file.slots[k + 1]
<1> DEFINE at == {j \in DOMAIN file.slots : Place(file, j - 1) = Place(file, k)}
<1>1. DOMAIN file.slots = 1..N
  BY DEF GoodFile
<1>2. ASSUME NEW j \in 1..N, Place(file, j - 1) = Place(file, k) PROVE j = k + 1
  <2>1. j - 1 \in 0..N - 1
    OBVIOUS
  <2>2. PICK m \in 0..N - 1 : m = j - 1
    BY <2>1
  <2>3. PICK a \in Nat, b \in Nat : a = Place(file, m) /\ b = Place(file, k)
    BY Behind
  <2>4. ~(m < k)
    <3>1. ASSUME m < k PROVE FALSE
      <4>1. m \in 0..k - 1
        BY <3>1
      <4>2. a < b
        BY <2>3, <4>1, Behind
      <4> QED BY <1>2, <2>2, <2>3, <4>2
    <3> QED BY <3>1
  <2>5. ~(k < m)
    <3>1. ASSUME k < m PROVE FALSE
      <4>1. k \in 0..m - 1
        BY <3>1
      <4>2. b < a
        BY <2>3, <4>1, Behind
      <4> QED BY <1>2, <2>2, <2>3, <4>2
    <3> QED BY <3>1
  <2> QED BY <2>2, <2>4, <2>5
<1>3. k + 1 \in 1..N /\ (k + 1) - 1 = k
  OBVIOUS
<1>4. at = {k + 1}
  BY <1>1, <1>2, <1>3
<1>5. Min({k + 1}) = k + 1
  <2>1. {k + 1} \in SUBSET Nat /\ {k + 1} # {}
    OBVIOUS
  <2>2. Min({k + 1}) \in {k + 1}
    BY <2>1, MinIs
  <2> QED BY <2>2
<1>6. SlotAt(Place(file, k)) = IF at = {} THEN EmptySlot ELSE file.slots[Min(at)]
  BY DEF SlotAt
<1> HIDE DEF at
<1>7. at # {}
  BY <1>4
<1> QED BY <1>4, <1>5, <1>6, <1>7

-----------------------------------------------------------------------------
(* Pictures on their way to a targa file and back                          *)

GoodPicture(d) == IsPicture(d) /\ d.bpp \in Nat \ {0}

LEMMA Redrawn ==
  ASSUME NEW d, IsPicture(d), NEW bpp, NEW px, px = [k \in DOMAIN d.px |-> px[k]]
  PROVE  IsPicture(Picture(d.w, d.h, bpp, px))
<1>1. PICK n \in Nat : /\ n = Len(d.px) /\ n = d.w * d.h /\ d.w \in Nat /\ d.h \in Nat
                       /\ d.px = [k \in 1..n |-> d.px[k]]
  BY Lengths DEF IsPicture
<1>2. px = [k \in 1..n |-> px[k]]
  BY <1>1
<1>3. IsSeq(px) /\ Len(px) = n
  BY <1>2, Numbered
<1> QED BY <1>1, <1>3 DEF IsPicture, Picture

LEMMA ToSave ==
  ASSUME NEW d, GoodPicture(d)
  PROVE  GoodPicture(to_save(d))
<1> DEFINE px == [k \in DOMAIN d.px |-> Colour(d.px[k])]
<1>1. IsPicture(Picture(d.w, d.h, 3, px))
  <2>1. px = [k \in DOMAIN d.px |-> px[k]]
    OBVIOUS
  <2> HIDE DEF px
  <2> QED BY <2>1, Redrawn DEF GoodPicture
<1>2. Recoloured(d, 3, Colour) = Picture(d.w, d.h, 3, px)
  BY DEF Recoloured
<1> HIDE DEF px
<1>3. Picture(d.w, d.h, 3, px).bpp \in Nat \ {0}
  BY DEF Picture
<1>4. GoodPicture(Recoloured(d, 3, Colour))
  BY <1>1, <1>2, <1>3 DEF GoodPicture
<1>5. to_save(d) = d \/ to_save(d) = Recoloured(d, 3, Colour)
  BY DEF to_save
<1> QED BY <1>4, <1>5

\* A targa file whose pixels fill its picture.
GoodTga(t) == t.depth \in Nat \ {0} /\ IsPicture(Picture(t.w, t.h, t.depth, tga_pixels(t)))

\* What rle_encode made of the pixels, or the pixels as they are.
LEMMA TargaWritten ==
  ASSUME NEW d, GoodPicture(d), NEW rle \in BOOLEAN, NEW pal
  PROVE  GoodTga(TargaFile(d, rle, pal, IF rle THEN rle_encode(d.px) ELSE d.px))
<1> DEFINE t == TargaFile(d, rle, pal, IF rle THEN rle_encode(d.px) ELSE d.px)
<1>1. /\ t.w = d.w /\ t.h = d.h /\ t.depth = d.bpp /\ t.rle = rle
      /\ t.data = IF rle THEN rle_encode(d.px) ELSE d.px
  BY DEF TargaFile
<1>2. IsSeq(d.px) /\ Len(d.px) = d.w * d.h
  BY DEF GoodPicture, IsPicture
<1> HIDE DEF t
<1>3. tga_pixels(t) = d.px
  <2>1. CASE rle
    <3>1. tga_pixels(t) = rle_decode(rle_encode(d.px), Len(d.px))
      BY <1>1, <1>2, <2>1 DEF tga_pixels
    <3> QED BY <1>2, <3>1, EncodeDecode
  <2>2. CASE ~rle
    BY <1>1, <2>2 DEF tga_pixels
  <2> QED BY <2>1, <2>2
<1>4. GoodTga(t)
  BY <1>1, <1>3 DEF GoodTga, GoodPicture, IsPicture, Picture
<1> QED BY <1>4 DEF t

LEMMA TargaGood ==
  ASSUME NEW d, GoodPicture(d), NEW palette
  PROVE  GoodTga(Targa_writefile(d, palette))
<1> DEFINE cpal == Colours_of(d)
           px1 == [k \in DOMAIN d.px |-> <<lookup_palette(Shown(d.px[k]), cpal)>>]
           px2 == [k \in DOMAIN d.px |-> rgb565_to_888(d.px[k])]
           mapped == d.bpp # 1 /\ palettable(d)
           saved == IF mapped THEN create_palette_pic(d)
                    ELSE IF d.bpp = 2 THEN Recoloured(d, 3, rgb565_to_888) ELSE d
           rle == ChunkBytes(rle_encode(saved.px), saved.bpp) < Len(saved.px) * saved.bpp
           pal == IF mapped THEN Colours_of(d) ELSE IF d.bpp = 1 THEN palette ELSE <<>>
<1>1. create_palette_pic(d) = Picture(d.w, d.h, 1, px1)
  BY DEF create_palette_pic, Recoloured
<1>2. Recoloured(d, 3, rgb565_to_888) = Picture(d.w, d.h, 3, px2)
  BY DEF Recoloured
<1>3. IsPicture(Picture(d.w, d.h, 1, px1))
  <2>1. px1 = [k \in DOMAIN d.px |-> px1[k]]
    OBVIOUS
  <2> HIDE DEF px1
  <2> QED BY <2>1, Redrawn DEF GoodPicture
<1>4. IsPicture(Picture(d.w, d.h, 3, px2))
  <2>1. px2 = [k \in DOMAIN d.px |-> px2[k]]
    OBVIOUS
  <2> HIDE DEF px2
  <2> QED BY <2>1, Redrawn DEF GoodPicture
<1> HIDE DEF px1, px2
<1>5. GoodPicture(create_palette_pic(d)) /\ GoodPicture(Recoloured(d, 3, rgb565_to_888))
  BY <1>1, <1>2, <1>3, <1>4 DEF GoodPicture, Picture
<1>6. saved \in {create_palette_pic(d), Recoloured(d, 3, rgb565_to_888), d}
  OBVIOUS
<1>7. GoodPicture(saved)
  <2> HIDE DEF saved
  <2> QED BY <1>5, <1>6
<1>8. Targa_writefile(d, palette)
        = TargaFile(saved, rle, pal, IF rle THEN rle_encode(saved.px) ELSE saved.px)
  BY DEF Targa_writefile
<1>9. rle \in BOOLEAN
  OBVIOUS
<1> HIDE DEF saved, rle, pal
<1> QED BY <1>7, <1>8, <1>9, TargaWritten

LEMMA TargaRead ==
  ASSUME NEW t, GoodTga(t), NEW skip
  PROVE  Targa_readfile(t, skip) = NoPicture \/ GoodPicture(Targa_readfile(t, skip))
<1> DEFINE raw == tga_pixels(t)
           coloured == t.pal # <<>> /\ ~skip
           px1 == [k \in DOMAIN raw |-> t.pal[raw[k][1] + 1]]
           px == IF coloured THEN px1 ELSE raw
           d == Picture(t.w, t.h, IF coloured THEN 3 ELSE t.depth, px)
           px2 == [k \in DOMAIN d.px |->
                     d.px[(d.h - 1 - ((k - 1) \div d.w)) * d.w + ((k - 1) % d.w) + 1]]
<1>1. Targa_readfile(t, skip) \in {NoPicture, d, convert_bottom_left_tga(d)}
  BY DEF Targa_readfile
<1>2. GoodPicture(d)
  <2>1. IsPicture(Picture(t.w, t.h, t.depth, raw)) /\ t.depth \in Nat \ {0}
    BY DEF GoodTga
  <2> DEFINE r == Picture(t.w, t.h, t.depth, raw)
  <2>2. r.w = t.w /\ r.h = t.h /\ r.px = raw
    BY DEF Picture
  <2>3. CASE coloured
    <3>1. IsPicture(Picture(t.w, t.h, 3, px1))
      <4>1. px1 = [k \in DOMAIN r.px |-> px1[k]]
        BY <2>2
      <4> HIDE DEF px1, r
      <4>2. IsPicture(Picture(r.w, r.h, 3, px1))
        BY <2>1, <4>1, Redrawn DEF r
      <4> QED BY <2>2, <4>2
    <3> HIDE DEF px1
    <3>2. d = Picture(t.w, t.h, 3, px1) /\ d.bpp = 3
      BY <2>3 DEF Picture
    <3> QED BY <3>1, <3>2 DEF GoodPicture
  <2>4. CASE ~coloured
    <3>1. d = Picture(t.w, t.h, t.depth, raw) /\ d.bpp = t.depth
      BY <2>4 DEF Picture
    <3> QED BY <2>1, <3>1 DEF GoodPicture
  <2> QED BY <2>3, <2>4
<1> HIDE DEF d
<1>3. GoodPicture(convert_bottom_left_tga(d))
  <2>1. IsPicture(Picture(d.w, d.h, d.bpp, px2))
    <3>1. px2 = [k \in DOMAIN d.px |-> px2[k]]
      OBVIOUS
    <3> HIDE DEF px2
    <3> QED BY <1>2, <3>1, Redrawn DEF GoodPicture
  <2>2. convert_bottom_left_tga(d) = Picture(d.w, d.h, d.bpp, px2)
    BY DEF convert_bottom_left_tga
  <2> HIDE DEF px2
  <2> QED BY <1>2, <2>1, <2>2 DEF GoodPicture, Picture
<1> QED BY <1>1, <1>2, <1>3

LEMMA BackToAgs ==
  ASSUME NEW d, GoodPicture(d), NEW org, NEW hicolor, NEW uses
  PROVE  GoodPicture(tga_to_ags(d, org, hicolor, uses))
<1> DEFINE px1 == [k \in DOMAIN d.px |-> rawx_to_ags16(d.px[k])]
           px2 == [k \in DOMAIN d.px |-> raw24_to_32_fulltrans(d.px[k])]
           px3 == [k \in DOMAIN d.px |-> raw24_to_32(d.px[k])]
<1>1. /\ Recoloured(d, 2, rawx_to_ags16) = Picture(d.w, d.h, 2, px1)
      /\ Recoloured(d, 4, raw24_to_32_fulltrans) = Picture(d.w, d.h, 4, px2)
      /\ Recoloured(d, 4, raw24_to_32) = Picture(d.w, d.h, 4, px3)
  BY DEF Recoloured
<1>2. tga_to_ags(d, org, hicolor, uses)
        \in {d, Picture(d.w, d.h, 2, px1), Picture(d.w, d.h, 4, px2), Picture(d.w, d.h, 4, px3)}
  BY <1>1 DEF tga_to_ags
<1>3. /\ px1 = [k \in DOMAIN d.px |-> px1[k]] /\ px2 = [k \in DOMAIN d.px |-> px2[k]]
      /\ px3 = [k \in DOMAIN d.px |-> px3[k]]
  OBVIOUS
<1> HIDE DEF px1, px2, px3
<1>4. /\ IsPicture(Picture(d.w, d.h, 2, px1)) /\ IsPicture(Picture(d.w, d.h, 4, px2))
      /\ IsPicture(Picture(d.w, d.h, 4, px3))
  BY <1>3, Redrawn DEF GoodPicture
<1>5. /\ Picture(d.w, d.h, 2, px1).bpp = 2 /\ Picture(d.w, d.h, 4, px2).bpp = 4
      /\ Picture(d.w, d.h, 4, px3).bpp = 4
  BY DEF Picture
<1>6. /\ GoodPicture(Picture(d.w, d.h, 2, px1)) /\ GoodPicture(Picture(d.w, d.h, 4, px2))
      /\ GoodPicture(Picture(d.w, d.h, 4, px3))
  BY <1>4, <1>5 DEF GoodPicture
<1> QED BY <1>2, <1>6

LEMMA LinePicture ==
  ASSUME GoodTga(dir.lines[i].tga)
  PROVE  line_picture = NoPicture \/ GoodPicture(line_picture)
<1> DEFINE l == dir.lines[i]
           d == Targa_readfile(l.tga, l.org_bpp = 1)
<1>1. d = NoPicture \/ GoodPicture(d)
  BY TargaRead
<1>2. line_picture = IF d = NoPicture THEN d
                     ELSE tga_to_ags(d, l.org_bpp, opts.hicolor, l.n \in UsesAlpha)
  BY DEF line_picture
<1> HIDE DEF d
<1>3. CASE d = NoPicture
  BY <1>2, <1>3
<1>4. CASE d # NoPicture
  <2>1. GoodPicture(tga_to_ags(d, l.org_bpp, opts.hicolor, l.n \in UsesAlpha))
    BY <1>1, <1>4, BackToAgs
  <2> QED BY <1>2, <1>4, <2>1
<1> QED BY <1>3, <1>4

-----------------------------------------------------------------------------
(* The inductive invariant                                                 *)

\* A slot that was written into the file f: the data stands for the pixels.
WrittenSlot(f, s) ==
  \/ s = EmptySlot
  \/ LET d == Picture(s.w, s.h, s.bpp, s.px)
     IN /\ GoodPicture(d) /\ s.fmt = 0 /\ s.pal = <<>>
        /\ IF is_compressed(f)
           THEN s.kind = "rle" /\ s.data = ags_pack(d) /\ s.size = ChunkBytes(ags_pack(d), s.bpp)
           ELSE s.kind = "plain" /\ s.data = s.px
WrittenFile(f) ==
  /\ f.version \in {4, 5, 6} /\ IsSeq(f.slots)
  /\ \A k \in 1..Len(f.slots) : WrittenSlot(f, f.slots[k])
Finished(f) ==
  WrittenFile(f) /\ Len(f.slots) \in Nat \ {0} /\ f.top \in {0, Len(f.slots) - 1}

\* The file that is read, N slots long.
FileRead(N) ==
  /\ GoodFile(file, N) /\ HeadOf(file, sf)
  /\ sf.num_sprites \in 0..N /\ (round = 1 => sf.num_sprites = N)

\* The first m offsets.
OffsetsFound(m) ==
  /\ IsSeq(offsets) /\ Len(offsets) = m
  /\ \A k \in 1..m : offsets[k] = IF file.slots[k].bpp = 0 THEN 0 ELSE Place(file, k - 1)

HeadInv ==
  /\ round \in {1, 2}
  /\ round = 1 => file \in Files
  /\ round = 2 => Finished(file) /\ opts.command = "extract"
  /\ sf = [version |-> sf.version, compressed |-> sf.compressed, id |-> sf.id,
           palette |-> sf.palette, num_sprites |-> sf.num_sprites]
  /\ pc = "indexed" => round = 1
  /\ pc \in {"extract", "pack", "add"} => opts.command = "extract"
  /\ pc \in {"pack", "add"} => round = 1

TocInv ==
  pc \in {"toc", "extract", "indexed"} =>
    LET N == Len(file.slots)
    IN /\ N \in Nat /\ FileRead(N)
       /\ pc = "toc" => /\ i \in 0..sf.num_sprites /\ OffsetsFound(i)
                        /\ i < N => pos = Place(file, i)
       /\ pc = "extract" => i \in 0..sf.num_sprites /\ OffsetsFound(sf.num_sprites)
       /\ pc = "indexed" => OffsetsFound(N)

GotInv ==
  /\ got = <<got[1], got[2]>> /\ IsSeq(got[1]) /\ IsSeq(got[2])
  /\ round = 1 => got[2] = <<>>
  /\ pc \in {"header", "toc"} => got[round] = <<>>
  /\ pc = "extract" => Len(got[round]) = i
  /\ round = 2 => \A k \in 1..Len(got[2]) :
       LET s == file.slots[k]
       IN s.px # <<>> => got[2][k] = Picture(s.w, s.h, s.bpp, s.px)

GoodLine(l) == l = [n |-> l.n, org_bpp |-> l.org_bpp, tga |-> l.tga] /\ l.n \in Nat /\ GoodTga(l.tga)
DirInv ==
  /\ dir = [version |-> dir.version, id |-> dir.id, palette |-> dir.palette, lines |-> dir.lines]
  /\ IsSeq(dir.lines) /\ \A k \in 1..Len(dir.lines) : GoodLine(dir.lines[k])
  /\ pc \in {"extract", "pack", "add"} => dir.version \in versions

OutInv ==
  pc = "add" =>
    /\ out = [version |-> out.version, top |-> out.top, slots |-> out.slots,
              storage |-> out.storage, id |-> out.id, palette |-> out.palette]
    /\ WrittenFile(out) /\ i \in Nat \ {0} /\ Len(dir.lines) \in Nat \ {0}
    /\ i > 1 => Len(out.slots) \in Nat \ {0}

Inv == HeadInv /\ TocInv /\ GotInv /\ DirInv /\ OutInv /\ IndexMatches

-----------------------------------------------------------------------------
(* What the invariant says of the files                                    *)

LEMMA FilledPicture ==
  ASSUME NEW w, NEW h, NEW px, filled(w, h, px)
  PROVE  w \in Nat /\ h \in Nat /\ IsSeq(px) /\ Len(px) = w * h
<1>1. px \in Seq(Seq(Byte))
  BY DEF filled
<1> QED BY <1>1, SeqOfRange DEF filled, IsSeq

LEMMA InputGood ==
  ASSUME NEW f \in Files, readable(f)
  PROVE  Len(f.slots) \in Nat /\ GoodFile(f, Len(f.slots)) /\ f.top = Len(f.slots) - 1
<1>1. /\ Len(f.slots) \in Nat /\ DOMAIN f.slots = 1..Len(f.slots) /\ f.top = Len(f.slots) - 1
      /\ \A k \in DOMAIN f.slots : well_formed(f, k)
  BY FilesAssumption
<1>2. f.version \in versions
  BY DEF readable, versions
<1>3. ASSUME NEW k \in 1..Len(f.slots) PROVE GoodSlot(f, k)
  <2>1. well_formed(f, k)
    BY <1>1
  <2> DEFINE s == f.slots[k]
             px == unpacked_px(Header(f), s)
  <2>2. \/ s = EmptySlot
        \/ /\ s.bpp \in Nat \ {0} /\ s.fmt \in {0, 32, 33, 34} /\ Len(s.pal) \in Nat
           /\ data_size(Header(f), s) \in Nat
           /\ k < Len(f.slots) => DataBytes(s) = data_size(Header(f), s)
           /\ \/ DataBytes(s) < data_size(Header(f), s) \/ px = <<>>
              \/ filled(s.w, s.h, px)
    BY <2>1 DEF well_formed, Header
  <2>3. filled(s.w, s.h, px) => s.w \in Nat /\ s.h \in Nat /\ IsSeq(px) /\ Len(px) = s.w * s.h
    <3> HIDE DEF s, px
    <3> QED BY FilledPicture
  <2> QED BY <2>2, <2>3 DEF GoodSlot
<1> QED BY <1>1, <1>2, <1>3 DEF GoodFile

\* What SpriteFile_add wrote is as long as it says and is read as it was.
LEMMA WrittenReads ==
  ASSUME NEW f, f.version \in {4, 5, 6}, NEW s, WrittenSlot(f, s), s # EmptySlot
  PROVE  /\ s.bpp \in Nat \ {0} /\ s.fmt = 0 /\ Len(s.pal) = 0
         /\ data_size(Header(f), s) \in Nat /\ DataBytes(s) = data_size(Header(f), s)
         /\ unpacked_px(Header(f), s) = s.px
<1> DEFINE d == Picture(s.w, s.h, s.bpp, s.px)
<1>1. /\ GoodPicture(d) /\ s.fmt = 0 /\ s.pal = <<>>
      /\ IF is_compressed(f)
         THEN s.kind = "rle" /\ s.data = ags_pack(d) /\ s.size = ChunkBytes(ags_pack(d), s.bpp)
         ELSE s.kind = "plain" /\ s.data = s.px
  BY DEF WrittenSlot
<1>2. d.w = s.w /\ d.h = s.h /\ d.bpp = s.bpp /\ d.px = s.px
  BY DEF Picture
<1> HIDE DEF d
<1>3. /\ s.w \in Nat /\ s.h \in Nat /\ s.bpp \in Nat \ {0} /\ IsSeq(s.px)
      /\ Len(s.px) = s.w * s.h
  BY <1>1, <1>2 DEF GoodPicture, IsPicture
<1>4. Len(s.pal) = 0
  BY <1>1, EmptyList
<1>5. stored_bpp(s) = s.bpp
  BY <1>1 DEF stored_bpp
<1>6. Header(f).compressed = is_compressed(f) /\ Header(f).version \in {4, 5, 6}
  BY DEF Header
<1>7. ~(Header(f).version >= 12) /\ Header(f).version < 12
  BY <1>6
<1>8. CASE is_compressed(f)
  <2>1. s.kind = "rle" /\ s.data = ags_pack(d) /\ s.size = ChunkBytes(ags_pack(d), s.bpp)
    BY <1>1, <1>8
  <2>2. data_size(Header(f), s) = s.size
    BY <1>6, <1>7, <1>8 DEF data_size
  <2>3. DataBytes(s) = s.size
    BY <1>5, <2>1 DEF DataBytes
  <2>4. s.size \in Nat
    <3>1. PICK n \in Nat : n = d.w * d.h /\ IsSeq(d.px) /\ n = Len(d.px)
      BY <1>2, <1>3, Lengths
    <3>2. IsPicture(d)
      BY <1>1 DEF GoodPicture
    <3>3. Lined(d.px, n, ags_pack(d), 1, n + 1)
      BY <3>1, <3>2, PictureLined
    <3>4. s.bpp \in Nat
      BY <1>3
    <3> QED BY <2>1, <3>1, <3>3, <3>4, LinedBytes
  <2>5. unpackl(s.data, s.w * s.h) = [ok |-> TRUE, px |-> s.px]
    BY <1>1, <1>2, <2>1, PictureUnpacks DEF GoodPicture
  <2>6. unpacked_px(Header(f), s) = s.px
    BY <1>6, <1>7, <1>8, <2>5 DEF unpacked_px
  <2> QED BY <1>1, <1>3, <1>4, <2>2, <2>3, <2>4, <2>6
<1>9. CASE ~is_compressed(f)
  <2>1. s.kind = "plain" /\ s.data = s.px
    BY <1>1, <1>9
  <2>2. data_size(Header(f), s) = s.bpp * s.w * s.h
    BY <1>6, <1>7, <1>9 DEF data_size
  <2>3. DataBytes(s) = s.bpp * Len(s.px)
    BY <1>5, <2>1 DEF DataBytes
  <2>4. s.bpp * s.w * s.h = s.bpp * (s.w * s.h) /\ s.bpp * s.w * s.h \in Nat
    <3>1. \A a, b, c \in Nat : a * b * c = a * (b * c) /\ a * b * c \in Nat
      OBVIOUS
    <3> QED BY <1>3, <3>1
  <2>5. unpacked_px(Header(f), s) = s.px
    BY <1>6, <1>7, <1>9, <2>1 DEF unpacked_px
  <2> QED BY <1>1, <1>3, <1>4, <2>2, <2>3, <2>4, <2>5
<1> QED BY <1>8, <1>9

LEMMA WrittenGood ==
  ASSUME NEW f, WrittenFile(f)
  PROVE  Len(f.slots) \in Nat /\ GoodFile(f, Len(f.slots))
<1>1. /\ f.version \in {4, 5, 6} /\ IsSeq(f.slots)
      /\ \A k \in 1..Len(f.slots) : WrittenSlot(f, f.slots[k])
  BY DEF WrittenFile
<1>2. PICK N \in Nat : N = Len(f.slots) /\ DOMAIN f.slots = 1..N
  <2>1. Len(f.slots) \in Nat /\ f.slots = [k \in 1..Len(f.slots) |-> f.slots[k]]
    BY <1>1, Lengths
  <2> QED BY <2>1
<1>3. ASSUME NEW k \in 1..N PROVE GoodSlot(f, k)
  <2>1. WrittenSlot(f, f.slots[k])
    BY <1>1, <1>2
  <2>2. PICK s \in {f.slots[k]} : WrittenSlot(f, s)
    BY <2>1
  <2>3. CASE s = EmptySlot
    BY <2>2, <2>3 DEF GoodSlot
  <2>4. CASE s # EmptySlot
    <3>1. /\ s.bpp \in Nat \ {0} /\ s.fmt = 0 /\ Len(s.pal) = 0
          /\ data_size(Header(f), s) \in Nat /\ DataBytes(s) = data_size(Header(f), s)
          /\ unpacked_px(Header(f), s) = s.px
      BY <1>1, <2>2, <2>4, WrittenReads
    <3>2. s.w \in Nat /\ s.h \in Nat /\ IsSeq(s.px) /\ Len(s.px) = s.w * s.h
      BY <2>2, <2>4 DEF WrittenSlot, GoodPicture, IsPicture, Picture
    <3>3. s.fmt \in {0, 32, 33, 34} /\ Len(s.pal) \in Nat
      BY <3>1
    <3>4. PICK px \in {unpacked_px(Header(f), s)} : IsSeq(px) /\ Len(px) = s.w * s.h
      BY <3>1, <3>2
    <3>5. s = f.slots[k]
      OBVIOUS
    <3> QED BY <3>1, <3>2, <3>3, <3>4, <3>5 DEF GoodSlot
  <2> QED BY <2>3, <2>4
<1>4. f.version \in versions
  BY <1>1 DEF versions
<1> QED BY <1>2, <1>3, <1>4 DEF GoodFile

-----------------------------------------------------------------------------
(* What is extracted, and what is added                                    *)

LEMMA Extracted ==
  ASSUME NEW N \in Nat, GoodFile(file, N), HeadOf(file, sf), NEW k \in 1..N,
         file.slots[k].bpp # 0
  PROVE  LET d == SpriteFile_extract(file.slots[k]) IN d = NoPicture \/ GoodPicture(d)
<1>1. PICK s \in {file.slots[k]} : s.bpp # 0 /\ GoodSlot(file, k)
  BY DEF GoodFile
<1>2. PICK px \in {unpacked_px(sf, s)} : px = unpacked_px(Header(file), s)
  BY SameHead
<1>3. data_size(sf, s) = data_size(Header(file), s)
  BY SameHead
<1>4. s # EmptySlot
  BY <1>1 DEF EmptySlot
<1>5. /\ s.bpp \in Nat \ {0}
      /\ \/ DataBytes(s) < data_size(sf, s) \/ px = <<>>
         \/ s.w \in Nat /\ s.h \in Nat /\ IsSeq(px) /\ Len(px) = s.w * s.h
  <2>1. s = file.slots[k]
    OBVIOUS
  <2> QED BY <1>1, <1>2, <1>3, <1>4, <2>1 DEF GoodSlot
<1> DEFINE shown == [j \in DOMAIN px |->
             LET idx == IF px[j][1] >= Len(s.pal) THEN 0 ELSE px[j][1]
                 col == s.pal[idx + 1]
             IN [b \in 1..s.bpp |-> IF b <= Len(col) THEN col[b] ELSE 0]]
<1>6. unpack_v12_palette(s, px) = shown /\ shown = [j \in DOMAIN px |-> shown[j]]
  BY DEF unpack_v12_palette
<1> HIDE DEF shown
<1>7. CASE DataBytes(s) < data_size(sf, s) \/ px = <<>>
  <2>1. SpriteFile_extract(s) = NoPicture
    BY <1>7 DEF SpriteFile_extract
  <2> QED BY <2>1
<1>8. CASE ~(DataBytes(s) < data_size(sf, s) \/ px = <<>>)
  <2>1. SpriteFile_extract(s)
          = Picture(s.w, s.h, s.bpp, IF sf.version >= 12 /\ s.fmt # 0 THEN shown ELSE px)
    BY <1>6, <1>8 DEF SpriteFile_extract
  <2>2. /\ s.w \in Nat /\ s.h \in Nat /\ IsSeq(px) /\ Len(px) = s.w * s.h
    BY <1>5, <1>8
  <2> DEFINE e == Picture(s.w, s.h, s.bpp, px)
             z == Picture(s.w, s.h, s.bpp, shown)
  <2>3. e.w = s.w /\ e.h = s.h /\ e.bpp = s.bpp /\ e.px = px /\ z.bpp = s.bpp
    BY DEF Picture
  <2>4. IsPicture(e)
    <3> HIDE DEF e
    <3> QED BY <2>2, <2>3 DEF IsPicture
  <2>5. IsPicture(Picture(e.w, e.h, s.bpp, shown))
    <3> HIDE DEF e, z
    <3>1. shown = [j \in DOMAIN e.px |-> shown[j]]
      BY <1>6, <2>3
    <3> QED BY <2>4, <3>1, Redrawn
  <2>6. GoodPicture(e) /\ GoodPicture(z)
    BY <1>5, <2>3, <2>4, <2>5 DEF GoodPicture
  <2>7. SpriteFile_extract(s) = e \/ SpriteFile_extract(s) = z
    BY <2>1
  <2> HIDE DEF e, z
  <2> QED BY <2>6, <2>7
<1> QED BY <1>7, <1>8

LEMMA ExtractedAgain ==
  ASSUME WrittenFile(file), HeadOf(file, sf), NEW k \in 1..Len(file.slots),
         NEW s, s = file.slots[k], s.px # <<>>
  PROVE  s.bpp # 0 /\ SpriteFile_extract(s) = Picture(s.w, s.h, s.bpp, s.px)
<1>1. file.version \in {4, 5, 6} /\ WrittenSlot(file, s)
  BY DEF WrittenFile
<1>2. s # EmptySlot
  BY DEF EmptySlot
<1>3. /\ s.bpp \in Nat \ {0} /\ s.fmt = 0
      /\ data_size(Header(file), s) \in Nat /\ DataBytes(s) = data_size(Header(file), s)
      /\ unpacked_px(Header(file), s) = s.px
  BY <1>1, <1>2, WrittenReads
<1>4. unpacked_px(sf, s) = s.px /\ data_size(sf, s) = data_size(Header(file), s)
  BY <1>3, SameHead
<1>5. PICK n \in Nat : n = data_size(sf, s) /\ n = DataBytes(s)
  BY <1>3, <1>4
<1>6. ~(DataBytes(s) < data_size(sf, s))
  BY <1>5
<1> QED BY <1>3, <1>4, <1>6 DEF SpriteFile_extract

LEMMA SlotWritten ==
  ASSUME NEW d, GoodPicture(d)
  PROVE  WrittenSlot(out, slot_of(d))
<1> DEFINE s == slot_of(d)
           e == Picture(s.w, s.h, s.bpp, s.px)
<1>1. /\ s.w = d.w /\ s.h = d.h /\ s.bpp = d.bpp /\ s.px = d.px /\ s.fmt = 0 /\ s.pal = <<>>
      /\ s.kind = IF is_compressed(out) THEN "rle" ELSE "plain"
      /\ s.data = IF is_compressed(out) THEN ags_pack(d) ELSE d.px
      /\ is_compressed(out) => s.size = ChunkBytes(ags_pack(d), d.bpp)
  BY DEF slot_of, EmptySlot
<1>2. e.w = s.w /\ e.h = s.h /\ e.bpp = s.bpp /\ e.px = s.px
  BY DEF Picture
<1> HIDE DEF s, e
<1>3. GoodPicture(e)
  BY <1>1, <1>2 DEF GoodPicture, IsPicture
<1>4. ags_pack(e) = ags_pack(d)
  BY <1>1, <1>2 DEF ags_pack
<1>5. WrittenSlot(out, s)
  BY <1>1, <1>3, <1>4 DEF WrittenSlot, e
<1> QED BY <1>5 DEF s

\* The numbers without a line, and the sprite behind them.
LEMMA SlotsAdded ==
  ASSUME NEW f, WrittenFile(f), NEW gap \in Nat, NEW s, WrittenSlot(f, s),
         NEW more, more = f.slots \o [k \in 1..gap |-> EmptySlot] \o <<s>>
  PROVE  /\ IsSeq(more) /\ Len(more) \in Nat \ {0}
         /\ \A k \in 1..Len(more) : WrittenSlot(f, more[k])
<1>1. PICK n \in Nat : n = Len(f.slots) /\ IsSeq(f.slots)
  BY Lengths DEF WrittenFile
<1>2. \A k \in 1..n : WrittenSlot(f, f.slots[k])
  BY <1>1 DEF WrittenFile
<1> DEFINE none == [k \in 1..gap |-> EmptySlot]
<1>3. IsSeq(none) /\ Len(none) = gap /\ \A k \in 1..gap : none[k] = EmptySlot
  <2>1. none = [k \in 1..gap |-> none[k]]
    OBVIOUS
  <2>2. \A k \in 1..gap : none[k] = EmptySlot
    OBVIOUS
  <2> HIDE DEF none
  <2> QED BY <2>1, <2>2, Numbered
<1> HIDE DEF none
<1>4. PICK a \in {f.slots \o none} : Joins(a, f.slots, none)
  BY <1>1, <1>3, Joined
<1>5. /\ IsSeq(a) /\ Len(a) = n + gap
      /\ \A k \in 1..n : a[k] = f.slots[k]
      /\ \A k \in 1..gap : a[n + k] = EmptySlot
  BY <1>1, <1>3, <1>4 DEF Joins
<1>6. IsSeq(<<s>>) /\ Len(<<s>>) = 1 /\ <<s>>[1] = s
  BY OneOrTwo
<1>7. PICK b \in {a \o <<s>>} : Joins(b, a, <<s>>)
  BY <1>5, <1>6, Joined
<1>8. /\ IsSeq(b) /\ Len(b) = (n + gap) + 1
      /\ \A k \in 1..n + gap : b[k] = a[k]
      /\ b[(n + gap) + 1] = s
  <2>1. 1 \in 1..1
    OBVIOUS
  <2> QED BY <1>5, <1>6, <1>7, <2>1 DEF Joins
<1>9. more = b
  BY <1>4, <1>7 DEF none
<1>10. ASSUME NEW k \in 1..(n + gap) + 1 PROVE WrittenSlot(f, b[k])
  <2>1. CASE k <= n
    <3>1. k \in 1..n /\ k \in 1..n + gap
      BY <2>1
    <3> QED BY <1>2, <1>5, <1>8, <3>1
  <2>2. CASE ~(k <= n) /\ k <= n + gap
    <3>1. PICK m \in 1..gap : k = n + m
      <4>1. k - n \in 1..gap /\ k = n + (k - n)
        BY <2>2
      <4> QED BY <4>1
    <3>2. k \in 1..n + gap
      BY <2>2
    <3>3. b[k] = EmptySlot
      BY <1>5, <1>8, <3>1, <3>2
    <3> QED BY <3>3 DEF WrittenSlot
  <2>3. CASE ~(k <= n + gap)
    <3>1. k = (n + gap) + 1
      BY <2>3
    <3> QED BY <1>8, <3>1
  <2> QED BY <2>1, <2>2, <2>3
<1>11. (n + gap) + 1 \in Nat \ {0}
  OBVIOUS
<1> QED BY <1>8, <1>9, <1>10, <1>11

-----------------------------------------------------------------------------
(* Every step keeps the invariant                                          *)

LEMMA Starts == Init => Inv
<1> SUFFICES ASSUME Init PROVE Inv
  OBVIOUS
<1> USE DEF Init
<1>1. HeadInv
  BY DEF HeadInv
<1>2. TocInv
  BY DEF TocInv
<1>3. GotInv
  <2>1. got[1] = <<>> /\ got[2] = <<>> /\ got = <<got[1], got[2]>>
    OBVIOUS
  <2> QED BY <2>1, EmptyList DEF GotInv
<1>4. DirInv
  <2>1. dir.lines = <<>>
    OBVIOUS
  <2>2. \A k \in 1..0 : FALSE
    OBVIOUS
  <2> QED BY <2>1, <2>2, EmptyList DEF DirInv
<1>5. OutInv
  BY DEF OutInv
<1>6. IndexMatches
  BY DEF IndexMatches
<1> QED BY <1>1, <1>2, <1>3, <1>4, <1>5, <1>6 DEF Inv

LEMMA Stays == Inv /\ UNCHANGED vars => Inv'
<1> SUFFICES ASSUME Inv, UNCHANGED vars PROVE Inv'
  OBVIOUS
<1> USE DEF vars, Inv
<1>1. HeadInv'
  BY DEF HeadInv
<1>2. TocInv'
  BY DEF TocInv, FileRead, OffsetsFound
<1>3. GotInv'
  BY DEF GotInv
<1>4. DirInv'
  BY DEF DirInv
<1>5. OutInv'
  BY DEF OutInv
<1>6. IndexMatches'
  BY DEF IndexMatches
<1> QED BY <1>1, <1>2, <1>3, <1>4, <1>5, <1>6

LEMMA ReadKeeps == Inv /\ SpriteFile_read => Inv'
<1> SUFFICES ASSUME Inv, SpriteFile_read PROVE Inv'
  OBVIOUS
<1>1. HeadInv /\ TocInv /\ GotInv /\ DirInv /\ OutInv
  BY DEF Inv
<1>2. /\ pc = "header" /\ UNCHANGED <<file, opts, round, got, dir, edited, out>>
      /\ pc' \in {"toc", "failed"}
  BY DEF SpriteFile_read
<1>3. HeadInv'
  <2>1. CASE readable(file)
    <3>1. sf' = [version |-> file.version, compressed |-> is_compressed(file),
                 id |-> IF file.version >= 6 THEN file.id ELSE 0,
                 palette |-> IF file.version = 4 THEN file.palette ELSE NoPalette,
                 num_sprites |-> file.top + 1]
      BY <2>1 DEF SpriteFile_read
    <3> QED BY <1>1, <1>2, <3>1 DEF HeadInv
  <2>2. CASE ~readable(file)
    <3>1. sf' = sf
      BY <2>2 DEF SpriteFile_read
    <3> QED BY <1>1, <1>2, <3>1 DEF HeadInv
  <2> QED BY <2>1, <2>2
<1>4. TocInv'
  <2>1. CASE readable(file)
    <3>1. /\ pc' = "toc" /\ pos' = HeadBytes(file.version) /\ i' = 0 /\ offsets' = <<>>
          /\ sf'.version = file.version /\ sf'.compressed = is_compressed(file)
          /\ sf'.num_sprites = file.top + 1
      BY <2>1 DEF SpriteFile_read
    <3> DEFINE N == Len(file.slots)
    <3>2. /\ N \in Nat /\ GoodFile(file, N)
          /\ file.top + 1 \in 0..N /\ (round = 1 => file.top + 1 = N)
      <4>1. CASE round = 1
        <5>1. N \in Nat /\ GoodFile(file, N) /\ file.top = N - 1
          BY <1>1, <2>1, <4>1, InputGood DEF HeadInv
        <5> HIDE DEF N
        <5>2. (N - 1) + 1 = N /\ N \in 0..N
          BY <5>1
        <5> QED BY <5>1, <5>2
      <4>2. CASE round # 1
        <5>1. Finished(file)
          BY <1>1, <4>2 DEF HeadInv
        <5>2. N \in Nat \ {0} /\ file.top \in {0, N - 1} /\ GoodFile(file, N)
          BY <5>1, WrittenGood DEF Finished
        <5> HIDE DEF N
        <5>3. 0 + 1 \in 0..N /\ (N - 1) + 1 \in 0..N
          BY <5>2
        <5> QED BY <4>2, <5>2, <5>3
      <4> QED BY <4>1, <4>2
    <3> HIDE DEF N
    <3>3. FileRead(N)'
      BY <1>2, <3>1, <3>2 DEF FileRead, HeadOf, N
    <3>4. \A k \in 1..0 : FALSE
      OBVIOUS
    <3>5. OffsetsFound(0)'
      BY <3>1, <3>4, EmptyList DEF OffsetsFound
    <3>6. pos' = Place(file, 0)
      BY <3>1, <3>2, Places DEF LaidOut, N
    <3>7. i' \in 0..sf'.num_sprites
      BY <3>1, <3>2
    <3> QED BY <1>2, <3>1, <3>2, <3>3, <3>5, <3>6, <3>7 DEF TocInv, N
  <2>2. CASE ~readable(file)
    <3>1. pc' = "failed"
      BY <2>2 DEF SpriteFile_read
    <3> QED BY <3>1 DEF TocInv
  <2> QED BY <2>1, <2>2
<1>5. GotInv'
  BY <1>1, <1>2 DEF GotInv
<1>6. DirInv'
  BY <1>1, <1>2 DEF DirInv
<1>7. OutInv'
  BY <1>2 DEF OutInv
<1>8. IndexMatches'
  BY <1>2 DEF IndexMatches
<1> QED BY <1>3, <1>4, <1>5, <1>6, <1>7, <1>8 DEF Inv

LEMMA SlotKeeps == Inv /\ ReadSlot => Inv'
<1> SUFFICES ASSUME Inv, ReadSlot PROVE Inv'
  OBVIOUS
<1>1. HeadInv /\ TocInv /\ GotInv /\ DirInv /\ OutInv
  BY DEF Inv
<1>2. /\ pc = "toc" /\ i < sf.num_sprites /\ i' = i + 1
      /\ offsets' = Append(offsets, IF SlotAt(pos).bpp = 0 THEN 0 ELSE pos)
      /\ pos' = pos + skipped(sf, SlotAt(pos))
      /\ UNCHANGED <<file, opts, pc, round, sf, got, dir, edited, out>>
  BY DEF ReadSlot
<1>3. HeadInv' /\ GotInv' /\ DirInv' /\ OutInv' /\ IndexMatches'
  BY <1>1, <1>2 DEF HeadInv, GotInv, DirInv, OutInv, IndexMatches
<1>4. TocInv'
  <2>1. PICK N \in Nat : /\ N = Len(file.slots) /\ FileRead(N)
                         /\ i \in 0..sf.num_sprites /\ OffsetsFound(i)
                         /\ i < N => pos = Place(file, i)
    BY <1>1, <1>2 DEF TocInv
  <2>2. PICK m \in 0..N : m = sf.num_sprites
    BY <2>1 DEF FileRead
  <2>3. PICK j \in 0..m : m = sf.num_sprites /\ j = i
    BY <2>1, <2>2
  <2>4. j < m /\ j < N /\ j \in 0..N - 1 /\ j + 1 \in 1..N /\ j + 1 \in 0..m
    BY <1>2, <2>3
  <2>5. GoodFile(file, N) /\ HeadOf(file, sf)
    BY <2>1 DEF FileRead
  <2>6. PICK s \in {file.slots[j + 1]} : s = SlotAt(pos) /\ pos = Place(file, j)
    BY <2>1, <2>3, <2>4, <2>5, Found
  <2>7. FileRead(N)'
    BY <1>2, <2>1 DEF FileRead
  <2>8. OffsetsFound(j + 1)'
    <3>1. IsSeq(offsets) /\ Len(offsets) = j
          /\ \A k \in 1..j : offsets[k] = IF file.slots[k].bpp = 0 THEN 0 ELSE Place(file, k - 1)
      BY <2>1, <2>3 DEF OffsetsFound
    <3>2. PICK o : o = IF s.bpp = 0 THEN 0 ELSE Place(file, j)
      OBVIOUS
    <3>3. offsets' = Append(offsets, o)
      BY <1>2, <2>6, <3>2
    <3>4. /\ IsSeq(offsets') /\ Len(offsets') = j + 1
          /\ \A k \in 1..j : offsets'[k] = offsets[k]
          /\ offsets'[j + 1] = o
      BY <3>1, <3>3, Longer
    <3>5. ASSUME NEW k \in 1..j + 1
          PROVE  offsets'[k] = IF file.slots[k].bpp = 0 THEN 0 ELSE Place(file, k - 1)
      <4>1. CASE k = j + 1
        <5>1. k - 1 = j /\ s = file.slots[k]
          BY <4>1
        <5> QED BY <3>2, <3>4, <4>1, <5>1
      <4>2. CASE k # j + 1
        <5>1. k \in 1..j
          BY <4>2
        <5> QED BY <3>1, <3>4, <5>1
      <4> QED BY <4>1, <4>2
    <3> QED BY <1>2, <3>4, <3>5 DEF OffsetsFound
  <2>9. ASSUME j + 1 < N PROVE pos' = Place(file, j + 1)
    <3>1. skipped(Header(file), s) = SlotBytes(file, s)
      BY <2>4, <2>5, <2>9, SkippedIs
    <3>2. skipped(sf, s) = SlotBytes(file, s)
      BY <2>5, <3>1, SameHead
    <3>3. LaidOut(file, N)
      BY <2>1, Places
    <3>4. Place(file, j + 1) = Place(file, j) + SlotBytes(file, s)
      <4>1. (j + 1) - 1 = j
        OBVIOUS
      <4> QED BY <2>4, <3>3, <4>1 DEF LaidOut
    <3> QED BY <1>2, <2>6, <3>2, <3>4
  <2>10. i' = j + 1 /\ sf' = sf /\ file' = file /\ pc' = "toc"
    BY <1>2, <2>3
  <2> QED BY <2>1, <2>3, <2>4, <2>7, <2>8, <2>9, <2>10 DEF TocInv
<1> QED BY <1>3, <1>4 DEF Inv

LEMMA OpenKeeps == Inv /\ OpenInfo => Inv'
<1> SUFFICES ASSUME Inv, OpenInfo PROVE Inv'
  OBVIOUS
<1>1. HeadInv /\ TocInv /\ GotInv /\ DirInv /\ OutInv
  BY DEF Inv
<1>2. /\ pc = "toc" /\ i = sf.num_sprites /\ opts.command = "extract"
      /\ dir' = [version |-> sf.version, id |-> sf.id, palette |-> sf.palette, lines |-> <<>>]
      /\ sf' = [sf EXCEPT !.palette = IF @ = NoPalette THEN defpal ELSE @]
      /\ i' = 0 /\ pc' = "extract"
      /\ UNCHANGED <<file, opts, round, offsets, pos, got, edited, out>>
  BY DEF OpenInfo
<1>3. PICK N \in Nat : /\ N = Len(file.slots) /\ FileRead(N)
                       /\ i \in 0..sf.num_sprites /\ OffsetsFound(i)
  BY <1>1, <1>2 DEF TocInv
<1>4. /\ sf' = [version |-> sf'.version, compressed |-> sf'.compressed, id |-> sf'.id,
                palette |-> sf'.palette, num_sprites |-> sf'.num_sprites]
      /\ sf'.version = sf.version /\ sf'.compressed = sf.compressed
      /\ sf'.num_sprites = sf.num_sprites
  <2>1. sf = [version |-> sf.version, compressed |-> sf.compressed, id |-> sf.id,
              palette |-> sf.palette, num_sprites |-> sf.num_sprites]
    BY <1>1 DEF HeadInv
  <2> QED BY <1>2, <2>1
<1>5. HeadInv'
  <2>1. round = 1 \/ round = 2
    BY <1>1 DEF HeadInv
  <2> QED BY <1>1, <1>2, <1>4 DEF HeadInv
<1>6. TocInv'
  <2>1. FileRead(N)'
    BY <1>2, <1>3, <1>4 DEF FileRead, HeadOf
  <2>2. OffsetsFound(sf.num_sprites)'
    BY <1>2, <1>3 DEF OffsetsFound
  <2>3. 0 \in 0..sf'.num_sprites
    BY <1>3, <1>4 DEF FileRead
  <2> QED BY <1>2, <1>3, <1>4, <2>1, <2>2, <2>3 DEF TocInv
<1>7. GotInv'
  <2>1. got[round] = <<>>
    BY <1>1, <1>2 DEF GotInv, HeadInv
  <2> QED BY <1>1, <1>2, <2>1, EmptyList DEF GotInv
<1>8. DirInv'
  <2>1. sf.version \in versions
    BY <1>3 DEF FileRead, HeadOf, GoodFile
  <2>2. \A k \in 1..0 : FALSE
    OBVIOUS
  <2> QED BY <1>2, <2>1, <2>2, EmptyList DEF DirInv
<1>9. OutInv' /\ IndexMatches'
  BY <1>2 DEF OutInv, IndexMatches
<1> QED BY <1>5, <1>6, <1>7, <1>8, <1>9 DEF Inv

LEMMA CloseKeeps == Inv /\ CloseInfo => Inv'
<1> SUFFICES ASSUME Inv, CloseInfo PROVE Inv'
  OBVIOUS
<1>1. HeadInv /\ TocInv /\ GotInv /\ DirInv /\ OutInv
  BY DEF Inv
<1>2. /\ pc = "extract" /\ pc' = IF round = 1 THEN "pack" ELSE "done"
      /\ UNCHANGED <<file, opts, round, sf, offsets, pos, i, got, dir, edited, out>>
  BY DEF CloseInfo
<1>3. HeadInv'
  BY <1>1, <1>2 DEF HeadInv
<1>4. TocInv' /\ OutInv' /\ IndexMatches'
  BY <1>2 DEF TocInv, OutInv, IndexMatches
<1>5. GotInv'
  BY <1>1, <1>2 DEF GotInv
<1>6. DirInv'
  BY <1>1, <1>2 DEF DirInv
<1> QED BY <1>3, <1>4, <1>5, <1>6 DEF Inv

\* Where the program ends without having written anything.
LEMMA EndKeeps ==
  /\ Inv /\ pc \in {"pack", "add"} /\ pc' \in {"failed", "crashed", "overrun"}
  /\ UNCHANGED <<file, opts, round, sf, offsets, pos, i, got, dir, edited, out>>
  => Inv'
<1> SUFFICES ASSUME Inv, pc \in {"pack", "add"}, pc' \in {"failed", "crashed", "overrun"},
                    UNCHANGED <<file, opts, round, sf, offsets, pos, i, got, dir, edited, out>>
             PROVE  Inv'
  OBVIOUS
<1>1. HeadInv /\ TocInv /\ GotInv /\ DirInv /\ OutInv
  BY DEF Inv
<1>2. HeadInv'
  BY <1>1 DEF HeadInv
<1>3. TocInv' /\ OutInv' /\ IndexMatches'
  BY DEF TocInv, OutInv, IndexMatches
<1>4. GotInv'
  BY <1>1 DEF GotInv
<1>5. DirInv'
  BY <1>1 DEF DirInv
<1> QED BY <1>2, <1>3, <1>4, <1>5 DEF Inv

LEMMA FailKeeps == Inv /\ (AddFails \/ AddOverruns) => Inv'
  BY EndKeeps DEF AddFails, AddOverruns

LEMMA EditKeeps == Inv /\ Edit => Inv'
<1> SUFFICES ASSUME Inv, Edit PROVE Inv'
  OBVIOUS
<1>1. HeadInv /\ TocInv /\ GotInv /\ DirInv /\ OutInv
  BY DEF Inv
<1>2. pc = "pack" /\ UNCHANGED <<file, opts, pc, round, sf, offsets, pos, i, got, out>>
  BY DEF Edit
<1>3. PICK j \in DOMAIN dir.lines, t \in Edits : dir' = [dir EXCEPT !.lines[j].tga = t]
  BY DEF Edit
<1>4. PICK n \in Nat : n = Len(dir.lines) /\ dir.lines = [k \in 1..n |-> dir.lines[k]]
  BY <1>1, Lengths DEF DirInv
<1>5. \A k \in 1..n : GoodLine(dir.lines[k])
  BY <1>1, <1>4 DEF DirInv
<1> DEFINE l == dir.lines[j]
           new == [l EXCEPT !.tga = t]
           more == [dir.lines EXCEPT ![j] = new]
<1>6. j \in 1..n /\ GoodLine(l)
  BY <1>4, <1>5
<1>7. new = [n |-> l.n, org_bpp |-> l.org_bpp, tga |-> t]
  BY <1>6 DEF GoodLine
<1>8. GoodTga(t)
  <2>1. t.depth \in Nat \ {0} /\ filled(t.w, t.h, tga_pixels(t))
    BY EditsAssumption
  <2> QED BY <2>1, FilledPicture DEF GoodTga, IsPicture, Picture
<1>9. GoodLine(new)
  <2>1. new.n = l.n /\ new.org_bpp = l.org_bpp /\ new.tga = t
    BY <1>7
  <2> HIDE DEF new
  <2> QED BY <1>6, <1>7, <1>8, <2>1 DEF GoodLine
<1>10. dir' = [version |-> dir.version, id |-> dir.id, palette |-> dir.palette, lines |-> more]
  <2>1. dir = [version |-> dir.version, id |-> dir.id, palette |-> dir.palette,
               lines |-> dir.lines]
    BY <1>1 DEF DirInv
  <2>2. dir' = [dir EXCEPT !.lines = more]
    BY <1>3
  <2> HIDE DEF more
  <2> QED BY <2>1, <2>2
<1>11. /\ more = [k \in 1..n |-> more[k]]
       /\ \A k \in 1..n : more[k] = IF k = j THEN new ELSE dir.lines[k]
  <2> HIDE DEF new
  <2> QED BY <1>4, <1>6
<1> HIDE DEF more, new, l
<1>12. IsSeq(more) /\ Len(more) = n
  BY <1>11, Numbered
<1>13. \A k \in 1..n : GoodLine(more[k])
  BY <1>5, <1>9, <1>11
<1>14. DirInv'
  BY <1>1, <1>2, <1>10, <1>12, <1>13 DEF DirInv
<1>15. HeadInv' /\ GotInv'
  BY <1>1, <1>2 DEF HeadInv, GotInv
<1>16. TocInv' /\ OutInv' /\ IndexMatches'
  BY <1>2 DEF TocInv, OutInv, IndexMatches
<1> QED BY <1>14, <1>15, <1>16 DEF Inv

LEMMA StartKeeps == Inv /\ StartPack => Inv'
<1> SUFFICES ASSUME Inv, StartPack PROVE Inv'
  OBVIOUS
<1>1. HeadInv /\ TocInv /\ GotInv /\ DirInv /\ OutInv
  BY DEF Inv
<1>2. pc = "pack" /\ UNCHANGED <<file, opts, round, sf, offsets, pos, got, dir, edited>>
  BY DEF StartPack
<1>3. CASE dir.lines = <<>> \/ dir.lines[1].n # 0
  <2>1. pc' \in {"crashed", "failed"} /\ UNCHANGED <<out, i>>
    BY <1>3 DEF StartPack
  <2> QED BY <1>2, <2>1, EndKeeps
<1>4. CASE ~(dir.lines = <<>> \/ dir.lines[1].n # 0)
  <2>1. pc' = "add" /\ out' = SpriteFile_write_header /\ i' = 1
    BY <1>4 DEF StartPack
  <2>2. HeadInv' /\ GotInv' /\ DirInv'
    BY <1>1, <1>2, <2>1 DEF HeadInv, GotInv, DirInv
  <2>3. TocInv' /\ IndexMatches'
    BY <2>1 DEF TocInv, IndexMatches
  <2>4. OutInv'
    <3>1. PICK v \in {4, 5, 6} : v = Min({dir.version, 6})
      <4>1. dir.version \in versions
        BY <1>1, <1>2 DEF DirInv
      <4>2. {dir.version, 6} \in SUBSET Nat /\ {dir.version, 6} # {} /\ 6 \in {dir.version, 6}
        BY <4>1 DEF versions
      <4>3. Min({dir.version, 6}) \in {dir.version, 6} /\ Min({dir.version, 6}) <= 6
        BY <4>2, MinIs
      <4> QED BY <4>1, <4>3 DEF versions
    <3>2. /\ out' = [version |-> out'.version, top |-> out'.top, slots |-> out'.slots,
                     storage |-> out'.storage, id |-> out'.id, palette |-> out'.palette]
          /\ out'.version = v /\ out'.slots = <<>>
      BY <2>1, <3>1 DEF SpriteFile_write_header
    <3>3. \A k \in 1..0 : FALSE
      OBVIOUS
    <3>4. WrittenFile(out')
      BY <3>2, <3>3, EmptyList DEF WrittenFile
    <3>5. Len(dir.lines) \in Nat \ {0}
      <4>1. IsSeq(dir.lines)
        BY <1>1 DEF DirInv
      <4>2. Len(dir.lines) # 0
        <5>1. ASSUME Len(dir.lines) = 0 PROVE dir.lines = <<>>
          BY <4>1, <5>1, EmptyList, SameSeq
        <5> QED BY <1>4, <5>1
      <4> QED BY <4>1, <4>2, Lengths
    <3>6. 1 \in Nat \ {0} /\ ~(1 > 1)
      OBVIOUS
    <3> QED BY <1>2, <2>1, <3>2, <3>4, <3>5, <3>6 DEF OutInv
  <2> QED BY <2>2, <2>3, <2>4 DEF Inv
<1> QED BY <1>3, <1>4

LEMMA ExtractKeeps == Inv /\ ExtractSlot => Inv'
<1> SUFFICES ASSUME Inv, ExtractSlot PROVE Inv'
  OBVIOUS
<1>1. HeadInv /\ TocInv /\ GotInv /\ DirInv /\ OutInv
  BY DEF Inv
<1> DEFINE d == IF offsets[i + 1] = 0 THEN NoPicture
                ELSE SpriteFile_extract(SlotAt(offsets[i + 1]))
           entry == [n |-> i, org_bpp |-> IF d.bpp \in {1, 2} THEN d.bpp ELSE 4,
                     tga |-> Targa_writefile(to_save(d), sf.palette)]
<1>2. /\ pc = "extract" /\ i < sf.num_sprites /\ i' = i + 1
      /\ got' = [got EXCEPT ![round] = Append(@, d)]
      /\ dir' = IF d = NoPicture THEN dir ELSE [dir EXCEPT !.lines = Append(@, entry)]
      /\ UNCHANGED <<file, opts, pc, round, sf, offsets, pos, edited, out>>
  BY DEF ExtractSlot
<1>3. PICK N \in Nat : /\ N = Len(file.slots) /\ FileRead(N)
                       /\ i \in 0..sf.num_sprites /\ OffsetsFound(sf.num_sprites)
  BY <1>1, <1>2 DEF TocInv
<1>4. PICK m \in 0..N : m = sf.num_sprites
  BY <1>3 DEF FileRead
<1>5. PICK j \in 0..m : j = i
  BY <1>3, <1>4
<1>6. j < m /\ j + 1 \in 1..m /\ j + 1 \in 1..N /\ j \in 0..N - 1 /\ (j + 1) - 1 = j
      /\ j + 1 \in 0..m
  BY <1>2, <1>4, <1>5
<1>7. GoodFile(file, N) /\ HeadOf(file, sf)
  BY <1>3 DEF FileRead
<1>8. PICK s \in {file.slots[j + 1]} :
        d = IF s.bpp = 0 THEN NoPicture ELSE SpriteFile_extract(s)
  <2> DEFINE s == file.slots[j + 1]
  <2>1. offsets[i + 1] = IF s.bpp = 0 THEN 0 ELSE Place(file, j)
    BY <1>3, <1>4, <1>5, <1>6 DEF OffsetsFound
  <2>2. Place(file, j) # 0
    BY <1>6, <1>7, Behind
  <2>3. SlotAt(Place(file, j)) = s
    BY <1>6, <1>7, Found
  <2>4. d = IF s.bpp = 0 THEN NoPicture ELSE SpriteFile_extract(s)
    <3>1. CASE s.bpp = 0
      BY <2>1, <3>1
    <3>2. CASE s.bpp # 0
      BY <2>1, <2>2, <2>3, <3>2
    <3> QED BY <3>1, <3>2
  <2> HIDE DEF s, d
  <2> QED BY <2>4 DEF s
<1>9. d = NoPicture \/ GoodPicture(d)
  <2>1. CASE s.bpp = 0
    BY <1>8, <2>1
  <2>2. CASE s.bpp # 0
    <3>1. s = file.slots[j + 1]
      OBVIOUS
    <3>2. LET e == SpriteFile_extract(file.slots[j + 1]) IN e = NoPicture \/ GoodPicture(e)
      BY <1>6, <1>7, <2>2, <3>1, Extracted
    <3> QED BY <1>8, <2>2, <3>1, <3>2
  <2> QED BY <2>1, <2>2
<1>10. round = 2 /\ s.px # <<>> => d = Picture(s.w, s.h, s.bpp, s.px)
  <2> SUFFICES ASSUME round = 2, s.px # <<>> PROVE d = Picture(s.w, s.h, s.bpp, s.px)
    OBVIOUS
  <2>1. WrittenFile(file)
    BY <1>1 DEF HeadInv, Finished
  <2>2. s.bpp # 0 /\ SpriteFile_extract(s) = Picture(s.w, s.h, s.bpp, s.px)
    BY <1>3, <1>6, <1>7, <2>1, ExtractedAgain
  <2> QED BY <1>8, <2>2
<1>11. GoodLine(entry) \/ d = NoPicture
  <2> SUFFICES ASSUME d # NoPicture PROVE GoodLine(entry)
    OBVIOUS
  <2>1. GoodTga(Targa_writefile(to_save(d), sf.palette))
    BY <1>9, ToSave, TargaGood
  <2>2. /\ entry = [n |-> entry.n, org_bpp |-> entry.org_bpp, tga |-> entry.tga]
        /\ entry.n = i /\ entry.tga = Targa_writefile(to_save(d), sf.palette)
    OBVIOUS
  <2>3. i \in Nat
    BY <1>5
  <2> HIDE DEF entry, d
  <2> QED BY <2>1, <2>2, <2>3 DEF GoodLine
<1> HIDE DEF entry, d
<1>12. HeadInv'
  BY <1>1, <1>2 DEF HeadInv
<1>13. TocInv'
  <2>1. FileRead(N)' /\ OffsetsFound(sf.num_sprites)'
    BY <1>2, <1>3 DEF FileRead, OffsetsFound
  <2> QED BY <1>2, <1>3, <1>4, <1>5, <1>6, <2>1 DEF TocInv
<1>14. GotInv'
  <2>1. /\ got = <<got[1], got[2]>> /\ IsSeq(got[1]) /\ IsSeq(got[2])
        /\ round = 1 => got[2] = <<>>
        /\ Len(got[round]) = i /\ round \in {1, 2}
    BY <1>1, <1>2 DEF GotInv, HeadInv
  <2>2. got' = <<got'[1], got'[2]>>
    BY <1>2, <2>1
  <2>3. /\ got'[round] = Append(got[round], d)
        /\ \A r \in {1, 2} : r # round => got'[r] = got[r]
    BY <1>2, <2>1
  <2>4. /\ IsSeq(got'[round]) /\ Len(got'[round]) = j + 1
        /\ \A k \in 1..j : got'[round][k] = got[round][k]
        /\ got'[round][j + 1] = d
    <3>1. IsSeq(got[round]) /\ Len(got[round]) = j
      BY <1>5, <2>1
    <3> QED BY <2>3, <3>1, Longer
  <2>5. IsSeq(got'[1]) /\ IsSeq(got'[2]) /\ (round = 1 => got'[2] = <<>>)
    <3>1. CASE round = 1
      <4>1. got'[2] = got[2]
        BY <2>3, <3>1
      <4> QED BY <2>1, <2>4, <3>1, <4>1
    <3>2. CASE round = 2
      <4>1. got'[1] = got[1]
        BY <2>3, <3>2
      <4> QED BY <2>1, <2>4, <3>2, <4>1
    <3> QED BY <2>1, <3>1, <3>2
  <2>6. ASSUME round = 2, NEW k \in 1..Len(got'[2]), file.slots[k].px # <<>>
        PROVE  got'[2][k] = LET z == file.slots[k] IN Picture(z.w, z.h, z.bpp, z.px)
    <3>1. k \in 1..j + 1
      BY <2>4, <2>6
    <3>2. CASE k = j + 1
      BY <1>10, <2>4, <2>6, <3>2
    <3>3. CASE k # j + 1
      <4>1. k \in 1..j /\ k \in 1..Len(got[2])
        BY <1>5, <2>1, <2>6, <3>1, <3>3
      <4>2. got[2][k] = LET z == file.slots[k] IN Picture(z.w, z.h, z.bpp, z.px)
        BY <1>1, <2>6, <4>1 DEF GotInv
      <4> QED BY <2>4, <2>6, <4>1, <4>2
    <3> QED BY <3>2, <3>3
  <2>7. \A k \in 1..Len(got'[2]) : round = 2 =>
          LET z == file.slots[k] IN z.px # <<>> => got'[2][k] = Picture(z.w, z.h, z.bpp, z.px)
    BY <2>6
  <2>8. Len(got'[round]) = i'
    BY <1>2, <1>5, <2>4
  <2> QED BY <1>2, <2>2, <2>5, <2>7, <2>8 DEF GotInv
<1>15. DirInv'
  <2>1. CASE d = NoPicture
    BY <1>1, <1>2, <2>1 DEF DirInv
  <2>2. CASE d # NoPicture
    <3>1. dir' = [version |-> dir.version, id |-> dir.id, palette |-> dir.palette,
                  lines |-> Append(dir.lines, entry)]
      <4>1. dir = [version |-> dir.version, id |-> dir.id, palette |-> dir.palette,
                   lines |-> dir.lines]
        BY <1>1 DEF DirInv
      <4> QED BY <1>2, <2>2, <4>1
    <3>2. IsSeq(dir.lines) /\ \A k \in 1..Len(dir.lines) : GoodLine(dir.lines[k])
      BY <1>1 DEF DirInv
    <3>3. PICK n \in Nat : n = Len(dir.lines)
      BY <3>2, Lengths
    <3>4. PICK more \in {Append(dir.lines, entry)} :
            /\ IsSeq(more) /\ Len(more) = n + 1 /\ more[n + 1] = entry
            /\ \A k \in 1..n : more[k] = dir.lines[k]
      BY <3>2, <3>3, Longer
    <3>5. ASSUME NEW k \in 1..n + 1 PROVE GoodLine(more[k])
      <4>1. CASE k = n + 1
        BY <1>11, <2>2, <3>4, <4>1
      <4>2. CASE k # n + 1
        <5>1. k \in 1..n
          BY <4>2
        <5> QED BY <3>2, <3>3, <3>4, <5>1
      <4> QED BY <4>1, <4>2
    <3> QED BY <1>1, <1>2, <3>1, <3>4, <3>5 DEF DirInv
  <2> QED BY <2>1, <2>2
<1>16. OutInv' /\ IndexMatches'
  BY <1>2 DEF OutInv, IndexMatches
<1> QED BY <1>12, <1>13, <1>14, <1>15, <1>16 DEF Inv

LEMMA AddKeeps == Inv /\ SpriteFile_add => Inv'
<1> SUFFICES ASSUME Inv, SpriteFile_add PROVE Inv'
  OBVIOUS
<1>1. HeadInv /\ TocInv /\ GotInv /\ DirInv /\ OutInv
  BY DEF Inv
<1> DEFINE gap == Max({0, dir.lines[i].n - Len(out.slots)})
           more == out.slots \o [k \in 1..gap |-> EmptySlot] \o <<slot_of(line_picture)>>
<1>2. /\ pc = "add" /\ i <= Len(dir.lines) /\ i' = i + 1 /\ line_picture # NoPicture
      /\ out' = [out EXCEPT !.slots = more]
      /\ UNCHANGED <<file, opts, pc, round, sf, offsets, pos, got, dir, edited>>
  BY DEF SpriteFile_add
<1>3. HeadInv'
  BY <1>1, <1>2 DEF HeadInv
<1>4. TocInv' /\ IndexMatches'
  BY <1>2 DEF TocInv, IndexMatches
<1>5. GotInv'
  BY <1>1, <1>2 DEF GotInv
<1>6. DirInv'
  BY <1>1, <1>2 DEF DirInv
<1>7. OutInv'
  <2>1. /\ out = [version |-> out.version, top |-> out.top, slots |-> out.slots,
                  storage |-> out.storage, id |-> out.id, palette |-> out.palette]
        /\ WrittenFile(out) /\ i \in Nat \ {0} /\ Len(dir.lines) \in Nat \ {0}
    BY <1>1, <1>2 DEF OutInv
  <2>2. i \in 1..Len(dir.lines)
    BY <1>2, <2>1
  <2>3. GoodLine(dir.lines[i])
    BY <1>1, <2>2 DEF DirInv
  <2>4. WrittenSlot(out, slot_of(line_picture))
    BY <1>2, <2>3, LinePicture, SlotWritten DEF GoodLine
  <2>5. gap \in Nat
    <3>1. PICK n \in Nat, h \in Nat : n = dir.lines[i].n /\ h = Len(out.slots)
      BY <2>1, <2>3, Lengths DEF GoodLine, WrittenFile
    <3> DEFINE T == {0, n - h}
    <3>2. gap = Max(T)
      BY <3>1
    <3>3. \E x \in T : \A y \in T : x >= y
      <4>1. CASE n - h >= 0
        BY <4>1
      <4>2. CASE ~(n - h >= 0)
        BY <4>2
      <4> QED BY <4>1, <4>2
    <3>4. 0 \in T
      OBVIOUS
    <3>5. T \subseteq Int
      OBVIOUS
    <3> HIDE DEF gap, T
    <3>6. Max(T) \in T /\ Max(T) >= 0
      BY <3>3, <3>4 DEF Max
    <3>7. PICK x \in Int : x = Max(T) /\ x >= 0
      BY <3>5, <3>6
    <3>8. x \in Nat
      BY <3>7
    <3> QED BY <3>2, <3>7, <3>8
  <2> HIDE DEF gap
  <2>6. /\ IsSeq(more) /\ Len(more) \in Nat \ {0}
        /\ \A k \in 1..Len(more) : WrittenSlot(out, more[k])
    BY <2>1, <2>4, <2>5, SlotsAdded
  <2> HIDE DEF more
  <2>7. out' = [version |-> out.version, top |-> out.top, slots |-> more,
                storage |-> out.storage, id |-> out.id, palette |-> out.palette]
    BY <1>2, <2>1
  <2>8. is_compressed(out') = is_compressed(out) /\ out'.version \in {4, 5, 6}
    BY <2>1, <2>7 DEF is_compressed, WrittenFile
  <2>9. \A k \in 1..Len(more) : WrittenSlot(out', more[k])
    BY <2>6, <2>8 DEF WrittenSlot
  <2>10. WrittenFile(out')
    BY <2>6, <2>7, <2>8, <2>9 DEF WrittenFile
  <2>11. /\ out' = [version |-> out'.version, top |-> out'.top, slots |-> out'.slots,
                    storage |-> out'.storage, id |-> out'.id, palette |-> out'.palette]
         /\ out'.slots = more
    BY <2>7
  <2>12. i' \in Nat \ {0}
    BY <1>2, <2>1
  <2> QED BY <1>2, <2>1, <2>6, <2>10, <2>11, <2>12 DEF OutInv
<1> QED BY <1>3, <1>4, <1>5, <1>6, <1>7 DEF Inv

LEMMA FinalizeKeeps == Inv /\ SpriteFile_finalize => Inv'
<1> SUFFICES ASSUME Inv, SpriteFile_finalize PROVE Inv'
  OBVIOUS
<1>1. HeadInv /\ TocInv /\ GotInv /\ DirInv /\ OutInv
  BY DEF Inv
<1> DEFINE top == IF Len(out.slots) >= MAX_OLD_SPRITES THEN 0 ELSE Len(out.slots) - 1
<1>2. /\ pc = "add" /\ i > Len(dir.lines)
      /\ file' = [out EXCEPT !.top = top] /\ pc' = "header" /\ round' = 2
      /\ UNCHANGED <<opts, sf, offsets, pos, i, got, dir, edited, out>>
  BY DEF SpriteFile_finalize
<1>3. /\ out = [version |-> out.version, top |-> out.top, slots |-> out.slots,
                storage |-> out.storage, id |-> out.id, palette |-> out.palette]
      /\ WrittenFile(out) /\ i \in Nat \ {0} /\ Len(dir.lines) \in Nat \ {0}
      /\ i > 1 => Len(out.slots) \in Nat \ {0}
  BY <1>1, <1>2 DEF OutInv
<1>4. Len(out.slots) \in Nat \ {0}
  <2>1. i > 1
    BY <1>2, <1>3
  <2> QED BY <1>3, <2>1
<1>5. top \in {0, Len(out.slots) - 1}
  OBVIOUS
<1> HIDE DEF top
<1>6. file' = [version |-> out.version, top |-> top, slots |-> out.slots,
               storage |-> out.storage, id |-> out.id, palette |-> out.palette]
  BY <1>2, <1>3
<1>7. Finished(file')
  <2>1. is_compressed(file') = is_compressed(out) /\ file'.slots = out.slots
        /\ file'.version = out.version /\ file'.top = top
    BY <1>6 DEF is_compressed
  <2>2. \A k \in 1..Len(out.slots) : WrittenSlot(file', out.slots[k])
    BY <1>3, <2>1 DEF WrittenFile, WrittenSlot
  <2> QED BY <1>3, <1>4, <1>5, <2>1, <2>2 DEF Finished, WrittenFile
<1>8. HeadInv'
  BY <1>1, <1>2, <1>7 DEF HeadInv
<1>9. TocInv' /\ OutInv' /\ IndexMatches'
  BY <1>2 DEF TocInv, OutInv, IndexMatches
<1>10. GotInv'
  <2>1. round = 1
    BY <1>1, <1>2 DEF HeadInv
  <2>2. got[2] = <<>>
    BY <1>1, <2>1 DEF GotInv
  <2>3. Len(got[2]) = 0 /\ \A k \in 1..0 : FALSE
    BY <2>2, EmptyList
  <2> QED BY <1>1, <1>2, <2>2, <2>3 DEF GotInv
<1>11. DirInv'
  BY <1>1, <1>2 DEF DirInv
<1> QED BY <1>8, <1>9, <1>10, <1>11 DEF Inv

LEMMA IndexKeeps == Inv /\ SpriteFile_write_sprindex => Inv'
<1> SUFFICES ASSUME Inv, SpriteFile_write_sprindex PROVE Inv'
  OBVIOUS
<1>1. HeadInv /\ TocInv /\ GotInv /\ DirInv /\ OutInv
  BY DEF Inv
<1>2. /\ pc = "toc" /\ i = sf.num_sprites /\ opts.command = "index"
      /\ pc' \in {"failed", "indexed"}
      /\ UNCHANGED <<file, opts, round, sf, offsets, pos, i, got, dir, edited>>
  BY DEF SpriteFile_write_sprindex
<1>3. round = 1
  BY <1>1, <1>2 DEF HeadInv
<1>4. PICK N \in Nat : /\ N = Len(file.slots) /\ FileRead(N)
                       /\ i \in 0..sf.num_sprites /\ OffsetsFound(i)
  BY <1>1, <1>2 DEF TocInv
<1>5. i = N /\ GoodFile(file, N) /\ HeadOf(file, sf)
  BY <1>2, <1>3, <1>4 DEF FileRead
<1>6. HeadInv'
  BY <1>1, <1>2, <1>3 DEF HeadInv
<1>7. TocInv'
  <2>1. FileRead(N)' /\ OffsetsFound(N)'
    BY <1>2, <1>4, <1>5 DEF FileRead, OffsetsFound
  <2> QED BY <1>2, <1>4, <2>1 DEF TocInv
<1>8. GotInv' /\ DirInv'
  BY <1>1, <1>2 DEF GotInv, DirInv
<1>9. OutInv'
  BY <1>2 DEF OutInv
<1>10. IndexMatches'
  <2> SUFFICES ASSUME pc' = "indexed", file.version < 12
               PROVE  /\ Len(out'.sizes) = Len(file.slots)
                      /\ \A k \in DOMAIN file.slots :
                           /\ out'.sizes[k] = <<file.slots[k].w, file.slots[k].h>>
                           /\ out'.offsets[k] = IF file.slots[k].bpp = 0 THEN 0
                                                ELSE Place(file, k - 1)
    BY <1>2 DEF IndexMatches
  <2> DEFINE sizes == [k \in DOMAIN offsets |-> IF offsets[k] = 0 THEN <<0, 0>>
                                                ELSE size_read(SlotAt(offsets[k]))]
  <2>1. out' = [top |-> sf.num_sprites - 1, offsets |-> offsets,
                id |-> IF sf.version > 5 THEN sf.id ELSE 0, sizes |-> sizes]
    BY DEF SpriteFile_write_sprindex
  <2>2. out'.sizes = sizes /\ out'.offsets = offsets
    BY <2>1
  <2>3. /\ IsSeq(offsets) /\ Len(offsets) = N
        /\ \A k \in 1..N : offsets[k] = IF file.slots[k].bpp = 0 THEN 0 ELSE Place(file, k - 1)
    BY <1>4, <1>5 DEF OffsetsFound
  <2>4. DOMAIN offsets = 1..N
    <3>1. offsets = [k \in 1..N |-> offsets[k]]
      BY <2>3, Lengths
    <3> QED BY <3>1
  <2>5. Len(sizes) = N
    <3>1. sizes = [k \in 1..N |-> sizes[k]]
      BY <2>4
    <3> HIDE DEF sizes
    <3> QED BY <3>1, Numbered
  <2>6. ASSUME NEW k \in 1..N PROVE sizes[k] = <<file.slots[k].w, file.slots[k].h>>
    <3>1. PICK s \in {file.slots[k]} : GoodSlot(file, k)
      BY <1>5 DEF GoodFile
    <3>2. sizes[k] = IF offsets[k] = 0 THEN <<0, 0>> ELSE size_read(SlotAt(offsets[k]))
      BY <2>4
    <3> HIDE DEF sizes
    <3>3. CASE s.bpp = 0
      <4>1. s = EmptySlot
        <5>1. s.bpp \notin Nat \ {0}
          BY <3>3
        <5> QED BY <3>1, <5>1 DEF GoodSlot
      <4>2. sizes[k] = <<0, 0>>
        BY <2>3, <3>2, <3>3
      <4> QED BY <4>1, <4>2 DEF EmptySlot
    <3>4. CASE s.bpp # 0
      <4>1. PICK j \in 0..N - 1 : j = k - 1 /\ j + 1 = k
        <5>1. k - 1 \in 0..N - 1 /\ (k - 1) + 1 = k
          OBVIOUS
        <5> QED BY <5>1
      <4>2. offsets[k] = Place(file, j)
        BY <2>3, <3>4, <4>1
      <4>3. Place(file, j) # 0 /\ SlotAt(Place(file, j)) = s
        BY <1>5, <4>1, Behind, Found
      <4>4. ~(sf.version >= 12)
        <5>1. PICK v \in versions : v = file.version /\ v = sf.version
          BY <1>5 DEF GoodFile, HeadOf
        <5>2. v < 12
          BY <5>1
        <5> QED BY <5>1, <5>2 DEF versions
      <4>5. size_read(s) = <<s.w, s.h>>
        BY <4>4 DEF size_read
      <4> QED BY <3>2, <4>2, <4>3, <4>5
    <3> QED BY <3>3, <3>4
  <2>7. DOMAIN file.slots = 1..N
    BY <1>5 DEF GoodFile
  <2> HIDE DEF sizes
  <2> QED BY <1>4, <2>2, <2>3, <2>5, <2>6, <2>7
<1> QED BY <1>6, <1>7, <1>8, <1>9, <1>10 DEF Inv

LEMMA Inductive == Inv /\ [Next]_vars => Inv'
<1>1. Inv /\ Next => Inv'
  BY ReadKeeps, SlotKeeps, OpenKeeps, ExtractKeeps, CloseKeeps, EditKeeps, StartKeeps, AddKeeps,
     FailKeeps, FinalizeKeeps, IndexKeeps DEF Next
<1> QED BY <1>1, Stays

LEMMA Invariant == Spec => []Inv
  BY Starts, Inductive, PTL DEF Spec

-----------------------------------------------------------------------------
(* What it implies                                                         *)

\* The offsets SpriteFile_read collects while it skips over the sprites, by the
\* sizes the slots state, are the places where the slots are: in a file of any
\* version and in the one SpriteFile_add wrote, whatever was packed into it.
THEOREM OffsetsAreSlots == Spec => []TocCovers
<1>1. Inv => TocCovers
  <2> SUFFICES ASSUME Inv, pc \in {"toc", "extract", "indexed"}
               PROVE  /\ sf.num_sprites <= Len(file.slots)
                      /\ \A k \in DOMAIN offsets :
                           offsets[k] = IF file.slots[k].bpp = 0 THEN 0 ELSE Place(file, k - 1)
    BY DEF TocCovers
  <2>1. PICK N \in Nat : /\ N = Len(file.slots) /\ FileRead(N)
                         /\ OffsetsFound(i) \/ OffsetsFound(sf.num_sprites) \/ OffsetsFound(N)
    BY DEF Inv, TocInv
  <2>2. PICK m : OffsetsFound(m)
    BY <2>1
  <2>3. offsets = [k \in 1..m |-> offsets[k]]
    BY <2>2, Lengths DEF OffsetsFound
  <2>4. sf.num_sprites <= N
    BY <2>1 DEF FileRead
  <2> QED BY <2>1, <2>2, <2>3, <2>4 DEF OffsetsFound
<1> QED BY <1>1, Invariant, PTL

\* sprindex.dat tells for each sprite of a file before version 12 where it is and
\* how large it is, although SpriteFile_read never looks at a sprite's contents.
THEOREM IndexIsTheFile == Spec => []IndexMatches
<1>1. Inv => IndexMatches
  BY DEF Inv
<1> QED BY <1>1, Invariant, PTL

\* Whatever picture is in a targa file, of agsprite's or of a user, rle_encode stays
\* within the buffer it allocates for it.
THEOREM TargaInRoom == Spec => []TgaFits
<1>1. Inv => TgaFits
  <2> SUFFICES ASSUME Inv, NEW k \in DOMAIN dir.lines
               PROVE  LET t == dir.lines[k].tga
                          px == tga_pixels(t)
                      IN ChunkBytes(rle_encode(px), t.depth) <= rle_room(px, t.depth)
    BY DEF TgaFits
  <2>1. IsSeq(dir.lines) /\ \A j \in 1..Len(dir.lines) : GoodLine(dir.lines[j])
    BY DEF Inv, DirInv
  <2>2. k \in 1..Len(dir.lines)
    <3>1. dir.lines = [j \in 1..Len(dir.lines) |-> dir.lines[j]]
      BY <2>1, Lengths
    <3> QED BY <3>1
  <2>3. PICK t \in {dir.lines[k].tga} : GoodTga(t)
    BY <2>1, <2>2 DEF GoodLine
  <2>4. t.depth \in Nat \ {0} /\ IsSeq(tga_pixels(t))
    BY <2>3 DEF GoodTga, IsPicture, Picture
  <2>5. ChunkBytes(rle_encode(tga_pixels(t)), t.depth) <= rle_room(tga_pixels(t), t.depth)
    BY <2>4, EncodeFits
  <2>6. t = dir.lines[k].tga
    OBVIOUS
  <2> QED BY <2>5, <2>6
<1> QED BY <1>1, Invariant, PTL

\* SpriteFile_extract gives, of every sprite of a file that agsprite packed, the
\* picture that was packed: in each version and with each way to store it.
THEOREM PackedIsExtracted == Spec => [](round = 2 => ExtractedIsStored)
<1>1. Inv => (round = 2 => ExtractedIsStored)
  <2> SUFFICES ASSUME Inv, round = 2, NEW k \in DOMAIN got[2], file.slots[k].px # <<>>
               PROVE  LET s == file.slots[k] IN got[2][k] = Picture(s.w, s.h, s.bpp, s.px)
    BY DEF ExtractedIsStored
  <2>1. /\ IsSeq(got[2])
        /\ \A j \in 1..Len(got[2]) :
             LET s == file.slots[j]
             IN s.px # <<>> => got[2][j] = Picture(s.w, s.h, s.bpp, s.px)
    BY DEF Inv, GotInv
  <2>2. k \in 1..Len(got[2])
    <3>1. got[2] = [j \in 1..Len(got[2]) |-> got[2][j]]
      BY <2>1, Lengths
    <3> QED BY <3>1
  <2> QED BY <2>1, <2>2
<1> QED BY <1>1, Invariant, PTL
=============================================================================
