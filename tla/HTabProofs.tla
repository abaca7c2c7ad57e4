----------------------------- MODULE HTabProofs -----------------------------
(***************************************************************************)
(* Theorems about hsearch.c: its counters are right, so a slot stays empty *)
(* in every table, and a probe, which sees all slots of a table whose size *)
(* is a power of 2, ends; and the table implements a map, for any size and *)
(* any hash function: no probe meets an empty slot in front of its key,    *)
(* whatever was inserted, deleted and moved before, and no key is there    *)
(* twice as long as nobody inserts one that is there.                      *)
(***************************************************************************)
EXTENDS HTab, FiniteSetTheorems, WellFoundedInduction, TLAPS

-----------------------------------------------------------------------------
(* Numbers                                                                 *)

LEMMA NatMin ==
  ASSUME NEW S \in SUBSET Nat, S # {}
  PROVE  \E x \in S : \A y \in S : x <= y
<1> DEFINE R == OpToRel(<, Nat)
<1>1. IsWellFoundedOn(R, Nat)
  BY NatLessThanWellFounded
<1>2. PICK x \in S : \A y \in S : ~ (<<y, x>> \in R)
  <2> HIDE DEF R
  <2> QED BY <1>1, WFMin
<1>3. ASSUME NEW y \in S PROVE x <= y
  <2>1. ~ (<<y, x>> \in R)
    BY <1>2
  <2>2. ~(y < x)
    BY <2>1 DEF OpToRel
  <2> QED BY <2>2
<1> QED BY <1>3

\* A power of 2 is 1 or twice a power of 2 ...
LEMMA HalfPower ==
  ASSUME NEW n \in Nat \ {0, 1}, PowerOf2(n)
  PROVE  \E t \in Nat \ {0} : n = 2 * t /\ PowerOf2(t)
<1>1. n % 2 # 1
  <2>1. n \in 1..n /\ 1 \in 1..n /\ n * 1 = n
    OBVIOUS
  <2>2. n % 2 = 1 => n = 1
    BY <2>1 DEF PowerOf2
  <2> QED BY <2>2
<1>2. PICK t \in Nat \ {0} : n = 2 * t
  <2>1. n = 2 * (n \div 2) /\ n \div 2 \in Nat \ {0}
    BY <1>1
  <2> QED BY <2>1
<1>3. ASSUME NEW d \in 1..t, NEW q \in 1..t, d * q = t, d % 2 = 1
      PROVE  d = 1
  <2>1. 2 * q \in 1..n /\ d \in 1..n
    BY <1>2
  <2>2. d * (2 * q) = 2 * (d * q)
    OBVIOUS
  <2>3. d * (2 * q) = n
    BY <1>2, <1>3, <2>2
  <2> QED BY <1>3, <2>1, <2>3 DEF PowerOf2
<1>4. PowerOf2(t)
  BY <1>3 DEF PowerOf2
<1> QED BY <1>2, <1>4

LEMMA OddOrEven ==
  ASSUME NEW n \in Nat
  PROVE  \E e \in Nat : \/ n = 2 * e /\ n % 2 = 0
                        \/ n = 2 * e + 1 /\ n % 2 = 1
<1>1. /\ n \div 2 \in Nat
      /\ \/ n = 2 * (n \div 2) /\ n % 2 = 0
         \/ n = 2 * (n \div 2) + 1 /\ n % 2 = 1
  OBVIOUS
<1> QED BY <1>1

Odd(n) == n % 2 = 1

Even(n) == \E y \in Nat : n = 2 * y

\* The other factor is even if one is odd and the product is not.
LEMMA EvenFactor ==
  ASSUME NEW a \in Nat, NEW x \in Nat, Odd(a), Even(a * x)
  PROVE  Even(x)
<1> PICK k \in Nat : a * x = 2 * k
  BY DEF Even
<1> a % 2 = 1
  BY DEF Odd
<1>1. PICK e \in Nat : a = 2 * e + 1
  BY OddOrEven
<1>2. PICK y \in Nat : x = 2 * y \/ x = 2 * y + 1
  BY OddOrEven
<1>3. ASSUME x = 2 * y + 1
      PROVE  FALSE
  <2>1. a * x = (2 * e + 1) * (2 * y + 1)
    BY <1>1, <1>3
  <2>2. (2 * e + 1) * (2 * y + 1) = 2 * (2 * (e * y) + e + y) + 1
    OBVIOUS
  <2>3. e * y \in Nat
    OBVIOUS
  <2>4. 2 * k = 2 * (2 * (e * y) + e + y) + 1
    BY <2>1, <2>2
  <2> QED BY <2>3, <2>4
<1> QED BY <1>2, <1>3 DEF Even

\* ... and so is twice a power of 2.
LEMMA DoublePower ==
  ASSUME NEW n \in Nat \ {0}, PowerOf2(n)
  PROVE  PowerOf2(2 * n)
<1>1. ASSUME NEW d \in 1..2 * n, NEW q \in 1..2 * n, d * q = 2 * n, d % 2 = 1
      PROVE  d = 1
  <2> d \in Nat /\ q \in Nat
    OBVIOUS
  <2>0. Odd(d) /\ Even(d * q)
    BY <1>1 DEF Odd, Even
  <2>1. PICK r \in Nat : q = 2 * r
    <3>1. Even(q)
      BY <2>0, EvenFactor
    <3> QED BY <3>1 DEF Even
  <2>2. d * q = 2 * (d * r)
    BY <2>1
  <2>3. d * r \in Nat
    OBVIOUS
  <2>4. d * r = n
    BY <1>1, <2>2, <2>3
  <2>5. r # 0
    BY <2>1
  <2>6. r <= d * r /\ d <= d * r
    BY <2>5
  <2>7. d \in 1..n /\ r \in 1..n
    BY <2>4, <2>5, <2>6
  <2> QED BY <1>1, <2>4, <2>7 DEF PowerOf2
<1> QED BY <1>1 DEF PowerOf2

\* A number n fails if it divides a product but not the other factor of an odd one.
Fails(n) ==
  \E b, z, l \in Nat : b % 2 = 1 /\ b * z = n * l /\ \A m \in Nat : z # n * m

LEMMA FailsIntro ==
  ASSUME NEW n \in Nat, NEW b \in Nat, NEW z \in Nat, NEW l \in Nat,
         b % 2 = 1, b * z = n * l, \A m \in Nat : z # n * m
  PROVE  Fails(n)
BY Zenon DEF Fails

LEMMA HalfFails ==
  ASSUME NEW n \in Nat \ {0}, PowerOf2(n), Fails(n)
  PROVE  \E t \in Nat \ {0} : PowerOf2(t) /\ Fails(t) /\ t < n
<1>1. PICK b \in Nat, z \in Nat, l \in Nat :
        b % 2 = 1 /\ b * z = n * l /\ \A m \in Nat : z # n * m
  BY DEF Fails
<1>2. n # 1
  <2>1. z = 1 * z
    OBVIOUS
  <2> QED BY <1>1, <2>1
<1>3. PICK t \in Nat \ {0} : n = 2 * t /\ PowerOf2(t)
  BY <1>2, HalfPower
<1>4. t * l \in Nat /\ n * l = 2 * (t * l)
  BY <1>3
<1>5. PICK y \in Nat : z = 2 * y
  <2>1. b * z = 2 * (t * l)
    BY <1>1, <1>4
  <2>2. Odd(b)
    BY <1>1 DEF Odd
  <2>3. Even(b * z)
    BY <1>4, <2>1 DEF Even
  <2>4. Even(z)
    BY <2>2, <2>3, EvenFactor
  <2> QED BY <2>4 DEF Even
<1>6. b * y = t * l
  <2>1. b * z = 2 * (b * y) /\ b * y \in Nat
    BY <1>5
  <2> QED BY <1>1, <1>4, <2>1
<1>7. ASSUME NEW m \in Nat
      PROVE  y # t * m
  <2>1. n * m = 2 * (t * m)
    BY <1>3
  <2> QED BY <1>1, <1>5, <2>1
<1>8. Fails(t)
  <2>1. b % 2 = 1
    BY <1>1
  <2> QED BY <1>6, <1>7, <2>1, FailsIntro, Zenon
<1> QED BY <1>3, <1>8

\* A power of 2 that divides a product divides the other factor of an odd one.
LEMMA OddFactor ==
  ASSUME NEW n \in Nat \ {0}, PowerOf2(n)
  PROVE  ~ Fails(n)
<1> DEFINE Bad == {p \in Nat \ {0} : PowerOf2(p) /\ Fails(p)}
<1>1. \A p \in Bad : \E t \in Bad : t < p
  BY HalfFails
<1>2. Bad \in SUBSET Nat
  OBVIOUS
<1>3. ASSUME Bad # {} PROVE FALSE
  <2> HIDE DEF Bad
  <2>1. PICK p \in Bad : \A y \in Bad : p <= y
    BY <1>2, <1>3, NatMin
  <2>2. PICK t \in Bad : t < p
    BY <1>1
  <2>3. p \in Nat /\ t \in Nat
    BY <1>2
  <2> QED BY <2>1, <2>2, <2>3
<1> QED BY <1>3

LEMMA Triangle ==
  ASSUME NEW j \in Nat
  PROVE  \E a \in Nat : a = (j * (j + 1)) \div 2 /\ 2 * a = j * (j + 1)
<1>1. PICK e \in Nat : j = 2 * e \/ j = 2 * e + 1
  BY OddOrEven
<1>2. CASE j = 2 * e
  <2>1. j * (j + 1) = 2 * (e * (2 * e + 1)) /\ e * (2 * e + 1) \in Nat
    BY <1>2
  <2>2. \A a, b \in Nat : b = 2 * a => b \div 2 = a
    OBVIOUS
  <2>3. (j * (j + 1)) \div 2 = e * (2 * e + 1)
    BY <2>1, <2>2
  <2> QED BY <2>1, <2>3
<1>3. CASE j = 2 * e + 1
  <2>1. j * (j + 1) = 2 * ((2 * e + 1) * (e + 1)) /\ (2 * e + 1) * (e + 1) \in Nat
    BY <1>3
  <2>2. \A a, b \in Nat : b = 2 * a => b \div 2 = a
    OBVIOUS
  <2>3. (j * (j + 1)) \div 2 = (2 * e + 1) * (e + 1)
    BY <2>1, <2>2
  <2> QED BY <2>1, <2>3
<1> QED BY <1>1, <1>2, <1>3

LEMMA SameRemainder ==
  ASSUME NEW n \in Nat \ {0}, NEW x \in Nat, NEW y \in Nat, x <= y, x % n = y % n
  PROVE  \E q \in Nat : y = x + n * q
<1>1. x = n * (x \div n) + (x % n) /\ x \div n \in Nat
  OBVIOUS
<1>2. y = n * (y \div n) + (y % n) /\ y \div n \in Nat
  OBVIOUS
<1>3. PICK p \in Nat, q \in Nat, r \in Int : x = n * p + r /\ y = n * q + r
  <2>1. x % n \in Int
    OBVIOUS
  <2> QED BY <1>1, <1>2, <2>1
<1>4. n * q >= n * p
  BY <1>3
<1>5. CASE q >= p
  <2>1. q - p \in Nat /\ n * (q - p) = n * q - n * p
    BY <1>5
  <2>2. n * p \in Nat /\ n * q \in Nat
    OBVIOUS
  <2>3. y = x + n * (q - p)
    BY <1>3, <2>1, <2>2
  <2> QED BY <2>1, <2>3
<1>6. CASE q < p
  <2>1. n * (p - q) = n * p - n * q /\ p - q >= 1
    BY <1>6
  <2>2. n * (p - q) >= n
    BY <1>6, <2>1
  <2> QED BY <1>4, <2>1, <2>2
<1> QED BY <1>5, <1>6

-----------------------------------------------------------------------------
(* Probes                                                                  *)

\* In a table whose size is a power of 2 no slot is seen twice ...
LEMMA ProbesDiffer ==
  ASSUME NEW n \in Nat \ {0}, PowerOf2(n), NEW h \in Nat,
         NEW i \in 0..n - 1, NEW j \in 0..n - 1, i < j
  PROVE  (h + (i * (i + 1)) \div 2) % n # (h + (j * (j + 1)) \div 2) % n
<1>1. PICK a \in Nat : a = (i * (i + 1)) \div 2 /\ 2 * a = i * (i + 1)
  BY Triangle
<1>2. PICK b \in Nat : b = (j * (j + 1)) \div 2 /\ 2 * b = j * (j + 1)
  BY Triangle
<1> DEFINE x == j - i
           y == i + j + 1
<1>3. x \in Nat /\ y \in Nat /\ 0 < x /\ x < 2 * n /\ 0 < y /\ y < 2 * n
  OBVIOUS
<1>4. 2 * b = 2 * a + x * y
  BY <1>1, <1>2
<1>5. ASSUME (h + a) % n = (h + b) % n
      PROVE  FALSE
  <2>1. a <= b
    <3>1. x * y \in Nat
      BY <1>3
    <3> HIDE DEF x, y
    <3> QED BY <1>4, <3>1
  <2>2. PICK q \in Nat : h + b = h + a + n * q
    <3>1. h + a \in Nat /\ h + b \in Nat /\ h + a <= h + b
      BY <2>1
    <3> QED BY <1>5, <3>1, SameRemainder
  <2>3. x * y = 2 * (n * q)
    BY <1>4, <2>2
  <2>4. x * y = (2 * n) * q /\ y * x = (2 * n) * q
    BY <2>3
  <2>5. PowerOf2(2 * n) /\ 2 * n \in Nat \ {0}
    BY DoublePower
  <2>6. ~ Fails(2 * n)
    BY <2>5, OddFactor
  <2>7. x % 2 = 1 \/ y % 2 = 1
    BY <1>3
  <2>8. ASSUME NEW c \in Nat, NEW z \in Nat, c % 2 = 1, c * z = (2 * n) * q,
               0 < z, z < 2 * n
        PROVE  FALSE
    <3>1. \E m \in Nat : z = (2 * n) * m
      BY <2>5, <2>6, <2>8, FailsIntro, Zenon
    <3>2. PICK m \in Nat : z = (2 * n) * m
      BY <3>1
    <3>3. \A p, r \in Nat : p * r < p => r = 0
      OBVIOUS
    <3>4. m = 0
      BY <2>5, <2>8, <3>2, <3>3
    <3> QED BY <2>8, <3>2, <3>4
  <2> HIDE DEF x, y
  <2> QED BY <1>3, <2>4, <2>7, <2>8
<1> QED BY <1>1, <1>2, <1>5

\* ... so all are.
LEMMA ProbesCover ==
  ASSUME NEW n \in Nat \ {0}, PowerOf2(n), NEW h \in Nat, NEW s \in 0..n - 1
  PROVE  \E j \in 0..n - 1 : (h + (j * (j + 1)) \div 2) % n = s
<1> DEFINE f == [j \in 0..n - 1 |-> (h + (j * (j + 1)) \div 2) % n]
<1> SUFFICES ASSUME \A j \in 0..n - 1 : f[j] # s
             PROVE  FALSE
  OBVIOUS
<1>1. \A j \in 0..n - 1 : f[j] \in 0..n - 1
  <2>1. \A x \in Nat : x % n \in 0..n - 1
    OBVIOUS
  <2>2. \A j \in 0..n - 1 : h + (j * (j + 1)) \div 2 \in Nat
    BY Triangle
  <2> QED BY <2>1, <2>2
<1>2. f \in [0..n - 1 -> (0..n - 1) \ {s}]
  BY <1>1
<1>3. IsFiniteSet(0..n - 1) /\ Cardinality(0..n - 1) = n
  BY FS_Interval
<1>4. IsFiniteSet((0..n - 1) \ {s}) /\ Cardinality((0..n - 1) \ {s}) = n - 1
  <2> DEFINE S == 0..n - 1
  <2>1. IsFiniteSet(S) /\ Cardinality(S) = n /\ s \in S
    BY <1>3
  <2> HIDE DEF S
  <2>2. IsFiniteSet(S \ {s}) /\ Cardinality(S \ {s}) = n - 1
    BY <2>1, FS_RemoveElement
  <2> QED BY <2>2 DEF S
<1>5. PICK i \in 0..n - 1, j \in 0..n - 1 : i # j /\ f[i] = f[j]
  <2> HIDE DEF f
  <2> QED BY <1>2, <1>3, <1>4, FS_PigeonHole
<1>6. i < j \/ j < i
  BY <1>5
<1> QED BY <1>5, <1>6, ProbesDiffer

-----------------------------------------------------------------------------
(* What is in the slots                                                    *)

LEMMA SlotKinds ==
  ASSUME NEW e \in Slots
  PROVE  /\ e.hash \in Nat
         /\ e.key = NoKey => /\ e.data = NoData
                             /\ e = Empty \/ e = Tombstone
                             /\ e = Tombstone <=> e.hash = Tomb
         /\ e.key # NoKey => e # Tombstone
         /\ Empty # Tombstone /\ Empty.key = NoKey /\ Tombstone.key = NoKey
BY HashAssumption DEF Slots, Empty, Tombstone, Entry

LEMMA EntryKind ==
  ASSUME NEW k \in Keys, NEW v \in Values
  PROVE  Entry(k, v) \in Slots /\ Entry(k, v).key # NoKey
BY HashAssumption DEF Slots, Entry

LEMMA SlotInside ==
  ASSUME mask \in Nat \ {0}, NEW h \in Nat, NEW j \in 0..mask
  PROVE  slot(h, j) \in 0..mask
<1>1. PICK a \in Nat : a = (j * (j + 1)) \div 2
  BY Triangle
<1>2. \A x, n \in Nat : (h + x) % (n + 1) \in 0..n
  OBVIOUS
<1> QED BY <1>1, <1>2 DEF slot

LEMMA SlotsCovered ==
  ASSUME mask \in Nat \ {0}, mask + 1 \in Sizes, NEW h \in Nat, NEW s \in 0..mask
  PROVE  \E j \in 0..mask : slot(h, j) = s
<1>1. PICK n \in Nat \ {0} : n = mask + 1
  OBVIOUS
<1>2. PowerOf2(n)
  BY <1>1, SizeAssumption
<1>3. s \in 0..n - 1 /\ 0..n - 1 = 0..mask
  BY <1>1
<1>4. \E j \in 0..n - 1 : (h + (j * (j + 1)) \div 2) % n = s
  BY <1>2, <1>3, ProbesCover
<1> QED BY <1>1, <1>3, <1>4 DEF slot

LEMMA FirstIn ==
  ASSUME NEW js \in SUBSET Nat, js # {}
  PROVE  First(js) \in js
BY NatMin DEF First

LEMMA LookupStops ==
  ASSUME TypeOK, NEW k \in Keys, NEW marks, hits(k, marks) # {}
  PROVE  /\ lookup(k, marks) \in 0..mask
         /\ elems[lookup(k, marks)] \in Slots
         /\ \/ elems[lookup(k, marks)].key = NoKey
            \/ elems[lookup(k, marks)].key = k
<1>1. hits(k, marks) \in SUBSET (0..mask) /\ mask \in Nat \ {0}
  BY DEF hits, TypeOK
<1>2. hits(k, marks) \in SUBSET Nat
  BY <1>1
<1>3. PICK j \in hits(k, marks) : j = First(hits(k, marks))
  BY <1>2, FirstIn
<1>4. keyhash[k] \in Nat /\ j \in 0..mask
  BY <1>1, HashAssumption
<1>5. slot(keyhash[k], j) \in 0..mask
  BY <1>1, <1>4, SlotInside
<1>6. lookup(k, marks) = slot(keyhash[k], j)
  BY <1>3 DEF lookup
<1> QED BY <1>3, <1>5, <1>6 DEF hits, TypeOK

LEMMA FreeSlotFree ==
  ASSUME TypeOK, NEW h \in Nat, unused(h) # {}
  PROVE  free_slot(h) \in 0..mask /\ elems[free_slot(h)].key = NoKey
<1>1. unused(h) \in SUBSET (0..mask) /\ mask \in Nat \ {0}
  BY DEF unused, TypeOK
<1>2. unused(h) \in SUBSET Nat
  BY <1>1
<1>3. PICK j \in unused(h) : j = First(unused(h))
  BY <1>2, FirstIn
<1>4. slot(h, j) \in 0..mask
  BY <1>1, <1>3, SlotInside
<1>5. free_slot(h) = slot(h, j)
  BY <1>3 DEF free_slot
<1> QED BY <1>3, <1>4, <1>5 DEF unused

\* One empty slot is enough for every probe.
LEMMA EmptySlotEnds ==
  ASSUME TypeOK, mask + 1 \in Sizes, NEW s \in 0..mask, elems[s] = Empty
  PROVE  ProbeEnds
<1>1. mask \in Nat \ {0}
  BY DEF TypeOK
<1>2. ASSUME NEW k \in Keys PROVE hits(k, {0}) # {}
  <2>1. PICK j \in 0..mask : slot(keyhash[k], j) = s
    BY <1>1, SlotsCovered, HashAssumption
  <2>2. elems[s].key = NoKey /\ elems[s].hash \in {0}
    BY DEF Empty
  <2>3. j \in hits(k, {0})
    BY <2>1, <2>2 DEF hits
  <2> QED BY <2>3
<1>3. ASSUME NEW t \in ToMove PROVE unused(old[t].hash) # {}
  <2>1. old[t] \in Slots
    BY DEF ToMove, TypeOK
  <2>2. PICK j \in 0..mask : slot(old[t].hash, j) = s
    BY <1>1, <2>1, SlotKinds, SlotsCovered
  <2>3. elems[s].key = NoKey
    BY DEF Empty
  <2>4. j \in unused(old[t].hash)
    BY <2>2, <2>3 DEF unused
  <2> QED BY <2>4
<1> QED BY <1>2, <1>3 DEF ProbeEnds

-----------------------------------------------------------------------------
(* The invariant: what the counters say leaves room                        *)

HTabInv ==
  /\ TypeOK /\ LoadCounted
  /\ mask + 1 \in Sizes
  /\ pc = "idle" => used + dead <= limit /\ oldsize = 0
  /\ pc = "resize" => 2 * used <= mask + 1 /\ Tombs = {}

LEMMA Finite ==
  ASSUME TypeOK
  PROVE  /\ IsFiniteSet(Live) /\ Cardinality(Live) \in Nat
         /\ IsFiniteSet(Tombs) /\ Cardinality(Tombs) \in Nat
         /\ IsFiniteSet(ToMove) /\ Cardinality(ToMove) \in Nat
         /\ IsFiniteSet(0..mask) /\ Cardinality(0..mask) = mask + 1
<1>1. mask \in Nat /\ pos \in Nat /\ oldsize \in Nat
  BY DEF TypeOK
<1>2. IsFiniteSet(0..mask) /\ Cardinality(0..mask) = mask + 1
  BY <1>1, FS_Interval
<1>3. IsFiniteSet(pos..oldsize - 1)
  BY <1>1, FS_Interval
<1>4. Live \in SUBSET (0..mask) /\ Tombs \in SUBSET (0..mask)
  BY DEF Live, Tombs
<1>5. ToMove \in SUBSET (pos..oldsize - 1)
  BY DEF ToMove
<1> QED BY <1>2, <1>3, <1>4, <1>5, FS_Subset, FS_CardinalityType

LEMMA RoomLeft ==
  ASSUME HTabInv
  PROVE  ProbeEnds
<1>1. TypeOK /\ LoadCounted /\ mask + 1 \in Sizes
  BY DEF HTabInv
<1>2. used \in Nat /\ dead \in Nat /\ mask \in Nat \ {0} /\ pc \in {"idle", "resize"}
  BY <1>1 DEF TypeOK
<1>3. Live \cap Tombs = {}
  BY DEF Live, Tombs, Tombstone, Empty
<1>4. /\ IsFiniteSet(Live \cup Tombs)
      /\ Cardinality(Live \cup Tombs) = Cardinality(Live) + Cardinality(Tombs)
  <2>1. /\ IsFiniteSet(Live \cup Tombs)
        /\ Cardinality(Live \cup Tombs)
             = Cardinality(Live) + Cardinality(Tombs) - Cardinality(Live \cap Tombs)
    BY <1>1, Finite, FS_Union
  <2>2. Cardinality(Live \cap Tombs) = 0
    BY <1>3, FS_EmptySet
  <2> QED BY <1>1, <2>1, <2>2, Finite
<1>5. Cardinality(Live) + Cardinality(Tombs) < mask + 1
  <2>1. CASE pc = "idle"
    <3>1. used + dead <= mask - mask \div 4
      BY <2>1 DEF HTabInv, limit
    <3>2. Cardinality(Live) <= used /\ Cardinality(Tombs) = dead
      BY <1>1, <1>2, <2>1, Finite DEF LoadCounted
    <3> QED BY <1>1, <1>2, <3>1, <3>2, Finite
  <2>2. CASE pc = "resize"
    <3>1. 2 * used <= mask + 1 /\ Cardinality(Tombs) = 0
      BY <2>2, FS_EmptySet DEF HTabInv
    <3>2. Cardinality(Live) <= used
      BY <1>1, <1>2, Finite DEF LoadCounted
    <3> QED BY <1>1, <1>2, <3>1, <3>2, Finite
  <2> QED BY <1>2, <2>1, <2>2
<1>6. PICK s \in 0..mask : s \notin Live \cup Tombs
  <2>1. Live \cup Tombs \in SUBSET (0..mask)
    BY DEF Live, Tombs
  <2>2. ASSUME Live \cup Tombs = 0..mask PROVE FALSE
    <3>1. Cardinality(Live \cup Tombs) = mask + 1
      BY <1>1, <2>2, Finite
    <3> QED BY <1>2, <1>4, <1>5, <3>1
  <2> QED BY <2>1, <2>2
<1>7. elems[s] = Empty
  <2>1. elems[s] \in Slots
    BY <1>1 DEF TypeOK
  <2>2. elems[s].key = NoKey /\ elems[s] # Tombstone
    BY <1>6 DEF Live, Tombs
  <2> QED BY <2>1, <2>2, SlotKinds
<1> QED BY <1>1, <1>7, EmptySlotEnds

LEMMA InitInv == Init => HTabInv
<1> SUFFICES ASSUME Init PROVE HTabInv
  OBVIOUS
<1>1. PICK size \in Sizes : elems = NewTable(size) /\ mask = size - 1
  BY DEF Init, newsize
<1>2. size \in Nat \ {0, 1}
  BY SizeAssumption
<1>3. TypeOK
  BY <1>1, <1>2 DEF Init, TypeOK, NewTable, Slots
<1>4. Live = {} /\ Tombs = {} /\ ToMove = {}
  BY <1>1, <1>2, SlotKinds DEF Init, Live, Tombs, ToMove, NewTable, Slots
<1>5. LoadCounted
  BY <1>4, FS_EmptySet DEF Init, LoadCounted
<1>6. used + dead <= limit /\ oldsize = 0
  <2>1. \A m \in Nat : m \div 4 <= m
    OBVIOUS
  <2> QED BY <1>1, <1>2, <2>1 DEF Init, limit
<1>7. pc = "idle" /\ mask + 1 \in Sizes
  BY <1>1, <1>2 DEF Init
<1> QED BY <1>3, <1>5, <1>6, <1>7 DEF HTabInv

\* Taking one entry away, or making one, moves the counts by one.
LEMMA OneMore ==
  ASSUME NEW S, IsFiniteSet(S), Cardinality(S) \in Nat, NEW x, x \notin S
  PROVE  Cardinality(S \cup {x}) = Cardinality(S) + 1
BY FS_AddElement

LEMMA OneLess ==
  ASSUME NEW S, IsFiniteSet(S), Cardinality(S) \in Nat, NEW x \in S
  PROVE  Cardinality(S \ {x}) = Cardinality(S) - 1 /\ Cardinality(S) > 0
<1>1. Cardinality(S \ {x}) = Cardinality(S) - 1
  BY FS_RemoveElement
<1>2. Cardinality(S) # 0
  BY FS_EmptySet
<1> QED BY <1>1, <1>2

LEMMA DeleteInv ==
  ASSUME HTabInv, NEW k \in Keys, htab_delete(k)
  PROVE  HTabInv'
<1> DEFINE s == htab_find_elem(k)
<1>1. TypeOK /\ LoadCounted /\ mask + 1 \in Sizes /\ pc = "idle"
      /\ used + dead <= limit /\ oldsize = 0
  BY DEF HTabInv, htab_delete
<1>2. s \in 0..mask /\ elems[s] \in Slots /\ elems[s].data # NoData
  BY <1>1, LookupStops DEF htab_delete, find_ends, htab_find, htab_find_elem
<1>3. elems[s].key # NoKey
  BY <1>2, SlotKinds
<1>4. /\ elems' = [elems EXCEPT ![s] = Tombstone]
      /\ used' = used - 1 /\ dead' = dead + 1
      /\ UNCHANGED <<mask, old, oldsize, pos, pc>>
  BY DEF htab_delete
<1> HIDE DEF s
<1>5. Live' = Live \ {s}
  BY <1>1, <1>2, <1>4, SlotKinds DEF Live, TypeOK
<1>6. Tombs' = Tombs \cup {s}
  BY <1>1, <1>2, <1>4 DEF Tombs, TypeOK
<1>7. ToMove' = ToMove
  BY <1>4 DEF ToMove
<1>8. s \in Live /\ s \notin Tombs
  BY <1>2, <1>3, SlotKinds DEF Live, Tombs
<1>9. /\ Cardinality(Live') = Cardinality(Live) - 1 /\ Cardinality(Live) > 0
      /\ Cardinality(Tombs') = Cardinality(Tombs) + 1
  BY <1>1, <1>5, <1>6, <1>8, Finite, OneMore, OneLess
<1>10. used \in Nat /\ dead \in Nat /\ mask \in Nat \ {0}
  BY <1>1 DEF TypeOK
<1>11. LoadCounted'
  BY <1>1, <1>4, <1>7, <1>9, <1>10, Finite DEF LoadCounted
<1>12. used' \in Nat /\ dead' \in Nat
  <2>1. Cardinality(Live) \in Nat /\ Cardinality(ToMove) \in Nat
    BY <1>1, Finite
  <2>2. used > 0
    BY <1>1, <1>9, <1>10, <2>1 DEF LoadCounted
  <2> QED BY <1>4, <1>10, <2>2
<1>13. TypeOK'
  <2>1. elems' \in [0..mask -> Slots]
    <3>1. Tombstone \in Slots /\ elems \in [0..mask -> Slots]
      BY <1>1 DEF Slots, TypeOK
    <3> QED BY <1>4, <3>1
  <2> QED BY <1>1, <1>4, <1>12, <2>1 DEF TypeOK
<1>14. used' + dead' <= limit'
  BY <1>1, <1>4, <1>10 DEF limit
<1> QED BY <1>1, <1>4, <1>11, <1>13, <1>14 DEF HTabInv

\* An entry in a slot that had none.
LEMMA InsertAtInv ==
  ASSUME HTabInv, pc = "idle", NEW s \in 0..mask, elems[s].key = NoKey,
         NEW e \in Slots, e.key # NoKey, InsertAt(s, e)
  PROVE  HTabInv'
<1> DEFINE with == [elems EXCEPT ![s] = e]
<1>1. /\ TypeOK /\ LoadCounted /\ mask + 1 \in Sizes
      /\ used + dead <= limit /\ oldsize = 0
  BY DEF HTabInv
<1>2. used \in Nat /\ dead \in Nat /\ mask \in Nat \ {0} /\ elems[s] \in Slots
  BY <1>1 DEF TypeOK
<1>3. with \in [0..mask -> Slots]
  BY <1>1 DEF TypeOK
<1>4. ToMove = {}
  BY <1>1 DEF ToMove, TypeOK
<1>5. used = Cardinality(Live) /\ dead = Cardinality(Tombs)
  BY <1>1, <1>4, Finite, FS_EmptySet DEF LoadCounted
<1>6. {t \in 0..mask : with[t].key # NoKey} = Live \cup {s}
  BY <1>1 DEF Live, TypeOK
<1>7. s \notin Live
  BY DEF Live
<1>8. Cardinality(Live \cup {s}) = used + 1
  BY <1>1, <1>5, <1>7, Finite, OneMore
<1>9. CASE used + 1 + dead > limit
  <2>1. PICK size \in newsize(2 * (used + 1)) :
          /\ elems' = NewTable(size) /\ mask' = size - 1
          /\ old' = with /\ oldsize' = mask + 1 /\ pos' = 0 /\ pc' = "resize"
          /\ used' = used + 1 /\ UNCHANGED dead
    BY <1>9 DEF InsertAt
  <2> HIDE DEF with
  <2>2. size \in Sizes /\ size \in Nat \ {0, 1} /\ size >= 2 * (used + 1)
    BY SizeAssumption DEF newsize
  <2>3. TypeOK'
    <3>1. elems' \in [0..size - 1 -> Slots]
      BY <2>1 DEF NewTable, Slots
    <3> QED BY <1>2, <1>3, <2>1, <2>2, <3>1 DEF TypeOK
  <2>4. Live' = {} /\ Tombs' = {}
    BY <2>1, <2>2, SlotKinds DEF Live, Tombs, NewTable, Slots
  <2>5. ToMove' = Live \cup {s}
    BY <1>2, <1>6, <2>1 DEF ToMove
  <2>6. LoadCounted'
    BY <1>2, <1>8, <2>1, <2>4, <2>5, FS_EmptySet DEF LoadCounted
  <2>7. mask' + 1 \in Sizes /\ 2 * used' <= mask' + 1
    BY <1>2, <2>1, <2>2
  <2> QED BY <2>1, <2>3, <2>4, <2>6, <2>7 DEF HTabInv
<1>10. CASE ~ (used + 1 + dead > limit)
  <2>1. /\ elems' = with /\ used' = used + 1
        /\ dead' = IF reused(elems[s]) THEN dead - 1 ELSE dead
        /\ UNCHANGED <<mask, old, oldsize, pos, pc>>
    BY <1>10 DEF InsertAt
  <2>2. Live' = Live \cup {s}
    BY <1>6, <2>1 DEF Live
  <2>3. Tombs' = Tombs \ {s}
    BY <1>1, <2>1, SlotKinds DEF Tombs, TypeOK
  <2>4. s \in Tombs <=> reused(elems[s])
    BY <1>2, SlotKinds DEF Tombs, reused
  <2>5. dead' = Cardinality(Tombs') /\ dead' \in Nat /\ dead' <= dead
    <3>1. CASE s \in Tombs
      <4>1. Cardinality(Tombs \ {s}) = dead - 1 /\ dead > 0
        BY <1>1, <1>5, <3>1, Finite, OneLess
      <4> QED BY <1>2, <2>1, <2>3, <2>4, <3>1, <4>1
    <3>2. CASE s \notin Tombs
      <4>1. Tombs \ {s} = Tombs
        BY <3>2
      <4> QED BY <1>2, <1>5, <2>1, <2>3, <2>4, <3>2, <4>1
    <3> QED BY <3>1, <3>2
  <2>6. ToMove' = {}
    BY <1>4, <2>1 DEF ToMove
  <2> HIDE DEF with
  <2>7. LoadCounted'
    BY <1>2, <1>8, <2>1, <2>2, <2>5, <2>6, FS_EmptySet DEF LoadCounted
  <2>8. TypeOK'
    BY <1>1, <1>2, <1>3, <2>1, <2>5 DEF TypeOK
  <2>9. used' + dead' <= limit'
    <3>1. limit \in Int /\ limit' = limit
      BY <1>2, <2>1 DEF limit
    <3> QED BY <1>2, <1>10, <2>1, <2>5, <3>1
  <2> QED BY <1>1, <2>1, <2>7, <2>8, <2>9 DEF HTabInv
<1> QED BY <1>9, <1>10

LEMMA InsertInv ==
  ASSUME HTabInv, NEW k \in Keys, NEW v \in Values, htab_insert(k, v)
  PROVE  HTabInv'
<1>1. PICK s : /\ s = lookup(k, {0, Tomb})
               /\ elems[s].key = NoKey /\ InsertAt(s, Entry(k, v))
  BY DEF htab_insert
<1>2. pc = "idle" /\ hits(k, {0, Tomb}) # {} /\ TypeOK
  BY DEF htab_insert, insert_ends, HTabInv
<1>3. s \in 0..mask
  BY <1>1, <1>2, LookupStops
<1> QED BY <1>1, <1>2, <1>3, EntryKind, InsertAtInv

LEMMA MoveInv ==
  ASSUME HTabInv, Move
  PROVE  HTabInv'
<1>1. /\ TypeOK /\ LoadCounted /\ mask + 1 \in Sizes /\ pc = "resize"
      /\ 2 * used <= mask + 1 /\ Tombs = {}
  BY DEF HTabInv, Move
<1>2. /\ pos \in Nat /\ oldsize \in Nat /\ pos \in 0..oldsize - 1
      /\ old[pos] \in Slots /\ used \in Nat
  BY <1>1 DEF TypeOK, Move
<1>3. pos' = pos + 1 /\ UNCHANGED <<mask, used, dead, old, oldsize, pc>>
  BY DEF Move
<1>4. CASE old[pos].key = NoKey
  <2>1. UNCHANGED elems
    BY <1>4 DEF Move
  <2>2. Live' = Live /\ Tombs' = Tombs
    BY <1>3, <2>1 DEF Live, Tombs
  <2>3. ToMove' = ToMove
    BY <1>2, <1>3, <1>4 DEF ToMove
  <2>4. LoadCounted'
    BY <1>1, <1>3, <2>2, <2>3 DEF LoadCounted
  <2>5. TypeOK'
    BY <1>1, <1>2, <1>3, <2>1 DEF TypeOK
  <2> QED BY <1>1, <1>3, <2>2, <2>4, <2>5 DEF HTabInv
<1>5. CASE old[pos].key # NoKey
  <2>1. PICK t : /\ t = free_slot(old[pos].hash)
                 /\ unused(old[pos].hash) # {}
                 /\ elems' = [elems EXCEPT ![t] = old[pos]]
    BY <1>5 DEF Move
  <2>2. t \in 0..mask /\ elems[t].key = NoKey
    BY <1>1, <1>2, <2>1, SlotKinds, FreeSlotFree
  <2>3. Live' = Live \cup {t} /\ t \notin Live
    BY <1>1, <1>3, <1>5, <2>1, <2>2 DEF Live, TypeOK
  <2>4. Tombs' = {}
    BY <1>1, <1>2, <1>3, <1>5, <2>1, <2>2, SlotKinds DEF Tombs, TypeOK
  <2>5. ToMove' = ToMove \ {pos} /\ pos \in ToMove
    BY <1>2, <1>3, <1>5 DEF ToMove
  <2>6. /\ Cardinality(Live') = Cardinality(Live) + 1
        /\ Cardinality(ToMove') = Cardinality(ToMove) - 1
    BY <1>1, <2>3, <2>5, Finite, OneMore, OneLess
  <2>7. LoadCounted'
    BY <1>1, <1>3, <2>6, Finite DEF LoadCounted
  <2>8. elems' \in [0..mask -> Slots]
    BY <1>1, <1>2, <2>1 DEF TypeOK
  <2>9. TypeOK'
    BY <1>1, <1>2, <1>3, <2>8 DEF TypeOK
  <2> QED BY <1>1, <1>3, <2>4, <2>7, <2>9 DEF HTabInv
<1> QED BY <1>4, <1>5

LEMMA MovedInv ==
  ASSUME HTabInv, Moved
  PROVE  HTabInv'
<1>1. /\ TypeOK /\ LoadCounted /\ mask + 1 \in Sizes /\ pc = "resize"
      /\ 2 * used <= mask + 1 /\ Tombs = {}
  BY DEF HTabInv, Moved
<1>2. /\ dead' = 0 /\ old' = NewTable(0) /\ oldsize' = 0 /\ pos' = 0
      /\ pc' = "idle" /\ UNCHANGED <<elems, mask, used>>
  BY DEF Moved, dead_after
<1>3. used \in Nat /\ mask \in Nat \ {0} /\ pos = oldsize /\ oldsize \in Nat
  BY <1>1 DEF TypeOK, Moved
<1>4. TypeOK'
  BY <1>1, <1>2 DEF TypeOK, NewTable
<1>5. ToMove = {} /\ ToMove' = {} /\ Live' = Live /\ Tombs' = {}
  BY <1>1, <1>2, <1>3 DEF ToMove, Live, Tombs
<1>6. LoadCounted'
  BY <1>1, <1>2, <1>5, FS_EmptySet DEF LoadCounted
<1>7. used' + dead' <= limit'
  <2>1. \A u, m \in Nat : 2 * u <= m + 1 /\ m # 0 => u <= m - m \div 4
    OBVIOUS
  <2> QED BY <1>1, <1>2, <1>3, <2>1 DEF limit
<1> QED BY <1>1, <1>2, <1>4, <1>6, <1>7 DEF HTabInv

LEMMA StepInv == HTabInv /\ [Next]_vars => HTabInv'
<1> SUFFICES ASSUME HTabInv, [Next]_vars PROVE HTabInv'
  OBVIOUS
<1>1. CASE \E k \in Keys : htab_delete(k)
  BY <1>1, DeleteInv
<1>2. CASE \E k \in Keys : \E v \in Values : htab_insert(k, v)
  BY <1>2, InsertInv
<1>3. CASE Move
  BY <1>3, MoveInv
<1>4. CASE Moved
  BY <1>4, MovedInv
<1>5. CASE UNCHANGED vars
  BY <1>5 DEF vars, HTabInv, TypeOK, LoadCounted, Live, Tombs, ToMove, limit
<1> QED BY <1>1, <1>2, <1>3, <1>4, <1>5 DEF Next

\* Inserts, deletes and growing keep the types of the table.
THEOREM HTabTyped == Spec => []TypeOK
<1>1. HTabInv => TypeOK
  BY DEF HTabInv
<1> QED BY <1>1, InitInv, StepInv, PTL DEF Spec

\* used and dead are the numbers of entries and of tombstones, in a table of any
\* size and for any hash function.
THEOREM CountersRight == Spec => []LoadCounted
<1>1. HTabInv => LoadCounted
  BY DEF HTabInv
<1> QED BY <1>1, InitInv, StepInv, PTL DEF Spec

\* Every probe of htab_find, htab_insert and resize ends: a slot stays empty, and
\* probes of a table whose size is a power of 2 see all of its slots.
THEOREM ProbesEnd == Spec => []ProbeEnds
BY RoomLeft, InitInv, StepInv, PTL DEF Spec

-----------------------------------------------------------------------------
(* The table is a map                                                      *)

\* A key has one slot, in this table or in what is left of the old one.
KeysOnce ==
  /\ \A s, t \in Live : elems[s].key = elems[t].key => s = t
  /\ \A s, t \in ToMove : old[s].key = old[t].key => s = t
  /\ \A s \in Live, t \in ToMove : elems[s].key # old[t].key

\* The probe for the entry in s meets no empty slot before it.
Chained(s) ==
  \E j \in 0..mask :
    /\ slot(elems[s].hash, j) = s
    /\ \A i \in 0..j - 1 : elems[slot(elems[s].hash, i)] # Empty

MapInv == HTabInv /\ KeysOnce /\ \A s \in Live : Chained(s)

\* What the slots bind a key to, without a probe.
Holds(k, v) ==
  \/ \E s \in Live : elems[s] = Entry(k, v)
  \/ \E s \in ToMove : old[s] = Entry(k, v)
Absent(k) ==
  /\ \A s \in Live : elems[s].key # k
  /\ \A s \in ToMove : old[s].key # k

-----------------------------------------------------------------------------
(* Finding                                                                 *)

LEMMA FirstLeast ==
  ASSUME NEW js \in SUBSET Nat, js # {}
  PROVE  First(js) \in js /\ \A l \in js : First(js) <= l
BY NatMin DEF First

\* A slot with a key holds the entry of a key with its hash.
LEMMA EntryOf ==
  ASSUME NEW e \in Slots, e.key # NoKey
  PROVE  /\ e.key \in Keys /\ e.data \in Values /\ e.hash = keyhash[e.key]
         /\ e = Entry(e.key, e.data)
BY DEF Slots, Entry, Empty, Tombstone

LEMMA EntryFields ==
  ASSUME NEW k \in Keys, NEW v \in Values
  PROVE  /\ Entry(k, v).key = k /\ Entry(k, v).data = v /\ Entry(k, v).hash = keyhash[k]
         /\ Entry(k, v) # Empty /\ k # NoKey /\ v # NoData
BY HashAssumption DEF Entry, Empty

\* A probe for a key that is there ends at its slot, past the tombstones.
LEMMA FoundAt ==
  ASSUME MapInv, pc = "idle", NEW s \in Live
  PROVE  htab_find_elem(elems[s].key) = s
<1> DEFINE k == elems[s].key
           js == hits(k, {0})
           f == First(js)
<1>1. TypeOK /\ ProbeEnds /\ KeysOnce /\ Chained(s)
  BY RoomLeft DEF MapInv, HTabInv
<1>2. elems \in [0..mask -> Slots] /\ mask \in Nat \ {0} /\ s \in 0..mask /\ elems[s].key # NoKey
  BY <1>1 DEF TypeOK, Live
<1>3. k \in Keys /\ elems[s].hash = keyhash[k] /\ keyhash[k] \in Nat
  <2>1. elems[s] \in Slots
    BY <1>2
  <2> QED BY <1>2, <2>1, EntryOf, HashAssumption
<1>4. PICK j \in 0..mask :
        slot(keyhash[k], j) = s /\ \A i \in 0..j - 1 : elems[slot(keyhash[k], i)] # Empty
  BY <1>1, <1>3 DEF Chained
<1>5. js \in SUBSET Nat /\ js # {}
  BY <1>1, <1>2, <1>3 DEF hits, ProbeEnds
<1>6. f \in js /\ \A l \in js : f <= l
  BY <1>5, FirstLeast
<1>7. j \in js
  BY <1>4 DEF hits
<1>8. f \in 0..mask /\ slot(keyhash[k], f) \in 0..mask
  BY <1>2, <1>3, <1>6, SlotInside DEF hits
<1> DEFINE t == slot(keyhash[k], f)
<1>9. elems[t] \in Slots /\ ((elems[t].key = NoKey /\ elems[t].hash = 0) \/ elems[t].key = k)
  BY <1>2, <1>6, <1>8 DEF hits
<1>10. elems[t].key = k
  <2> SUFFICES ASSUME elems[t].key # k PROVE FALSE
    OBVIOUS
  <2>1. elems[t] = Empty
    BY <1>9, SlotKinds, HashAssumption DEF Tombstone, Empty
  <2>2. f # j
    BY <1>4, <2>1, <1>2 DEF Empty
  <2>3. f \in 0..j - 1
    BY <1>4, <1>6, <1>7, <1>8, <1>2, <2>2
  <2> QED BY <1>4, <2>1, <2>3
<1>11. t \in Live
  BY <1>2, <1>8, <1>10 DEF Live
<1>12. t = s
  BY <1>1, <1>10, <1>11 DEF KeysOnce
<1> QED BY <1>12 DEF htab_find_elem, lookup

LEMMA AbsentOrHeld ==
  ASSUME MapInv, NEW k \in Keys
  PROVE  Absent(k) \/ \E v \in Values : Holds(k, v)
<1>1. /\ \A s \in Live : elems[s] \in Slots /\ elems[s].key # NoKey
      /\ \A s \in ToMove : old[s] \in Slots /\ old[s].key # NoKey
  BY DEF MapInv, HTabInv, TypeOK, Live, ToMove
<1>2. ASSUME NEW s \in Live, elems[s].key = k
      PROVE  \E v \in Values : Holds(k, v)
  BY <1>1, <1>2, EntryOf DEF Holds
<1>3. ASSUME NEW s \in ToMove, old[s].key = k
      PROVE  \E v \in Values : Holds(k, v)
  BY <1>1, <1>3, EntryOf DEF Holds
<1> QED BY <1>2, <1>3 DEF Absent

\* What finds return, and what is on the way to the new table, is what the slots
\* hold.
LEMMA BoundIs ==
  MapInv => \A k \in Keys :
    /\ Absent(k) => Bound(k) = NoData
    /\ \A v \in Values : Holds(k, v) => Bound(k) = v
<1> SUFFICES ASSUME MapInv, NEW k \in Keys
             PROVE  /\ Absent(k) => Bound(k) = NoData
                    /\ \A v \in Values : Holds(k, v) => Bound(k) = v
  OBVIOUS
<1>1. TypeOK /\ ProbeEnds /\ KeysOnce /\ (pc = "idle" => ToMove = {})
  BY RoomLeft DEF MapInv, HTabInv, ToMove, TypeOK
<1>2. mask \in Nat /\ pos \in Nat /\ oldsize \in Nat /\ pc \in {"idle", "resize"}
  BY <1>1 DEF TypeOK
<1>3. CASE pc = "idle"
  <2>1. Bound(k) = elems[htab_find_elem(k)].data
    BY <1>3 DEF Bound, htab_find
  <2>2. ASSUME Absent(k) PROVE Bound(k) = NoData
    <3>1. hits(k, {0}) # {}
      BY <1>1 DEF ProbeEnds
    <3>2. /\ htab_find_elem(k) \in 0..mask /\ elems[htab_find_elem(k)] \in Slots
          /\ \/ elems[htab_find_elem(k)].key = NoKey
             \/ elems[htab_find_elem(k)].key = k
      BY <1>1, <3>1, LookupStops DEF htab_find_elem
    <3>3. elems[htab_find_elem(k)].key = NoKey
      BY <2>2, <3>2, HashAssumption DEF Absent, Live
    <3> QED BY <2>1, <3>2, <3>3, SlotKinds
  <2>3. ASSUME NEW v \in Values, Holds(k, v) PROVE Bound(k) = v
    <3>1. PICK s \in Live : elems[s] = Entry(k, v)
      BY <1>1, <1>3, <2>3 DEF Holds
    <3>2. elems[s].key = k /\ elems[s].data = v
      BY <3>1, EntryFields
    <3> QED BY <1>3, <2>1, <3>2, FoundAt
  <2> QED BY <2>2, <2>3
<1>4. CASE pc = "resize"
  <2> DEFINE at == {s \in Live : elems[s].key = k}
             todo == {s \in ToMove : old[s].key = k}
  <2>1. at \in SUBSET Nat /\ todo \in SUBSET Nat
    BY <1>2 DEF Live, ToMove
  <2>2. Bound(k) = IF at # {} THEN elems[First(at)].data
                   ELSE IF todo # {} THEN old[First(todo)].data ELSE NoData
    BY <1>4 DEF Bound
  <2>3. ASSUME Absent(k) PROVE Bound(k) = NoData
    <3>1. at = {} /\ todo = {}
      BY <2>3 DEF Absent
    <3> QED BY <2>2, <3>1
  <2>4. ASSUME NEW v \in Values, Holds(k, v) PROVE Bound(k) = v
    <3>1. CASE \E s \in Live : elems[s] = Entry(k, v)
      <4>1. PICK s \in Live : elems[s] = Entry(k, v)
        BY <3>1
      <4>2. s \in at /\ elems[s].data = v
        BY <4>1, EntryFields
      <4>3. First(at) \in at
        BY <2>1, <4>2, FirstLeast
      <4>4. First(at) = s
        BY <1>1, <4>2, <4>3 DEF KeysOnce
      <4> HIDE DEF at, todo
      <4> QED BY <2>2, <4>2, <4>4
    <3>2. CASE \E s \in ToMove : old[s] = Entry(k, v)
      <4>1. PICK s \in ToMove : old[s] = Entry(k, v)
        BY <3>2
      <4>2. s \in todo /\ old[s].data = v
        BY <4>1, EntryFields
      <4>3. First(todo) \in todo
        BY <2>1, <4>2, FirstLeast
      <4>4. First(todo) = s
        BY <1>1, <4>2, <4>3 DEF KeysOnce
      <4>5. at = {}
        BY <1>1, <4>2 DEF KeysOnce
      <4> HIDE DEF at, todo
      <4> QED BY <2>2, <4>2, <4>4, <4>5
    <3> QED BY <2>4, <3>1, <3>2 DEF Holds
  <2> QED BY <2>3, <2>4
<1> QED BY <1>2, <1>3, <1>4

LEMMA BoundAfter ==
  MapInv' => (\A k \in Keys :
    /\ Absent(k) => Bound(k) = NoData
    /\ \A v \in Values : Holds(k, v) => Bound(k) = v)'
BY BoundIs, PTL

\* A key the slots hold as before is bound as before.
LEMMA SameBound ==
  ASSUME MapInv, MapInv', NEW k \in Keys,
         Absent(k) => Absent(k)', \A v \in Values : Holds(k, v) => Holds(k, v)'
  PROVE  Bound(k)' = Bound(k)
<1>1. CASE Absent(k)
  BY <1>1, BoundIs, BoundAfter
<1>2. CASE \E v \in Values : Holds(k, v)
  BY <1>2, BoundIs, BoundAfter
<1> QED BY <1>1, <1>2, AbsentOrHeld

-----------------------------------------------------------------------------
(* Each step: the invariant, and what the map does                         *)

\* The chain of an entry after a step, told with the slots before it.
LEMMA ChainedAfter ==
  ASSUME mask' = mask, NEW s, NEW h, NEW j \in 0..mask, elems'[s].hash = h,
         slot(h, j) = s, \A i \in 0..j - 1 : elems'[slot(h, i)] # Empty
  PROVE  Chained(s)'
BY DEF Chained, slot

\* A probe that met no empty slot meets none where slots are only filled.
LEMMA StillChained ==
  ASSUME MapInv, mask' = mask, NEW s \in Live, elems'[s] = elems[s],
         \A t \in 0..mask : elems[t] # Empty => elems'[t] # Empty
  PROVE  Chained(s)'
<1>1. PICK h : h = elems[s].hash
  OBVIOUS
<1>2. PICK j \in 0..mask :
        slot(h, j) = s /\ \A i \in 0..j - 1 : elems[slot(h, i)] # Empty
  BY <1>1 DEF MapInv, Chained
<1>3. mask \in Nat \ {0} /\ h \in Nat
  BY <1>1, SlotKinds DEF MapInv, HTabInv, TypeOK, Live
<1>4. ASSUME NEW i \in 0..j - 1
      PROVE  elems'[slot(h, i)] # Empty
  <2>1. i \in 0..mask
    BY <1>3
  <2> QED BY <1>2, <1>3, <2>1, SlotInside
<1> QED BY <1>1, <1>2, <1>4, ChainedAfter

\* The slot of a key that is there.
LEMMA SlotOf ==
  ASSUME MapInv, pc = "idle", NEW k \in Keys, Bound(k) # NoData
  PROVE  /\ htab_find_elem(k) \in Live /\ elems[htab_find_elem(k)].key = k
         /\ Bound(k) \in Values
<1>1. PICK v \in Values : Holds(k, v)
  BY AbsentOrHeld, BoundIs
<1>2. ToMove = {}
  BY DEF MapInv, HTabInv, TypeOK, ToMove
<1>3. PICK s \in Live : elems[s] = Entry(k, v)
  BY <1>1, <1>2 DEF Holds
<1>4. elems[s].key = k
  BY <1>3, EntryFields
<1> QED BY <1>1, <1>3, <1>4, FoundAt, BoundIs

LEMMA DeleteStep ==
  ASSUME MapInv, NEW k \in Keys, htab_delete(k)
  PROVE  MapInv' /\ KM!Delete(k)
<1>0. PICK s : s = htab_find_elem(k)
  OBVIOUS
<1>1. /\ HTabInv' /\ TypeOK /\ pc = "idle" /\ ToMove = {}
      /\ Bound(k) = htab_find(k) /\ Bound(k) # NoData
  BY DeleteInv DEF MapInv, HTabInv, TypeOK, ToMove, htab_delete, Bound
<1>2. s \in Live /\ elems[s].key = k
  BY <1>0, <1>1, SlotOf
<1>3. elems' = [elems EXCEPT ![s] = Tombstone] /\ UNCHANGED <<mask, old, oldsize, pos, pc>>
  BY <1>0 DEF htab_delete
<1>4. elems \in [0..mask -> Slots]
  BY <1>1 DEF TypeOK
<1>5. Live' = Live \ {s} /\ ToMove' = {} /\ \A t \in 0..mask : t # s => elems'[t] = elems[t]
  BY <1>1, <1>2, <1>3, <1>4, SlotKinds DEF Live, ToMove
<1>6. \A t \in 0..mask : elems[t] # Empty => elems'[t] # Empty
  BY <1>3, <1>4, SlotKinds
<1>7. \A t \in Live' : t \in Live /\ elems'[t] = elems[t] /\ t # s
  BY <1>5 DEF Live
<1>8. \A t \in Live' : Chained(t)'
  BY <1>3, <1>6, <1>7, StillChained
<1>9. KeysOnce'
  <2>1. KeysOnce
    BY DEF MapInv
  <2> QED BY <1>5, <1>7, <2>1 DEF KeysOnce
<1>10. MapInv'
  BY <1>1, <1>8, <1>9 DEF MapInv
<1>11. Absent(k)'
  <2>1. KeysOnce
    BY DEF MapInv
  <2> QED BY <1>2, <1>5, <1>7, <2>1 DEF Absent, KeysOnce
<1>12. ASSUME NEW q \in Keys, q # k PROVE Bound(q)' = Bound(q)
  <2>1. Absent(q) => Absent(q)'
    BY <1>5, <1>7 DEF Absent
  <2>2. ASSUME NEW v \in Values, Holds(q, v) PROVE Holds(q, v)'
    <3>1. PICK t \in Live : elems[t] = Entry(q, v)
      BY <1>1, <2>2 DEF Holds
    <3>2. t \in Live'
      BY <1>2, <1>5, <1>12, <3>1, EntryFields
    <3> QED BY <1>7, <3>1, <3>2 DEF Holds, Entry
  <2> QED BY <1>10, <2>1, <2>2, SameBound
<1>13. Bound(k)' = NoData
  BY <1>10, <1>11, BoundAfter
<1>14. [q \in Keys |-> Bound(q)]' = [[q \in Keys |-> Bound(q)] EXCEPT ![k] = NoData]
  BY <1>12, <1>13
<1> QED BY <1>1, <1>10, <1>14 DEF KM!Delete

\* A key that is not there, in the slot where its probe ends.
LEMMA InsertStep ==
  ASSUME ~Blind, MapInv, NEW k \in Keys, NEW v \in Values, htab_insert(k, v)
  PROVE  MapInv' /\ KM!Insert(k, v)
<1> DEFINE js == hits(k, {0, Tomb})
<1> DEFINE e == Entry(k, v)
<1>0. PICK f, s : f = First(js) /\ s = slot(keyhash[k], f)
  OBVIOUS
<1> DEFINE with == [elems EXCEPT ![s] = e]
<1>1. /\ HTabInv' /\ TypeOK /\ pc = "idle" /\ ToMove = {} /\ KeysOnce
      /\ Bound(k) = htab_find(k) /\ Bound(k) = NoData
  <2>1. HTabInv' /\ TypeOK /\ KeysOnce /\ pc = "idle"
    BY InsertInv DEF MapInv, HTabInv, htab_insert
  <2>2. ToMove = {}
    BY <2>1 DEF MapInv, HTabInv, TypeOK, ToMove
  <2>3. Bound(k) = htab_find(k) /\ htab_find(k) = NoData
    BY <2>1 DEF htab_insert, Bound
  <2> QED BY <2>1, <2>2, <2>3
<1>2. js # {} /\ elems[s].key = NoKey /\ InsertAt(s, e)
  BY <1>0 DEF htab_insert, insert_ends, lookup
<1>3. /\ elems \in [0..mask -> Slots] /\ mask \in Nat \ {0} /\ keyhash[k] \in Nat
      /\ oldsize = 0 /\ pos = 0
  BY <1>1, HashAssumption DEF TypeOK, MapInv, HTabInv
<1>4. f \in js /\ \A l \in js : f <= l
  <2>1. js \in SUBSET Nat
    BY <1>3 DEF hits
  <2> QED BY <1>0, <1>2, <2>1, FirstLeast
<1>5. f \in 0..mask /\ s \in 0..mask
  <2>1. f \in 0..mask
    BY <1>4 DEF hits
  <2> QED BY <1>0, <1>3, <2>1, SlotInside
<1>6. Absent(k)
  <2>1. \A x \in Values : ~Holds(k, x)
    BY <1>1, BoundIs, HashAssumption
  <2> QED BY <2>1, AbsentOrHeld
<1>7. \A i \in 0..f - 1 : i \in 0..mask /\ elems[slot(keyhash[k], i)] # Empty
  <2> SUFFICES ASSUME NEW i \in 0..f - 1
               PROVE  i \in 0..mask /\ elems[slot(keyhash[k], i)] # Empty
    OBVIOUS
  <2>1. i \in 0..mask /\ ~(f <= i)
    BY <1>3, <1>5
  <2>2. i \notin js
    BY <1>4, <2>1
  <2> QED BY <2>1, <2>2 DEF hits, Empty
<1> HIDE DEF js
<1>8. e \in Slots /\ e.key = k /\ e.data = v /\ e.hash = keyhash[k] /\ e # Empty /\ k # NoKey
  BY EntryKind, EntryFields
<1> HIDE DEF e
<1>9. /\ with \in [0..mask -> Slots] /\ with[s] = e
      /\ \A t \in 0..mask : t # s => with[t] = elems[t]
  BY <1>3, <1>5, <1>8
<1>10. /\ s \notin Live /\ \A t \in Live : t \in 0..mask /\ t # s /\ elems[t].key # k
       /\ {t \in 0..mask : with[t].key # NoKey} = Live \cup {s}
  BY <1>2, <1>5, <1>6, <1>8, <1>9 DEF Live, Absent
<1>11. \A t \in 0..mask : elems[t] # Empty => with[t] # Empty
  BY <1>8, <1>9
<1>12. /\ MapInv' /\ Holds(k, v)'
       /\ \A q \in Keys : q # k =>
            /\ Absent(q) => Absent(q)'
            /\ \A x \in Values : Holds(q, x) => Holds(q, x)'
  <2>1. CASE used + 1 + dead > limit
    <3>1. PICK size \in newsize(2 * (used + 1)) :
            /\ elems' = NewTable(size) /\ mask' = size - 1
            /\ old' = with /\ oldsize' = mask + 1 /\ pos' = 0 /\ pc' = "resize"
      BY <1>2, <2>1 DEF InsertAt
    <3>2. Live' = {}
      BY <3>1 DEF Live, NewTable, Empty
    <3>3. ToMove' = Live \cup {s}
      BY <1>3, <1>10, <3>1 DEF ToMove
    <3> HIDE DEF with
    <3>4. KeysOnce'
      BY <1>1, <1>8, <1>9, <1>10, <3>1, <3>2, <3>3 DEF KeysOnce
    <3>5. MapInv'
      BY <1>1, <3>2, <3>4 DEF MapInv
    <3>6. Holds(k, v)'
      BY <1>9, <3>1, <3>3 DEF Holds, e, Entry
    <3>7. ASSUME NEW q \in Keys, q # k
          PROVE  /\ Absent(q) => Absent(q)'
                 /\ \A x \in Values : Holds(q, x) => Holds(q, x)'
      <4>1. Absent(q) => Absent(q)'
        BY <1>8, <1>9, <1>10, <3>1, <3>2, <3>3, <3>7 DEF Absent
      <4>2. ASSUME NEW x \in Values, Holds(q, x) PROVE Holds(q, x)'
        <5>1. PICK t \in Live : elems[t] = Entry(q, x)
          BY <1>1, <4>2 DEF Holds
        <5> QED BY <1>9, <1>10, <3>1, <3>3, <5>1 DEF Holds, Entry
      <4> QED BY <4>1, <4>2
    <3> QED BY <3>5, <3>6, <3>7
  <2>2. CASE ~(used + 1 + dead > limit)
    <3>1. elems' = with /\ UNCHANGED <<mask, old, oldsize, pos, pc>>
      BY <1>2, <2>2 DEF InsertAt
    <3>2. Live' = Live \cup {s} /\ ToMove' = {}
      BY <1>1, <1>10, <3>1 DEF Live, ToMove
    <3> HIDE DEF with
    <3>3. KeysOnce'
      BY <1>1, <1>8, <1>9, <1>10, <3>1, <3>2 DEF KeysOnce
    <3>4. \A t \in Live : Chained(t)'
      BY <1>9, <1>10, <1>11, <3>1, StillChained
    <3>5. Chained(s)'
      <4>1. \A i \in 0..f - 1 : elems'[slot(keyhash[k], i)] # Empty
        BY <1>3, <1>7, <1>11, <3>1, SlotInside
      <4> QED BY <1>0, <1>5, <1>8, <1>9, <3>1, <4>1, ChainedAfter
    <3>6. MapInv'
      BY <1>1, <3>2, <3>3, <3>4, <3>5 DEF MapInv
    <3>7. Holds(k, v)'
      BY <1>9, <3>1, <3>2 DEF Holds, e, Entry
    <3>8. ASSUME NEW q \in Keys, q # k
          PROVE  /\ Absent(q) => Absent(q)'
                 /\ \A x \in Values : Holds(q, x) => Holds(q, x)'
      <4>1. Absent(q) => Absent(q)'
        BY <1>8, <1>9, <1>10, <3>1, <3>2, <3>8 DEF Absent
      <4>2. ASSUME NEW x \in Values, Holds(q, x) PROVE Holds(q, x)'
        <5>1. PICK t \in Live : elems[t] = Entry(q, x)
          BY <1>1, <4>2 DEF Holds
        <5> QED BY <1>9, <1>10, <3>1, <3>2, <5>1 DEF Holds, Entry
      <4> QED BY <4>1, <4>2
    <3> QED BY <3>6, <3>7, <3>8
  <2> QED BY <2>1, <2>2
<1>13. Bound(k)' = v
  BY <1>12, BoundAfter
<1>14. \A q \in Keys : q # k => Bound(q)' = Bound(q)
  BY <1>12, SameBound
<1>15. [q \in Keys |-> Bound(q)]' = [[q \in Keys |-> Bound(q)] EXCEPT ![k] = v]
  BY <1>13, <1>14
<1> QED BY <1>1, <1>12, <1>15 DEF KM!Insert

\* An entry of the old table, in the slot where its probe ends.
LEMMA MoveStep ==
  ASSUME MapInv, Move
  PROVE  MapInv' /\ \A q \in Keys : Bound(q)' = Bound(q)
<1>1. /\ HTabInv' /\ TypeOK /\ KeysOnce /\ pc = "resize" /\ Tombs = {}
      /\ pos \in 0..oldsize - 1 /\ pos \in Nat /\ oldsize \in Nat
  BY MoveInv DEF MapInv, HTabInv, TypeOK, Move
<1>2. /\ elems \in [0..mask -> Slots] /\ mask \in Nat \ {0} /\ old \in [0..oldsize - 1 -> Slots]
      /\ pos' = pos + 1 /\ UNCHANGED <<mask, old, oldsize, pc>>
  BY <1>1 DEF TypeOK, Move
<1>3. CASE old[pos].key = NoKey
  <2>1. elems' = elems
    BY <1>3 DEF Move
  <2>2. Live' = Live /\ ToMove' = ToMove
    BY <1>1, <1>2, <1>3, <2>1 DEF Live, ToMove
  <2>3. KeysOnce' /\ \A s \in Live' : Chained(s)'
    BY <1>1, <1>2, <2>1, <2>2, StillChained DEF KeysOnce, Live
  <2>4. MapInv'
    BY <1>1, <2>3 DEF MapInv
  <2>5. \A q \in Keys : /\ Absent(q) => Absent(q)'
                        /\ \A x \in Values : Holds(q, x) => Holds(q, x)'
    BY <1>2, <2>1, <2>2 DEF Absent, Holds, Entry
  <2> QED BY <2>4, <2>5, SameBound
<1>4. CASE old[pos].key # NoKey
  <2>0. PICK e, js, f, s :
          e = old[pos] /\ js = unused(e.hash) /\ f = First(js) /\ s = slot(e.hash, f)
    OBVIOUS
  <2>1. js # {} /\ elems' = [elems EXCEPT ![s] = e]
    BY <1>4, <2>0 DEF Move, free_slot
  <2>2. e \in Slots /\ e.key # NoKey /\ e.hash \in Nat /\ e # Empty
    BY <1>1, <1>2, <1>4, <2>0, SlotKinds DEF Empty
  <2>3. f \in js /\ \A l \in js : f <= l
    <3>1. js \in SUBSET Nat
      BY <1>2, <2>0 DEF unused
    <3> QED BY <2>0, <2>1, <3>1, FirstLeast
  <2>4. f \in 0..mask /\ s \in 0..mask /\ elems[s].key = NoKey
    <3>1. f \in 0..mask /\ elems[s].key = NoKey
      BY <2>0, <2>3 DEF unused
    <3> QED BY <1>2, <2>0, <2>2, <3>1, SlotInside
  <2>5. \A i \in 0..f - 1 : i \in 0..mask /\ elems[slot(e.hash, i)] # Empty
    <3> SUFFICES ASSUME NEW i \in 0..f - 1
                 PROVE  i \in 0..mask /\ elems[slot(e.hash, i)] # Empty
      OBVIOUS
    <3>1. i \in 0..mask /\ ~(f <= i)
      BY <1>2, <2>4
    <3>2. i \notin js
      BY <2>3, <3>1
    <3> QED BY <2>0, <3>1, <3>2 DEF unused, Empty
  <2>6. pos \in ToMove
    BY <1>1, <1>4 DEF ToMove
  <2>7. /\ elems'[s] = e /\ \A t \in 0..mask : t # s => elems'[t] = elems[t]
        /\ \A t \in 0..mask : elems[t] # Empty => elems'[t] # Empty
    BY <1>2, <2>1, <2>2, <2>4
  <2>8. /\ Live' = Live \cup {s} /\ s \notin Live
        /\ \A t \in Live : t \in 0..mask /\ t # s /\ elems'[t] = elems[t]
    BY <1>2, <2>2, <2>4, <2>7 DEF Live
  <2>9. ToMove' = ToMove \ {pos}
    BY <1>1, <1>2 DEF ToMove
  <2>10. KeysOnce'
    BY <1>1, <1>2, <2>0, <2>6, <2>7, <2>8, <2>9 DEF KeysOnce
  <2>11. \A t \in Live : Chained(t)'
    BY <1>2, <2>7, <2>8, StillChained
  <2>12. Chained(s)'
    <3>1. \A i \in 0..f - 1 : elems'[slot(e.hash, i)] # Empty
      BY <1>2, <2>2, <2>5, <2>7, SlotInside
    <3> QED BY <1>2, <2>0, <2>4, <2>7, <3>1, ChainedAfter
  <2>13. MapInv'
    BY <1>1, <2>8, <2>10, <2>11, <2>12 DEF MapInv
  <2>14. \A q \in Keys : Absent(q) => Absent(q)'
    BY <1>2, <2>0, <2>6, <2>7, <2>8, <2>9 DEF Absent
  <2>15. ASSUME NEW q \in Keys, NEW x \in Values, Holds(q, x) PROVE Holds(q, x)'
    <3>1. CASE \E t \in Live : elems[t] = Entry(q, x)
      BY <2>8, <3>1 DEF Holds, Entry
    <3>2. CASE \E t \in ToMove : old[t] = Entry(q, x)
      BY <1>2, <2>0, <2>7, <2>8, <2>9, <3>2 DEF Holds, Entry
    <3> QED BY <2>15, <3>1, <3>2 DEF Holds
  <2> QED BY <2>13, <2>14, <2>15, SameBound
<1> QED BY <1>3, <1>4

LEMMA MovedStep ==
  ASSUME MapInv, Moved
  PROVE  MapInv' /\ \A q \in Keys : Bound(q)' = Bound(q)
<1>1. /\ HTabInv' /\ TypeOK /\ KeysOnce /\ pos = oldsize /\ oldsize \in Nat
  BY MovedInv DEF MapInv, HTabInv, TypeOK, Moved
<1>2. old' = NewTable(0) /\ oldsize' = 0 /\ pos' = 0 /\ UNCHANGED <<elems, mask>>
  BY DEF Moved
<1>3. ToMove = {} /\ ToMove' = {} /\ Live' = Live
  BY <1>1, <1>2 DEF ToMove, Live
<1>4. KeysOnce' /\ \A s \in Live' : Chained(s)'
  BY <1>1, <1>2, <1>3, StillChained DEF KeysOnce, Live
<1>5. MapInv'
  BY <1>1, <1>4 DEF MapInv
<1>6. \A q \in Keys : /\ Absent(q) => Absent(q)'
                      /\ \A x \in Values : Holds(q, x) => Holds(q, x)'
  BY <1>2, <1>3 DEF Absent, Holds, Entry
<1> QED BY <1>5, <1>6, SameBound

-----------------------------------------------------------------------------
(* The refinement                                                          *)

LEMMA StepIsMapStep ==
  ASSUME ~Blind
  PROVE  MapInv /\ [Next]_vars => MapInv' /\ [KM!Next]_([k \in Keys |-> Bound(k)])
<1> SUFFICES ASSUME MapInv, [Next]_vars
             PROVE  MapInv' /\ [KM!Next]_([k \in Keys |-> Bound(k)])
  OBVIOUS
<1>1. CASE \E k \in Keys : htab_delete(k)
  BY <1>1, DeleteStep DEF KM!Next
<1>2. CASE \E k \in Keys : \E v \in Values : htab_insert(k, v)
  BY <1>2, InsertStep DEF KM!Next
<1>3. CASE Move
  BY <1>3, MoveStep
<1>4. CASE Moved
  BY <1>4, MovedStep
<1>5. CASE UNCHANGED vars
  <2>1. HTabInv'
    BY <1>5, StepInv DEF MapInv
  <2>2. /\ Live' = Live /\ ToMove' = ToMove /\ elems' = elems /\ mask' = mask /\ old' = old
    BY <1>5 DEF vars, Live, ToMove
  <2>3. KeysOnce' /\ \A s \in Live' : Chained(s)'
    BY <2>2, StillChained DEF MapInv, KeysOnce
  <2>4. MapInv'
    BY <2>1, <2>3 DEF MapInv
  <2>5. \A q \in Keys : /\ Absent(q) => Absent(q)'
                        /\ \A x \in Values : Holds(q, x) => Holds(q, x)'
    BY <2>2 DEF Absent, Holds, Entry
  <2>6. \A q \in Keys : Bound(q)' = Bound(q)
    BY <2>4, <2>5, SameBound
  <2> QED BY <2>4, <2>6
<1> QED BY <1>1, <1>2, <1>3, <1>4, <1>5 DEF Next

LEMMA MapStarts == Init => MapInv /\ KM!Init
<1> SUFFICES ASSUME Init PROVE MapInv /\ KM!Init
  OBVIOUS
<1>1. HTabInv /\ Live = {} /\ ToMove = {}
  BY InitInv DEF Init, Live, ToMove, NewTable, Empty
<1>2. MapInv
  BY <1>1 DEF MapInv, KeysOnce
<1>3. \A k \in Keys : Bound(k) = NoData
  BY <1>1, <1>2, BoundIs DEF Absent
<1> QED BY <1>2, <1>3 DEF KM!Init

\* Without inserts of a key that is there (htab_insert refuses them unless a
\* tombstone stands in front of it) the table is a map: find returns what was
\* inserted and not deleted, through tombstones, tombstones used again, growing
\* and shrinking.
THEOREM TableImplementsMap ==
  ASSUME ~Blind
  PROVE  Spec => ImplementsMap
<1>1. MapInv /\ [Next]_vars => MapInv' /\ [KM!Next]_([k \in Keys |-> Bound(k)])
  BY StepIsMapStep
<1> QED BY <1>1, MapStarts, PTL DEF Spec, ImplementsMap, KM!Spec
=============================================================================
