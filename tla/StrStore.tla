------------------------------ MODULE StrStore ------------------------------
(***************************************************************************)
(* strstore.h in its linear configuration, the one Clib32.c uses: strings  *)
(* one behind another in a block that is made larger when it is full.  A   *)
(* string is a name followed by filling up to its length and a 0.          *)
(***************************************************************************)
EXTENDS Integers, Sequences

CONSTANTS
  Names,     \* the strings that may be stored
  strlen,    \* their lengths
  MaxLen,    \* the longest of them takes, with its 0
  MinAlloc,  \* STRSTORE_MIN_ALLOC
  Fill       \* what the cells of a string after its first hold

ASSUME StringsAssumption == strlen \in [Names -> Nat \ {0}]

\* No string holds a 0 before its end.
ASSUME CharactersAssumption == Fill # 0 /\ 0 \notin Names

\* "this value needs to be a power of 2 and preferably exceed the size of the
\* longest string": twice that size is what appending needs.
ASSUME AllocAssumption ==
  /\ MaxLen \in Nat /\ MinAlloc \in Nat \ {0} /\ 2 * MaxLen <= MinAlloc
  /\ \A s \in Names : strlen[s] + 1 <= MaxLen

VARIABLE ss  \* [lcount, ssize, scapa, sdata, inside]; inside: no write passed scapa

Stored(s) == [k \in 1..strlen[s] + 1 |->
                IF k = 1 THEN s ELSE IF k <= strlen[s] THEN Fill ELSE 0]

NewStore == [lcount |-> 0, ssize |-> 0, scapa |-> 0, sdata |-> <<>>, inside |-> TRUE]

StoreInit == ss = NewStore

\* A mask that rounds down.
ALIGN_down(x) == (x \div MinAlloc) * MinAlloc

ALIGN(x) == ((x + MinAlloc - 1) \div MinAlloc) * MinAlloc

\* strstore_grow_s without a capacity: room for twice what is there, by the
\* average length so far.
alen(st) == IF st.lcount > 0 THEN (st.ssize \div st.lcount) + 1 ELSE 16
ncap(st) == ALIGN(16 + st.lcount * 2 * alen(st))

\* strstore_append tests the room before every character it writes.  Neither the
\* count nor the size changes on the way, so growing leads to the same capacity
\* each time.
capacity_at(st, p) == IF p + 1 >= st.scapa THEN ncap(st) ELSE st.scapa

strstore_append(st, s) ==
  LET end == st.ssize + strlen[s]
  IN [lcount |-> st.lcount + 1,
      ssize |-> end + 1,
      scapa |-> capacity_at(st, end),
      sdata |-> st.sdata \o Stored(s),
      inside |-> st.inside /\ \A p \in st.ssize..end : p < capacity_at(st, p)]

\* strstore_prealloc on a store that is still empty.
strstore_prealloc(st, ns, sl) == [st EXCEPT !.scapa = ns * sl]

AppendString(s) == ss' = strstore_append(ss, s)
Preallocate(ns, sl) == ss.lcount = 0 /\ ss' = strstore_prealloc(ss, ns, sl)

StoreNext == \/ \E s \in Names : AppendString(s)
             \/ \E ns, sl \in Nat : Preallocate(ns, sl)

StoreSpec == StoreInit /\ [][StoreNext]_ss

\* Strings are read from the first on, with an offset that grows by the length of
\* each and one.
string_at(st, ssoff) == st.sdata[ssoff + 1]
length_at(st, ssoff) ==
  LET zeros == {k \in 0..st.ssize - ssoff - 1 : st.sdata[ssoff + k + 1] = 0}
  IN CHOOSE k \in zeros : \A z \in zeros : k <= z

\* No character is written behind the block, and growing keeps all there was:
\* the capacity an average length suggests is enough for every string.
StoreInside == ss.inside /\ ss.ssize <= ss.scapa
=============================================================================
