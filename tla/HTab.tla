-------------------------------- MODULE HTab --------------------------------
(***************************************************************************)
(* hsearch.c: a hash table with open addressing.  A collision goes on to   *)
(* the slots 1, 3, 6, ... further; a deleted entry leaves a tombstone that *)
(* probes pass and inserts use again; a table that gets too full moves its *)
(* entries, without the tombstones, to a new one.                          *)
(*                                                                         *)
(* An operation is one step, moving to a new table one for every old slot. *)
(* The data of a slot without a key is never read and is left out.         *)
(***************************************************************************)
EXTENDS Integers, FiniteSets

CONSTANTS
  Keys, Values,
  keyhash,        \* the hash of each key
  NoKey, NoData,  \* the null pointer
  Tomb,           \* 0xdeadc0de, the hash of a tombstone
  MinSize,        \* MINSIZE
  Sizes,          \* the sizes there is memory for, MinSize doubled and doubled
  FirstSizes,     \* what htab_create is asked for
  Blind           \* whether a key that is in the table may be inserted

\* A key whose hash is that of a tombstone would be compared with a null pointer.
ASSUME HashAssumption ==
  /\ keyhash \in [Keys -> Nat] /\ Tomb \in Nat \ {0}
  /\ \A k \in Keys : keyhash[k] # Tomb
  /\ NoKey \notin Keys /\ NoData \notin Values

\* No divisor of a power of 2 is odd, but 1.
PowerOf2(n) == \A d, q \in 1..n : d * q = n /\ d % 2 = 1 => d = 1

ASSUME SizeAssumption ==
  /\ MinSize \in Nat \ {0, 1} /\ MinSize \in Sizes /\ Sizes \subseteq Nat \ {0, 1}
  /\ \A s \in Sizes : PowerOf2(s)
  /\ FirstSizes \subseteq Nat /\ Blind \in BOOLEAN

VARIABLES
  elems,  \* the slots: 0..mask -> [key, data, hash]
  mask, used, dead,
  old, oldsize,  \* the table that is left, and its size
  pos,    \* its next slot
  pc      \* "idle" or "resize"

vars == <<elems, mask, used, dead, old, oldsize, pos, pc>>

Empty == [key |-> NoKey, data |-> NoData, hash |-> 0]
Tombstone == [Empty EXCEPT !.hash = Tomb]
Entry(k, v) == [key |-> k, data |-> v, hash |-> keyhash[k]]

NewTable(size) == [s \in 0..size - 1 |-> Empty]

\* The size resize takes: doubled from MinSize on until it is large enough.
newsize(nel) == {s \in Sizes : s >= nel /\ (s = MinSize \/ s \div 2 < nel)}

-----------------------------------------------------------------------------
(* Probing                                                                 *)

\* The slot after j collisions: a table whose size is a power of 2 is seen as a
\* whole after mask of them.
slot(hash, j) == (hash + (j * (j + 1)) \div 2) % (mask + 1)

First(js) == CHOOSE j \in js : \A l \in js : j <= l

\* The collisions after which lookup may stop at a slot without a key, or with
\* the key; those with a tombstone count if it is told to.
hits(k, marks) ==
  {j \in 0..mask :
     LET e == elems[slot(keyhash[k], j)]
     IN (e.key = NoKey /\ e.hash \in marks) \/ e.key = k}
lookup(k, marks) == slot(keyhash[k], First(hits(k, marks)))

\* Stopping at tombstones.
find_reuse(k) == lookup(k, {0, Tomb})

htab_find_elem(k) == lookup(k, {0})

htab_find(k) == elems[htab_find_elem(k)].data

\* A probe that meets no such slot goes on for ever, and so does its operation.
find_ends(k) == hits(k, {0}) # {}
insert_ends(k) == hits(k, {0, Tomb}) # {}

\* Where resize puts an entry.
unused(hash) == {j \in 0..mask : elems[slot(hash, j)].key = NoKey}
free_slot(hash) == slot(hash, First(unused(hash)))

-----------------------------------------------------------------------------
(* Operations                                                              *)

Init ==
  /\ \E nel \in FirstSizes : \E size \in newsize(nel) :
       elems = NewTable(size) /\ mask = size - 1
  /\ used = 0 /\ dead = 0
  /\ old = NewTable(0) /\ oldsize = 0 /\ pos = 0 /\ pc = "idle"

htab_delete(k) ==
  /\ pc = "idle" /\ find_ends(k) /\ htab_find(k) # NoData
  /\ elems' = [elems EXCEPT ![htab_find_elem(k)] = Tombstone]
  /\ used' = used - 1 /\ dead' = dead + 1
  /\ UNCHANGED <<mask, old, oldsize, pos, pc>>

limit_all == mask + 1  \* every slot
limit == mask - mask \div 4

reused(e) == e.hash = Tomb

\* A key that is in the table is refused; so is any if a new table is needed and
\* there is no memory: the slot is given back.
InsertAt(s, e) ==
  LET with == [elems EXCEPT ![s] = e]
  IN IF used + 1 + dead > limit
       THEN \E size \in newsize(2 * (used + 1)) :
              /\ elems' = NewTable(size) /\ mask' = size - 1
              /\ old' = with /\ oldsize' = mask + 1 /\ pos' = 0 /\ pc' = "resize"
              /\ used' = used + 1 /\ UNCHANGED dead
       ELSE /\ elems' = with
            /\ used' = used + 1
            /\ dead' = IF reused(elems[s]) THEN dead - 1 ELSE dead
            /\ UNCHANGED <<mask, old, oldsize, pos, pc>>

htab_insert(k, v) ==
  /\ pc = "idle" /\ insert_ends(k)
  /\ Blind \/ (find_ends(k) /\ htab_find(k) = NoData)
  /\ LET s == lookup(k, {0, Tomb})
     IN elems[s].key = NoKey /\ InsertAt(s, Entry(k, v))

\* The loop of resize.
Move ==
  /\ pc = "resize" /\ pos < oldsize
  /\ IF old[pos].key = NoKey THEN UNCHANGED elems
     ELSE /\ unused(old[pos].hash) # {}
          /\ elems' = [elems EXCEPT ![free_slot(old[pos].hash)] = old[pos]]
  /\ pos' = pos + 1
  /\ UNCHANGED <<mask, used, dead, old, oldsize, pc>>

dead_kept == dead  \* as if the tombstones had been moved as well
dead_after == 0

Moved ==
  /\ pc = "resize" /\ pos = oldsize
  /\ dead' = dead_after
  /\ old' = NewTable(0) /\ oldsize' = 0 /\ pos' = 0 /\ pc' = "idle"
  /\ UNCHANGED <<elems, mask, used>>

Next ==
  \/ \E k \in Keys : htab_delete(k) \/ \E v \in Values : htab_insert(k, v)
  \/ Move \/ Moved

Spec == Init /\ [][Next]_vars

-----------------------------------------------------------------------------
(* Properties                                                              *)

Slots == {Empty, Tombstone} \cup {Entry(k, v) : k \in Keys, v \in Values}

TypeOK ==
  /\ mask \in Nat \ {0} /\ used \in Nat /\ dead \in Nat
  /\ elems \in [0..mask -> Slots]
  /\ oldsize \in Nat /\ old \in [0..oldsize - 1 -> Slots] /\ pos \in 0..oldsize
  /\ pc \in {"idle", "resize"}

Live == {s \in 0..mask : elems[s].key # NoKey}
Tombs == {s \in 0..mask : elems[s] = Tombstone}
ToMove == {s \in pos..oldsize - 1 : old[s].key # NoKey}

\* The two counters, kept along by inserts, deletes and moves, are the numbers of
\* entries and of tombstones: the load that decides about growing is real.
LoadCounted ==
  /\ used = Cardinality(Live) + Cardinality(ToMove)
  /\ pc = "idle" => dead = Cardinality(Tombs)

\* Every probe ends: for a key that is found, for one that is not, for an insert
\* and for a move, there is a slot at which it stops.
ProbeEnds ==
  /\ \A k \in Keys : hits(k, {0}) # {}
  /\ \A s \in ToMove : unused(old[s].hash) # {}

\* What finds return is what was inserted and not deleted, through tombstones,
\* tombstones used again, growing and shrinking.
Bound(k) ==
  IF pc = "idle" THEN htab_find(k)
  ELSE LET at == {s \in Live : elems[s].key = k}
           todo == {s \in ToMove : old[s].key = k}
       IN IF at # {} THEN elems[First(at)].data
          ELSE IF todo # {} THEN old[First(todo)].data ELSE NoData

KM == INSTANCE KeyMap WITH map <- [k \in Keys |-> Bound(k)]
ImplementsMap == KM!Spec
=============================================================================
