----------------------------- MODULE ByteArray -----------------------------
(***************************************************************************)
(* ByteArray.c over MemGrow.c: an array that grows while it is written, as *)
(* the assembler builds the code and the data of an object.                *)
(*                                                                         *)
(* The array keeps two lengths: size, for which ByteArray.c answers, and   *)
(* the cells in use, for which MemGrow.c does; here the second is the      *)
(* length of mem.  A cell is what the caller writes, a byte of data or a   *)
(* word of code; capa counts the cells that are allocated.                 *)
(***************************************************************************)
EXTENDS Integers, Sequences

CONSTANT Page  \* cells in PAGE_SIZE bytes: 4096 bytes of data, 1024 words of code

ASSUME PageAssumption == Page \in Nat \ {0}

\* inside: no write passed the cells that are allocated.
ByteArray_open_mem == [mem |-> <<>>, capa |-> 0, size |-> 0, pos |-> 0, inside |-> TRUE]

\* Whole pages.
round_up(n) == IF n % Page = 0 THEN n ELSE ((n + Page) \div Page) * Page

\* The mask without the page added before.
round_down(n) == (n \div Page) * Page

pages(n) == round_up(n)

\* Twice the capacity, or what is needed when that is more.
mem_grow_if_needed(capa, newsize) ==
  IF newsize <= capa THEN capa
  ELSE IF newsize <= 2 * capa THEN 2 * capa ELSE pages(newsize)

longer(m, n) == IF m > n THEN m ELSE n

memcpy(mem, offset, data) ==
  [k \in 1..longer(Len(mem), offset + Len(data)) |->
     IF k \in offset + 1..offset + Len(data) THEN data[k - offset] ELSE mem[k]]

\* ByteArray_writeMem of an array that may grow, with mem_write.
ByteArray_writeMem(ba, data) ==
  LET needed == ba.pos + Len(data)
      capa == mem_grow_if_needed(ba.capa, needed)
  IN [mem |-> memcpy(ba.mem, ba.pos, data), capa |-> capa,
      size |-> longer(ba.size, needed), pos |-> needed,
      inside |-> ba.inside /\ needed <= capa]

\* Writes one behind the other: what there is after each of them.
Writes(ba, parts) ==
  LET after[n \in 0..Len(parts)] ==
        IF n = 0 THEN ba ELSE ByteArray_writeMem(after[n - 1], parts[n])
  IN after

ByteArray_writeAll(ba, parts) == Writes(ba, parts)[Len(parts)]

\* A position behind the end is refused.
ByteArray_set_position(ba, pos) == IF pos > ba.size THEN ba ELSE [ba EXCEPT !.pos = pos]

\* ByteArray_get_mem: null when fewer cells are in use than are wanted.
has_mem(ba, offset, wanted) == ba.capa > 0 /\ offset + wanted <= Len(ba.mem)
ByteArray_get_mem(ba, offset, wanted) == SubSeq(ba.mem, offset + 1, offset + wanted)

\* What the caller takes the array to hold.
Contents(ba) == [k \in 1..ba.size |-> ba.mem[k]]

\* No write passed the block, and the two lengths agree: what lies before size is
\* there, and get_mem hands out all of it.
StreamInside(ba) ==
  /\ ba.inside /\ Len(ba.mem) <= ba.capa
  /\ ba.size = Len(ba.mem) /\ ba.pos <= ba.size
=============================================================================
