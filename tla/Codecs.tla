------------------------------- MODULE Codecs -------------------------------
(***************************************************************************)
(* The run-length and the window codec of sprites and of targa files.      *)
(*                                                                         *)
(* A run-length stream is a sequence of chunks: a flag byte and the pixels *)
(* behind it, one that is repeated or all of a series.  A window stream is *)
(* a sequence of tokens, a byte or a place to copy from; before each eight *)
(* of them stands a byte with their kinds.                                 *)
(***************************************************************************)
EXTENDS Integers, SequencesExt, FiniteSetsExt

Chunk(flag, px) == [flag |-> flag, px |-> px]
Repeat(p, n) == [k \in 1..n |-> p]

\* Bytes of a run-length stream.
ChunkBytes(chunks, bpp) ==
  LET bytes[n \in 0..Len(chunks)] ==
        IF n = 0 THEN 0 ELSE bytes[n - 1] + (1 + bpp * Len(chunks[n].px))
  IN bytes[Len(chunks)]

-----------------------------------------------------------------------------
(* SpriteFile.c: one line of a sprite.  The flag is a signed count.        *)

\* Where the run or the series that starts at i ends: at most 128 pixels, and
\* a series takes the first of two equal pixels with it.
packl_end(px, i) ==
  LET last == Min({i + 127, Len(px)})
      run == px[i] = px[i + 1]
  IN Min({j \in i + 1..last : j = last \/ (px[j] = px[j + 1]) # run})

packl(px) ==
  LET N == Len(px)
      Chunks[i \in 1..N + 1] ==
        LET j == IF i = N THEN N ELSE packl_end(px, i)
            run == i < N /\ px[i] = px[i + 1]
        IN IF i > N THEN <<>>
           ELSE <<IF run THEN Chunk((i - j) % 256, <<px[i]>>) ELSE Chunk(j - i, SubSeq(px, i, j))>>
                  \o Chunks[j + 1]
  IN Chunks[1]

\* The pixels a chunk stands for; -128 counts as 0.
unpacked(c) ==
  LET signed == IF c.flag > 128 THEN c.flag - 256 ELSE IF c.flag = 128 THEN 0 ELSE c.flag
  IN IF signed < 0 THEN Repeat(c.px[1], 1 - signed) ELSE SubSeq(c.px, 1, signed + 1)

\* Chunks are read until there are size pixels; one that has too many fails.
unpackl(chunks, size) ==
  LET px[n \in 0..Len(chunks)] ==
        IF n = 0 THEN <<>>
        ELSE LET out == px[n - 1]
             IN IF Len(out) >= size THEN out ELSE out \o unpacked(chunks[n])
      all == px[Len(chunks)]
  IN [ok |-> Len(all) <= size, px |-> all]

-----------------------------------------------------------------------------
(* Targa.h: the pixels of a whole picture.                                 *)

\* A series ends in front of two equal pixels, a repetition in front of another
\* pixel; both end with the picture and after 128 pixels.
series_end(px, q) ==
  LET last == Min({128, Len(px) + 1 - q})
  IN Min({c \in 1..last : \/ c = last
                          \/ q + c < Len(px) /\ px[q + c] = px[q + c + 1]})
rep_end(px, q) ==
  LET last == Min({128, Len(px) + 1 - q})
  IN Min({c \in 1..last : c = last \/ px[q + c] # px[q]})

\* What follows a repetition that another pixel ended is a series, whatever comes.
rle_encode(px) ==
  LET N == Len(px)
      Chunks[at \in (1..N + 1) \X BOOLEAN] ==
        LET q == at[1]
            rep == ~at[2] /\ q < N /\ px[q] = px[q + 1]
            c == IF rep THEN rep_end(px, q) ELSE series_end(px, q)
        IN IF q > N THEN <<>>
           ELSE <<IF rep THEN Chunk(127 + c, <<px[q]>>)
                         ELSE Chunk(c - 1, SubSeq(px, q, q + c - 1))>>
                  \o Chunks[<<q + c, rep /\ c < 128>>]
  IN Chunks[<<1, FALSE>>]

\* What rle_encode allocates for its result.
rle_room_bare(px, bpp) == Len(px) * bpp + (Len(px) \div 3)
rle_room(px, bpp) == Len(px) * bpp + 1 + (Len(px) \div 3)

\* What does not fit into size pixels is cut off.
decoded(c) ==
  LET count == (c.flag % 128) + 1
  IN IF c.flag >= 128 THEN Repeat(c.px[1], count) ELSE SubSeq(c.px, 1, count)
rle_decode(chunks, size) ==
  LET px[n \in 0..Len(chunks)] == IF n = 0 THEN <<>> ELSE px[n - 1] \o decoded(chunks[n])
      all == px[Len(chunks)]
  IN SubSeq(all, 1, Min({size, Len(all)}))

-----------------------------------------------------------------------------
(* lzw.c: copies from the last 4096 bytes, which may overlap what they     *)
(* write.  A token is <<byte>> or <<how far back, how many>>.              *)

TokenBytes(tokens) ==
  (Len(tokens) + 7) \div 8 + FoldLeft(LAMBDA n, t : n + Len(t), 0, tokens)

\* The bytes after a token: nothing is taken once there are size of them, and one
\* too many fails; here <<>> stands for a failure.
lzwdecomp(tokens, size) ==
  LET step(out, t) ==
        IF Len(out) >= size THEN out
        ELSE IF Len(t) = 1 THEN Append(out, t[1])
        ELSE out \o [k \in 1..t[2] |-> out[Len(out) + 1 - t[1] + ((k - 1) % t[1])]]
      bytes == FoldLeft(step, <<>>, tokens)
  IN IF Len(bytes) = size THEN bytes ELSE <<>>
=============================================================================
