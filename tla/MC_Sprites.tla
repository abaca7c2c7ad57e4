----------------------------- MODULE MC_Sprites -----------------------------
(* Sprite files, options and edits for TLC.  Two colours make a palette.   *)
EXTENDS Sprites

MCdefpal == <<<<0, 0, 0>>, <<255, 255, 255>>>>
Palette4 == <<<<1, 2, 3>>, <<252, 248, 244>>>>

\* Pictures of 8 bit: a small one, and lines around the 128 pixels of a chunk.
Bits(s) == [k \in DOMAIN s |-> <<s[k]>>]
Small8 == Picture(2, 2, 1, Bits(<<0, 1, 1, 1>>))
Three8 == Picture(2, 2, 1, Bits(<<0, 1, 2, 2>>))
Pairs8 == Picture(7, 2, 1, Bits(<<0, 1, 1, 0, 0, 1, 1, 0, 1, 1, 0, 0, 1, 1>>))
Run8(n) == Picture(n, 1, 1, [k \in 1..n |-> <<IF k = n THEN 0 ELSE 1>>])
Series8(n) == Picture(n, 1, 1, [k \in 1..n |-> <<k % 2>>])
Wide8 == Picture(5, 4, 1, [k \in 1..20 |-> <<(k \div 3) % 2>>])

\* 16 bit: two and three colours.
Two16 == Picture(3, 1, 2, <<<<31, 248>>, <<224, 7>>, <<31, 248>>>>)
Three16 == Picture(2, 2, 2, <<<<31, 248>>, <<225, 7>>, <<170, 85>>, <<170, 85>>>>)

\* 32 bit: opaque, with part of it transparent, without alpha, and magenta ones.
Px(c, a) == c \o <<a>>
black == <<0, 0, 0>>
green == <<9, 200, 18>>
pink == <<255, 0, 255>>
white == <<255, 255, 255>>
Opaque32 == Picture(2, 1, 4, <<Px(black, 255), Px(green, 255)>>)
Colourful32 ==
  Picture(2, 2, 4, <<Px(black, 255), Px(green, 255), Px(pink, 255), Px(white, 255)>>)
Partly32 == Picture(2, 1, 4, <<Px(black, 128), Px(green, 0)>>)
NoAlpha32 == Picture(2, 2, 4, <<Px(black, 0), Px(green, 0), Px(white, 0), Px(black, 0)>>)
Masked32 == Picture(2, 1, 4, <<Px(pink, 0), Px(green, 255)>>)

-----------------------------------------------------------------------------
(* Slots                                                                   *)

Slot(d, kind, data, size) ==
  [EmptySlot EXCEPT !.bpp = d.bpp, !.w = d.w, !.h = d.h, !.px = d.px, !.kind = kind,
                    !.data = data, !.size = size]
Plain(d) == Slot(d, "plain", d.px, Len(d.px) * d.bpp)
Packed(d) == LET c == ags_pack(d) IN Slot(d, "rle", c, ChunkBytes(c, d.bpp))

\* Streams of another writer: over the end of a line, with flag -128, too long.
Over8 == Slot(Picture(2, 2, 1, Bits(<<0, 0, 0, 1>>)), "rle",
              <<Chunk(254, <<<<0>>>>), Chunk(128, <<<<1>>>>)>>, 4)
Long8 == Slot(Picture(2, 1, 1, <<>>), "rle", <<Chunk(253, <<<<0>>>>)>>, 2)

\* Version 12: each codec, with and without a palette.
Pal16 == <<<<31, 248>>, <<224, 7>>>>
Pal32 == <<<<255, 0, 255, 0>>, <<9, 200, 18, 255>>>>
Pal24 == <<<<1, 2, 3>>, <<9, 200, 18>>>>
Indexed(d, fmt, pal, bpp, compr, kind, data, size) ==
  LET colour(n) == pal[(IF n < Len(pal) THEN n ELSE 0) + 1]
      px == [k \in DOMAIN d.px |-> LET c == colour(d.px[k][1])
                                   IN [b \in 1..bpp |-> IF b <= Len(c) THEN c[b] ELSE 0]]
  IN [Slot(d, kind, data, size) EXCEPT !.bpp = bpp, !.fmt = fmt, !.pal = pal, !.compr = compr,
                                       !.px = px]
With(s, compr) == [s EXCEPT !.compr = compr]
Tokens == <<<<1>>, <<1>>, <<0>>, <<0>>, <<0>>, <<1>>, <<1>>, <<1>>, <<0>>, <<1>>, <<0>>, <<0>>,
            <<3, 5>>, <<9, 3>>>>
Window8 == Slot(Picture(5, 4, 1, Bits(lzwdecomp(Tokens, 20))), "lzw", Tokens, TokenBytes(Tokens))
WindowPal == Indexed(Picture(5, 4, 1, Bits(lzwdecomp(Tokens, 20))), 34, Pal16, 2, 2, "lzw", Tokens,
                     TokenBytes(Tokens))
Tokens16 == <<<<31>>, <<248>>, <<224>>, <<7>>, <<2, 6>>, <<4, 8>>, <<1>>, <<2>>, <<3>>, <<4>>,
              <<5>>, <<6>>>>
Window16 == Slot(Picture(4, 3, 2, grouped(lzwdecomp(Tokens16, 24), 2)), "lzw", Tokens16,
                 TokenBytes(Tokens16))
Deflated32 == Slot(Picture(2, 2, 4, Colourful32.px), "deflated", <<>>, 17)

-----------------------------------------------------------------------------
File(v, storage, slots) ==
  [version |-> v, storage |-> storage, id |-> IF v >= 6 THEN 7 ELSE 0,
   palette |-> IF v = 4 THEN Palette4 ELSE NoPalette, top |-> Len(slots) - 1, slots |-> slots]

SomeFiles == {
  File(4, 0, <<Plain(Small8), EmptySlot, Plain(Three16)>>),
  File(5, 0, <<Packed(Two16), Packed(Small8), Packed(Masked32)>>),
  File(5, 0, <<Over8, Long8, Packed(NoAlpha32)>>),
  File(6, 0, <<Plain(Opaque32), Plain(Partly32), EmptySlot>>),
  File(6, 1, <<Packed(Colourful32), EmptySlot, Packed(Partly32)>>),
  File(6, 1, <<Packed(Run8(128)), Packed(Run8(129)), Packed(Run8(130))>>),
  File(6, 1, <<Packed(Series8(127)), Packed(Series8(128)), Packed(Series8(130))>>),
  File(6, 0, <<Plain(Pairs8), Plain(Small8)>>),
  File(6, 0, <<Plain(Wide8), [Plain(Small8) EXCEPT !.data = <<<<0>>>>, !.px = <<>>]>>),
  File(6, 0, <<EmptySlot, Plain(Small8)>>),
  File(6, 0, <<EmptySlot>>),
  File(6, 2, <<Plain(Small8)>>),
  File(7, 0, <<Plain(Small8)>>),
  File(10, 0, <<Plain(Masked32), Plain(Two16)>>),
  File(11, 1, [k \in 1..4 |-> Packed(Small8)]),
  File(12, 0, <<Plain(Small8), With(Packed(Three16), 1), With(Window8, 2)>>),
  File(12, 2, <<WindowPal, With(Window16, 2),
                Indexed(Small8, 33, Pal32, 4, 0, "plain", Small8.px, 4)>>),
  File(12, 3, <<With(Deflated32, 3), Indexed(Three8, 32, Pal24, 4, 1, "rle", ags_pack(Three8), 5),
                With(Plain(Small8), 3)>>)}

\* All lines of up to 6 pixels of two colours, and all pairs of some sprites.
Lines8 == UNION {{Picture(n, 1, 1, Bits(b)) : b \in [1..n -> 0..1]} : n \in 1..6}
Pictures == {Small8, Two16, Three16, Opaque32, Colourful32, Partly32, NoAlpha32, Masked32}
PlainSlots == {Plain(d) : d \in Pictures} \cup {EmptySlot}
PackedSlots == {Packed(d) : d \in Pictures} \cup {EmptySlot}
MCFiles ==
  SomeFiles
  \cup {File(6, 1, <<Packed(d)>>) : d \in Lines8}
  \cup {File(6, 0, <<a, b>>) : a, b \in PlainSlots}
  \cup {File(5, 0, <<a, b>>) : a, b \in PackedSlots}

MCOptions ==
  [command : {"extract"}, uncompressed : BOOLEAN, hicolor : {"no", "all", "unused"}]
  \cup [command : {"index"}, uncompressed : {FALSE}, hicolor : {"no"}]

\* Files of other programs: 24 bit from the bottom, and a palette too small.
MCEdits == {
  [w |-> 2, h |-> 3, depth |-> 3, top |-> FALSE, rle |-> FALSE, pal |-> <<>>,
   data |-> <<black, black, green, green, pink, white>>],
  [w |-> 2, h |-> 1, depth |-> 1, top |-> TRUE, rle |-> FALSE, pal |-> <<black>>,
   data |-> <<<<0>>, <<1>>>>]}
=============================================================================
