-------------------------------- MODULE Tga --------------------------------
(***************************************************************************)
(* Targa.h, and what agsprite.c does to a picture on its way to a targa    *)
(* file and back.  A picture is its pixels, line by line, with its size    *)
(* and the bytes a pixel has; a targa file has a palette or none, its      *)
(* pixels as they are or as a run-length stream, and starts at the top or  *)
(* at the bottom.                                                          *)
(***************************************************************************)
EXTENDS Codecs, Colours

CONSTANTS MaxColours  \* the palette's size: 256 in the code

ASSUME MaxColoursAssumption == MaxColours \in Nat \ {0}

Picture(w, h, bpp, px) == [w |-> w, h |-> h, bpp |-> bpp, px |-> px]
NoPicture == Picture(0, 0, 0, <<>>)
Recoloured(d, bpp, Conv(_)) == Picture(d.w, d.h, bpp, [k \in DOMAIN d.px |-> Conv(d.px[k])])

Shown(p) == CASE Len(p) = 1 -> p [] Len(p) = 2 -> rgb565_to_888(p) [] OTHER -> Colour(p)
Opaque(d) == d.bpp = 4 => \A k \in DOMAIN d.px : d.px[k][4] = 255

\* The different colours of a picture, in the order they are met.
Colours_of(d) ==
  FoldLeft(LAMBDA pal, p : IF Contains(pal, Shown(p)) THEN pal ELSE Append(pal, Shown(p)),
           <<>>, d.px)

\* An opaque picture of few colours can be saved with a palette.
palettable(d) == Opaque(d) /\ Len(Colours_of(d)) \in 1..MaxColours
lookup_palette(col, pal) == Min({k \in DOMAIN pal : pal[k] = col}) - 1
create_palette_pic(d) ==
  LET pal == Colours_of(d) IN Recoloured(d, 1, LAMBDA p : <<lookup_palette(Shown(p), pal)>>)

\* What the header says, and the data behind it.
TargaFile(d, rle, pal, data) ==
  [w |-> d.w, h |-> d.h, depth |-> d.bpp, top |-> TRUE, rle |-> rle, pal |-> pal, data |-> data]

Targa_writefile(d, palette) ==
  LET mapped == d.bpp # 1 /\ palettable(d)
      saved == IF mapped THEN create_palette_pic(d)
               ELSE IF d.bpp = 2 THEN Recoloured(d, 3, rgb565_to_888) ELSE d
      chunks == rle_encode(saved.px)
      rle == ChunkBytes(chunks, saved.bpp) < Len(saved.px) * saved.bpp
      pal == IF mapped THEN Colours_of(d) ELSE IF d.bpp = 1 THEN palette ELSE <<>>
  IN TargaFile(saved, rle, pal, IF rle THEN chunks ELSE saved.px)

\* Lines are swapped from both ends.
convert_bottom_left_tga(d) ==
  Picture(d.w, d.h, d.bpp,
          [k \in DOMAIN d.px |->
             d.px[(d.h - 1 - ((k - 1) \div d.w)) * d.w + ((k - 1) % d.w) + 1]])

tga_pixels(t) == IF t.rle THEN rle_decode(t.data, t.w * t.h) ELSE t.data

\* NoPicture: an index outside the palette.
Targa_readfile(t, skip_palette) ==
  LET raw == tga_pixels(t)
      coloured == t.pal # <<>> /\ ~skip_palette
      px == IF coloured THEN [k \in DOMAIN raw |-> t.pal[raw[k][1] + 1]] ELSE raw
      d == Picture(t.w, t.h, IF coloured THEN 3 ELSE t.depth, px)
  IN IF coloured /\ \E k \in DOMAIN raw : raw[k][1] >= Len(t.pal) THEN NoPicture
     ELSE IF t.top THEN d ELSE convert_bottom_left_tga(d)

-----------------------------------------------------------------------------
(* agsprite.c                                                              *)

is_fully_transparent(d) == \A k \in DOMAIN d.px : d.px[k][4] = 0

\* An alpha channel without use is left out of the targa file.
to_save(d) ==
  IF d.bpp = 4 /\ is_fully_transparent(d) THEN Recoloured(d, 3, Colour) ELSE d

candidate_unmarked(d, uses_alpha) ==
  \A k \in DOMAIN d.px : LET p == d.px[k] IN p[4] = 255 \/ (p[4] = 0 /\ magenta(p))
is_hicolor_candidate(d, uses_alpha) ==
  /\ ~uses_alpha
  /\ \A k \in DOMAIN d.px : LET p == d.px[k] IN p[4] = 255 \/ (p[4] = 0 /\ magenta(p))

\* The options: hicolor "all" (h), "unused" (H) or "no"; org_bpp is from the name.
tga_to_ags(d, org_bpp, hicolor, uses_alpha) ==
  LET reduce == \/ hicolor = "all"
                \/ d.bpp = 4 /\ hicolor = "unused" /\ is_hicolor_candidate(d, uses_alpha)
                \/ d.bpp = 3 /\ org_bpp = 2 /\ \A k \in DOMAIN d.px : is_upscaled_16bit(d.px[k])
  IN IF d.bpp \notin {3, 4} THEN d
     ELSE IF reduce THEN Recoloured(d, 2, rawx_to_ags16)
     ELSE IF d.bpp = 4 THEN d
     ELSE IF org_bpp = 4 THEN Recoloured(d, 4, raw24_to_32_fulltrans)
     ELSE Recoloured(d, 4, raw24_to_32)
=============================================================================
