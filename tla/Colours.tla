------------------------------ MODULE Colours ------------------------------
(***************************************************************************)
(* The colour conversions of Targa.h and agsprite.c.  A pixel is the       *)
(* sequence of its bytes: an index, <<lo, hi>> of 5, 6 and 5 bits, or the  *)
(* bytes b, g, r and, in 32 bit, a.  Masks and shifts of bytes are written *)
(* with division and remainder.                                            *)
(***************************************************************************)
EXTENDS Integers

Byte == 0..255

\* The bits a colour loses in 16 bit are filled with copies of its upper ones.
red888(hi) == (hi - (hi % 8)) + (hi \div 32)
green888(lo, hi) == (hi % 8) * 32 + (lo \div 32) * 4 + ((hi % 8) \div 2)
blue888(lo) == (lo % 32) * 8 + ((lo % 32) \div 4)
rgb565_to_888(p) == <<blue888(p[1]), green888(p[1], p[2]), red888(p[2])>>

low565(b, g) == ((g \div 4) % 8) * 32 + (b \div 8)
high565(g, r) == (r - (r % 8)) + (g \div 32)
rawx_to_ags16(p) == <<low565(p[1], p[2]), high565(p[2], p[3])>>

is_upscaled_16bit(p) ==
  /\ p[1] % 8 = p[1] \div 32
  /\ p[2] % 4 = p[2] \div 64
  /\ p[3] % 8 = p[3] \div 32

\* The colour 16 and 24 bit pictures draw transparent pixels in.
magenta(p) == p[1] = 255 /\ p[2] = 0 /\ p[3] = 255

Colour(p) == <<p[1], p[2], p[3]>>
raw24_to_32(p) == <<p[1], p[2], p[3], IF magenta(p) THEN 0 ELSE 255>>
raw24_to_32_fulltrans(p) == <<p[1], p[2], p[3], 0>>
=============================================================================
