------------------------------ MODULE Sprites ------------------------------
(***************************************************************************)
(* agsprite over SpriteFile.c: the table of contents of a sprite file is   *)
(* read, its sprites are extracted to targa files, one of which may be     *)
(* edited, a sprite file is packed from them and read again; or an index   *)
(* is made of the first file.                                              *)
(*                                                                         *)
(* A sprite file is a sequence of slots.  What it takes in bytes is what   *)
(* is in it; the sizes it states are fields of their own.  A file of the   *)
(* game's own editor is an input; miniz's inflate is taken to give back    *)
(* what was deflated.                                                      *)
(***************************************************************************)
EXTENDS Tga

CONSTANTS
  Files,            \* the sprite files to begin with
  Options,          \* [command, uncompressed, hicolor]
  UsesAlpha,        \* the sprites the game marks as using their alpha channel
  defpal,           \* the palette for files that have none
  Edits,            \* targa files a user may put in the place of one
  MAX_OLD_SPRITES   \* 0xfffe in the code

VARIABLES
  file,     \* the sprite file that is read
  opts,     \* what agsprite was called with
  pc, round,
  sf,       \* [version, compressed, id, palette, num_sprites]
  offsets,
  pos, i,   \* the place in the file, the slot
  got,      \* the pictures extracted, in each round
  dir,      \* [version, id, palette, lines]: agsprite.info and the files it names
  edited,   \* <<n, file>>: what a user put in the place of sprite n; or <<>>
  out       \* the sprite file being written, or the index

vars == <<file, opts, pc, round, sf, offsets, pos, i, got, dir, edited, out>>

NoPalette == <<>>
EmptySlot == [bpp |-> 0, w |-> 0, h |-> 0, fmt |-> 0, compr |-> 0, pal |-> <<>>,
              kind |-> "plain", data |-> <<>>, size |-> 0, px |-> <<>>]

-----------------------------------------------------------------------------
(* Layout.  The palette of a version 12 slot has 3, 4 or 2 bytes a colour. *)

v12_pal_bpp(fmt) == CASE fmt = 0 -> 0 [] fmt = 32 -> 3 [] fmt = 33 -> 4 [] fmt = 34 -> 2
v12_palbytes(s) == v12_pal_bpp(s.fmt) * Len(s.pal)

HeadBytes(v) == 15 + (IF v = 4 THEN 3 * MaxColours ELSE IF v >= 6 THEN 5 ELSE 0)
                   + (IF v >= 11 THEN 4 ELSE 2) + (IF v >= 12 THEN 4 ELSE 0)

\* Versions 4 and 5 have one way to store sprites; 6 and later say which.
is_compressed(f) == f.version = 5 \/ (f.version >= 6 /\ f.storage = 1)

\* An 8 bit picture when there is a palette.
stored_bpp(s) == IF s.fmt # 0 THEN 1 ELSE s.bpp

DataBytes(s) ==
  CASE s.kind = "rle" -> ChunkBytes(s.data, stored_bpp(s))
    [] s.kind = "lzw" -> TokenBytes(s.data)
    [] s.kind = "deflated" -> s.size
    [] s.kind = "plain" -> stored_bpp(s) * Len(s.data)

SlotBytes(f, s) ==
  IF s.bpp = 0 THEN 2
  ELSE DataBytes(s) + (IF f.version >= 12 THEN 12 + v12_palbytes(s)
                       ELSE IF is_compressed(f) THEN 10 ELSE 6)
Place(f, k) ==
  LET place[n \in 0..Len(f.slots)] ==
        IF n = 0 THEN HeadBytes(f.version) ELSE place[n - 1] + SlotBytes(f, f.slots[n])
  IN place[k]

\* The slot at a place; anywhere else there is something else.
SlotAt(p) ==
  LET at == {k \in DOMAIN file.slots : Place(file, k - 1) = p}
  IN IF at = {} THEN EmptySlot ELSE file.slots[Min(at)]

-----------------------------------------------------------------------------
(* Reading                                                                 *)

Init ==
  /\ file \in Files /\ opts \in Options
  /\ pc = "header" /\ round = 1
  /\ sf = [version |-> 0, compressed |-> FALSE, id |-> 0, palette |-> NoPalette,
           num_sprites |-> 0]
  /\ offsets = <<>> /\ pos = 0 /\ i = 0
  /\ got = <<<<>>, <<>>>>
  /\ dir = [version |-> 0, id |-> 0, palette |-> NoPalette, lines |-> <<>>]
  /\ edited = <<>> /\ out = <<>>

readable(f) ==
  /\ f.version \in {4, 5, 6, 10, 11, 12}
  /\ f.version >= 6 => f.storage <= IF f.version >= 12 THEN 3 ELSE 1

SpriteFile_read ==
  /\ pc = "header"
  /\ IF readable(file)
     THEN /\ sf' = [version |-> file.version, compressed |-> is_compressed(file),
                    id |-> IF file.version >= 6 THEN file.id ELSE 0,
                    palette |-> IF file.version = 4 THEN file.palette ELSE NoPalette,
                    num_sprites |-> file.top + 1]
          /\ pos' = HeadBytes(file.version) /\ i' = 0 /\ offsets' = <<>> /\ pc' = "toc"
     ELSE pc' = "failed" /\ UNCHANGED <<sf, pos, i, offsets>>
  /\ UNCHANGED <<file, opts, round, got, dir, edited, out>>

\* The size of the data as the file states it; hd has the version and the storage.
data_size(hd, s) ==
  IF hd.version < 12 /\ ~hd.compressed THEN s.bpp * s.w * s.h ELSE s.size

skipped_no_palette(hd, s) ==
  IF s.bpp = 0 THEN 2 ELSE 6 + data_size(hd, s) + (IF hd.compressed THEN 4 ELSE 0)
skipped(hd, s) ==
  IF s.bpp = 0 THEN 2
  ELSE 6 + data_size(hd, s) + (IF hd.version >= 12 THEN 6 + v12_palbytes(s)
                               ELSE IF hd.compressed THEN 4 ELSE 0)

ReadSlot ==
  /\ pc = "toc" /\ i < sf.num_sprites
  /\ LET s == SlotAt(pos)
     IN /\ offsets' = Append(offsets, IF s.bpp = 0 THEN 0 ELSE pos)
        /\ pos' = pos + skipped(sf, s)
  /\ i' = i + 1
  /\ UNCHANGED <<file, opts, pc, round, sf, got, dir, edited, out>>

-----------------------------------------------------------------------------
(* Extracting                                                              *)

OpenInfo ==
  /\ pc = "toc" /\ i = sf.num_sprites /\ opts.command = "extract"
  /\ dir' = [version |-> sf.version, id |-> sf.id, palette |-> sf.palette, lines |-> <<>>]
  /\ sf' = [sf EXCEPT !.palette = IF @ = NoPalette THEN defpal ELSE @]
  /\ i' = 0 /\ pc' = "extract"
  /\ UNCHANGED <<file, opts, round, offsets, pos, got, edited, out>>

\* Pixels of bpp bytes.
grouped(bytes, bpp) ==
  [k \in 1..(Len(bytes) \div bpp) |-> SubSeq(bytes, (k - 1) * bpp + 1, k * bpp)]

\* Little data is not packed by the two codecs of version 12.
unpacked_px(hd, s) ==
  LET n == s.w * s.h
      small == n * stored_bpp(s) < 16 \/ data_size(hd, s) < 16
      rle == IF hd.version >= 12 THEN s.compr = 1 ELSE hd.compressed
      coded == hd.version >= 12 /\ s.compr \in {2, 3} /\ ~small
  IN IF rle THEN LET u == unpackl(s.data, n) IN IF u.ok THEN u.px ELSE <<>>
     ELSE IF coded /\ s.compr = 2 THEN grouped(lzwdecomp(s.data, n * stored_bpp(s)), stored_bpp(s))
     ELSE IF coded THEN s.px
     ELSE s.data

\* A palette of 3 bytes a colour leaves the fourth one 0; a colour outside the
\* palette is the first one.
unpack_last_colour(s, px) ==
  [k \in DOMAIN px |->
     LET col == s.pal[Min({px[k][1] + 1, Len(s.pal)})]
     IN [b \in 1..s.bpp |-> IF b <= Len(col) THEN col[b] ELSE 0]]
unpack_v12_palette(s, px) ==
  [k \in DOMAIN px |->
     LET idx == IF px[k][1] >= Len(s.pal) THEN 0 ELSE px[k][1]
         col == s.pal[idx + 1]
     IN [b \in 1..s.bpp |-> IF b <= Len(col) THEN col[b] ELSE 0]]

\* NoPicture: the data ends too early or cannot be unpacked.
SpriteFile_extract(s) ==
  LET px == unpacked_px(sf, s)
  IN IF DataBytes(s) < data_size(sf, s) \/ px = <<>> THEN NoPicture
     ELSE Picture(s.w, s.h, s.bpp,
                  IF sf.version >= 12 /\ s.fmt # 0 THEN unpack_v12_palette(s, px) ELSE px)

ExtractSlot ==
  /\ pc = "extract" /\ i < sf.num_sprites
  /\ LET d == IF offsets[i + 1] = 0 THEN NoPicture
              ELSE SpriteFile_extract(SlotAt(offsets[i + 1]))
         entry == [n |-> i, org_bpp |-> IF d.bpp \in {1, 2} THEN d.bpp ELSE 4,
                   tga |-> Targa_writefile(to_save(d), sf.palette)]
     IN /\ got' = [got EXCEPT ![round] = Append(@, d)]
        /\ dir' = IF d = NoPicture THEN dir ELSE [dir EXCEPT !.lines = Append(@, entry)]
  /\ i' = i + 1
  /\ UNCHANGED <<file, opts, pc, round, sf, offsets, pos, edited, out>>

CloseInfo ==
  /\ pc = "extract" /\ i = sf.num_sprites
  /\ pc' = IF round = 1 THEN "pack" ELSE "done"
  /\ UNCHANGED <<file, opts, round, sf, offsets, pos, i, got, dir, edited, out>>

Edit ==
  /\ pc = "pack" /\ edited = <<>>
  /\ \E k \in DOMAIN dir.lines, t \in Edits :
       /\ dir' = [dir EXCEPT !.lines[k].tga = t]
       /\ edited' = <<dir.lines[k].n, t>>
  /\ UNCHANGED <<file, opts, pc, round, sf, offsets, pos, i, got, out>>

-----------------------------------------------------------------------------
(* The files that come from elsewhere                                      *)

\* A picture whose pixels fill it.
filled(w, h, px) == w \in Nat /\ h \in Nat /\ px \in Seq(Seq(Byte)) /\ Len(px) = w * h

\* Each slot states what it takes, but for the last one, whose data may have been
\* cut off; data that can be unpacked fills the picture.
well_formed(f, k) ==
  LET s == f.slots[k]
      hd == [version |-> f.version, compressed |-> is_compressed(f)]
      px == unpacked_px(hd, s)
  IN \/ s = EmptySlot
     \/ /\ s.bpp \in Nat \ {0} /\ s.fmt \in {0, 32, 33, 34} /\ Len(s.pal) \in Nat
        /\ data_size(hd, s) \in Nat
        /\ k < Len(f.slots) => DataBytes(s) = data_size(hd, s)
        /\ \/ DataBytes(s) < data_size(hd, s) \/ px = <<>>
           \/ filled(s.w, s.h, px)

ASSUME FilesAssumption ==
  \A f \in Files : readable(f) =>
    /\ Len(f.slots) \in Nat /\ DOMAIN f.slots = 1..Len(f.slots) /\ f.top = Len(f.slots) - 1
    /\ \A k \in DOMAIN f.slots : well_formed(f, k)

\* A targa file holds the pixels its header tells of.
ASSUME EditsAssumption ==
  \A t \in Edits : t.depth \in Nat \ {0} /\ filled(t.w, t.h, tga_pixels(t))

-----------------------------------------------------------------------------
(* Packing                                                                 *)

\* Newer versions become 6; versions 4 and 5 have no choice of storage.
SpriteFile_write_header ==
  LET v == Min({dir.version, 6})
  IN [version |-> v, top |-> 0, slots |-> <<>>,
      storage |-> IF v = 6 /\ ~opts.uncompressed THEN 1 ELSE 0,
      id |-> IF v = 6 THEN dir.id ELSE 0,
      palette |-> IF v # 4 THEN NoPalette ELSE IF dir.palette = NoPalette THEN defpal
                  ELSE dir.palette]

\* The file is opened at the line of sprite 0: another first sprite is a bad
\* keyword, and with no sprite at all there is no file to finish.
StartPack ==
  /\ pc = "pack"
  /\ IF dir.lines = <<>> THEN pc' = "crashed" /\ UNCHANGED <<out, i>>
     ELSE IF dir.lines[1].n # 0 THEN pc' = "failed" /\ UNCHANGED <<out, i>>
     ELSE pc' = "add" /\ out' = SpriteFile_write_header /\ i' = 1
  /\ UNCHANGED <<file, opts, round, sf, offsets, pos, got, dir, edited>>

\* Lines of pixels are packed one by one ...
ags_pack(d) ==
  FlattenSeq([y \in 1..d.h |-> packl(SubSeq(d.px, (y - 1) * d.w + 1, y * d.w))])
\* ... into this much room.
pack_room(d) == d.w * d.h * d.bpp + 1 + ((d.w * d.h) \div 3) + d.h * d.bpp

line_picture ==
  LET l == dir.lines[i]
      d == Targa_readfile(l.tga, l.org_bpp = 1)
  IN IF d = NoPicture THEN d ELSE tga_to_ags(d, l.org_bpp, opts.hicolor, l.n \in UsesAlpha)

overruns(d) == is_compressed(out) /\ ChunkBytes(ags_pack(d), d.bpp) > pack_room(d)

slot_of(d) ==
  LET rle == is_compressed(out)
      data == IF rle THEN ags_pack(d) ELSE d.px
      size == IF rle THEN ChunkBytes(data, d.bpp) ELSE d.w * d.h * d.bpp
  IN [EmptySlot EXCEPT !.bpp = d.bpp, !.w = d.w, !.h = d.h, !.px = d.px, !.data = data,
                       !.size = size, !.kind = IF rle THEN "rle" ELSE "plain"]

\* The numbers no line names become empty slots.
SpriteFile_add ==
  /\ pc = "add" /\ i <= Len(dir.lines)
  /\ LET d == line_picture
         gap == Max({0, dir.lines[i].n - Len(out.slots)})
     IN /\ d # NoPicture /\ ~overruns(d)
        /\ out' = [out EXCEPT !.slots = @ \o [k \in 1..gap |-> EmptySlot] \o <<slot_of(d)>>]
  /\ i' = i + 1
  /\ UNCHANGED <<file, opts, pc, round, sf, offsets, pos, got, dir, edited>>

AddFails ==
  /\ pc = "add" /\ i <= Len(dir.lines) /\ line_picture = NoPicture
  /\ pc' = "failed"
  /\ UNCHANGED <<file, opts, round, sf, offsets, pos, i, got, dir, edited, out>>

\* A write behind the allocated buffer: nothing is known afterwards.
AddOverruns ==
  /\ pc = "add" /\ i <= Len(dir.lines) /\ line_picture # NoPicture /\ overruns(line_picture)
  /\ pc' = "overrun"
  /\ UNCHANGED <<file, opts, round, sf, offsets, pos, i, got, dir, edited, out>>

\* Too many sprites are an error nobody looks at: the count stays 0.
SpriteFile_finalize ==
  /\ pc = "add" /\ i > Len(dir.lines)
  /\ file' = [out EXCEPT !.top = IF Len(out.slots) >= MAX_OLD_SPRITES THEN 0
                                 ELSE Len(out.slots) - 1]
  /\ pc' = "header" /\ round' = 2
  /\ UNCHANGED <<opts, sf, offsets, pos, i, got, dir, edited, out>>

-----------------------------------------------------------------------------
(* The index: sizes as they are read behind the first two bytes of a slot. *)

size_read_swapped(s) == <<s.h, s.w>>
size_read(s) ==
  IF sf.version >= 12 THEN <<(IF s.fmt = 0 THEN 0 ELSE Len(s.pal) - 1) + 256 * s.compr, s.w>>
  ELSE <<s.w, s.h>>

SpriteFile_write_sprindex ==
  /\ pc = "toc" /\ i = sf.num_sprites /\ opts.command = "index"
  /\ IF sf.num_sprites >= MAX_OLD_SPRITES THEN pc' = "failed" /\ UNCHANGED out
     ELSE /\ pc' = "indexed"
          /\ out' = [top |-> sf.num_sprites - 1, offsets |-> offsets,
                     id |-> IF sf.version > 5 THEN sf.id ELSE 0,
                     sizes |-> [k \in DOMAIN offsets |->
                                  IF offsets[k] = 0 THEN <<0, 0>>
                                  ELSE size_read(SlotAt(offsets[k]))]]
  /\ UNCHANGED <<file, opts, round, sf, offsets, pos, i, got, dir, edited>>

Next ==
  \/ SpriteFile_read \/ ReadSlot \/ OpenInfo \/ ExtractSlot \/ CloseInfo
  \/ Edit \/ StartPack \/ SpriteFile_add \/ AddFails \/ AddOverruns \/ SpriteFile_finalize
  \/ SpriteFile_write_sprindex

Spec == Init /\ [][Next]_vars

-----------------------------------------------------------------------------
(* Properties                                                              *)

\* The offsets SpriteFile_read collects while it skips over the sprites are the
\* places where the slots of the file are, and 0 for the empty ones: in a file
\* of any version and in one SpriteFile_add wrote.
TocCovers ==
  pc \in {"toc", "extract", "indexed"} =>
    /\ sf.num_sprites <= Len(file.slots)
    /\ \A k \in DOMAIN offsets :
         offsets[k] = IF file.slots[k].bpp = 0 THEN 0 ELSE Place(file, k - 1)

\* SpriteFile_extract gives the picture that was stored, in whatever way: the run-
\* length and the window codec, the palettes of version 12, little data that is
\* not packed; it gives none only where the data is incomplete or does not fit.
ExtractedIsStored ==
  \A k \in DOMAIN got[round] :
    LET s == file.slots[k]
    IN s.px # <<>> => got[round][k] = Picture(s.w, s.h, s.bpp, s.px)

\* rle_encode writes no more than it allocates, for every picture that is saved.
TgaFits ==
  \A k \in DOMAIN dir.lines :
    LET t == dir.lines[k].tga
        px == tga_pixels(t)
    IN ChunkBytes(rle_encode(px), t.depth) <= rle_room(px, t.depth)

\* What a picture shows, and what of it is left in 16 bit.
Looks(d) == [k \in DOMAIN d.px |-> Shown(d.px[k])]
Rough(d) == [k \in DOMAIN d.px |-> rgb565_to_888(rawx_to_ags16(Shown(d.px[k])))]
Alphas(d) == [k \in DOMAIN d.px |-> d.px[k][4]]

\* Sprite n was d and is e: 32 bit may become 16 bit if that was asked for, and
\* with H only if its alpha channel is not used; a picture that is opaque and was
\* saved with a palette has no alpha channel afterwards.
Kept(n, d, e) ==
  /\ e.w = d.w /\ e.h = d.h
  /\ \/ /\ e.bpp = d.bpp /\ Looks(e) = Looks(d)
        /\ d.bpp = 4 => Alphas(e) = Alphas(d) \/ palettable(d)
     \/ /\ d.bpp = 4 /\ e.bpp = 2 /\ Looks(e) = Rough(d)
        /\ \/ opts.hicolor = "all"
           \/ /\ opts.hicolor = "unused" /\ n \notin UsesAlpha
              /\ \A k \in DOMAIN d.px : d.px[k][4] = 255 \/ magenta(d.px[k])

\* Sprite n was edited: every line of the picture shows a line of the edit, which
\* counts them from its top or from its bottom.
Edited(t, as_index, e) ==
  /\ e.w = t.w /\ e.h = t.h
  /\ \A x \in 1..t.w, y \in 0..t.h - 1 :
       LET p == t.data[(IF t.top THEN y ELSE t.h - 1 - y) * t.w + x]
           c == IF t.pal = <<>> \/ as_index THEN p ELSE t.pal[p[1] + 1]
           new == Shown(e.px[y * t.w + x])
       IN new = c \/ (opts.hicolor # "no" /\ new = rgb565_to_888(rawx_to_ags16(c)))

\* Extracted and packed again, a sprite file has the same sprites at the same
\* numbers; one that was edited has the picture of the edit, the right way up.
RepackSame ==
  pc = "done" /\ Len(file.slots) < MAX_OLD_SPRITES =>
    \A n \in 0..Len(got[1]) - 1 :
      LET new == IF n < Len(got[2]) THEN got[2][n + 1] ELSE NoPicture
          old == got[1][n + 1]
      IN IF edited # <<>> /\ n = edited[1] THEN Edited(edited[2], old.bpp = 1, new)
         ELSE IF old = NoPicture THEN new = NoPicture
         ELSE Kept(n, old, new)

\* sprindex.dat tells for each sprite where it is in the file and how large it
\* is, in the versions before 12.
IndexMatches ==
  pc = "indexed" /\ file.version < 12 =>
    /\ Len(out.sizes) = Len(file.slots)
    /\ \A k \in DOMAIN file.slots :
         LET s == file.slots[k]
         IN /\ out.sizes[k] = <<s.w, s.h>>
            /\ out.offsets[k] = IF s.bpp = 0 THEN 0 ELSE Place(file, k - 1)

\* The comment in ags_pack that the room it allocates is the worst case.  The
\* code breaks this: a series takes the first of two equal pixels along, so a
\* line like a b b c c d d takes a flag for every two pixels and not for three.
PackFits == pc # "overrun"

=============================================================================
