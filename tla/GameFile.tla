------------------------------ MODULE GameFile ------------------------------
(***************************************************************************)
(* The containers of compiled scripts and how they are read: the search    *)
(* for the signature SCOM (RoomFile.c, ByteArray.c), ASI_read_script as    *)
(* far as it measures a script (Script.c), ADF_open with its readers of    *)
(* the sections of a game file (DataFile.c) and RoomFile_read.             *)
(*                                                                         *)
(* A file is a sequence of cells, a cell a tuple of its kind and the       *)
(* numbers in it: <<"S">>, <<"C">>, <<"O">> and <<"M">> are letters, a     *)
(* script is the four of them, <<"size", n>>, n cells and <<"end">>; every *)
(* other section of a game is one cell, and a sprite's flags are one cell. *)
(* Positions count the cells read, as the positions of a file do.          *)
(***************************************************************************)
EXTENDS Integers, SequencesExt

CONSTANTS
    OLD_SPRITES   \* sprites of the games before 2.56: 6000

-----------------------------------------------------------------------------
SCOM == << <<"S">>, <<"C">>, <<"O">>, <<"M">> >>

(* the cell after position pos, <<"eof">> behind the end *)
CellAt(f, pos) == IF pos \in 0..Len(f) - 1 THEN f[pos + 1] ELSE <<"eof">>
Kind(f, pos)   == CellAt(f, pos)[1]

SignatureAt(f, pos) == \A k \in 1..4 : CellAt(f, pos + k - 1) = SCOM[k]

NotFound == -1

(* Letters matched after one more cell. A letter that breaks a match is not
   tried as the first of the next one. *)
Matched(match, cell) ==
    CASE match = 4                            -> 4
      [] match < 4 /\ cell = SCOM[match + 1] -> match + 1
      [] OTHER                                -> 0

ARF_find_code_start(f, start) ==
    LET match[n \in 0..Len(f) - start] ==
            IF n = 0 THEN 0 ELSE Matched(match[n - 1], f[start + n])
        hits == {n \in 0..Len(f) - start : match[n] = 4}
    IN  IF hits = {} THEN NotFound ELSE start + Min(hits) - 4

(* The cells of the script at pos; 0 where ASI_read_script fails. *)
ASI_read_script(f, pos) ==
    LET size == CellAt(f, pos + 4)
    IN  IF /\ SignatureAt(f, pos)
           /\ size[1] = "size"
           /\ Kind(f, pos + 5 + size[2]) = "end"
        THEN size[2] + 6
        ELSE 0

-----------------------------------------------------------------------------
(* ADF_open. The errors, in the order of their codes. *)
Errors == << "success", "open", "read", "signature", "header", "gamebase",
             "cursors", "interaction", "dictionary", "script", "view",
             "viewjunk", "character", "lipsync", "message", "dialogtopic",
             "dialog", "guis", "props", "views", "inventories" >>
Code(aoe) == CHOOSE n \in 1..Len(Errors) : Errors[n] = aoe

(* One reader: the section it wants, the errors when the section is wrong or
   the file ends before it, and whether ADF_open closes the file then. *)
Section(kind, wrong, short, closes) ==
    << [kind |-> kind, wrong |-> wrong, short |-> short, closes |-> closes] >>

\* Readers that all close the file when they fail.
ERR_closes(kind, aoe) == Section(kind, aoe, aoe, TRUE)
FAIL(kind, aoe) == Section(kind, aoe, aoe, TRUE)
ERR(kind, aoe) == Section(kind, aoe, aoe, FALSE)

(* A section that begins with a count. Behind the end of the file the count
   is what happens to be in the buffer, junk, and no elements are no error. *)
IfCounted(junk, section) ==
    IF junk = 0 THEN << [section[1] EXCEPT !.short = "none"] >> ELSE section

When(cond, sections) == IF cond THEN sections ELSE <<>>
Times(n, section)    == [k \in 1..n |-> section[1]]

(* reading of the name and of the version string; a short read goes to
   err_close with the error still AOE_success *)
Signature == Section("sig", "signature", "read", TRUE)
VersionString(v) == When(v >= 12, Section("verstr", "header", "success", TRUE))
OldHeader == Section("oldhdr", "gamebase", "success", TRUE)

Capabilities(a) ==
    When(a.version >= 48, IfCounted(a.junk, FAIL("capabilities", "header")))

(* between the counts and the number of sprites *)
FontSections(a) ==
    When(a.version > 32, FAIL("guid", "gamebase")) \o FAIL("fonts", "gamebase")

(* Up to 2.72 a character or an item whose count is junk is passed over, or
   read as commands, which can run into an assertion. *)
Interactions(a) ==
    CASE a.version > 32 -> IfCounted(a.junk, FAIL("interaction", "interaction"))
      [] a.version <= 32 /\ a.junk = 1 ->
            Section("interaction", "interaction", "aborted", TRUE)
      [] OTHER -> IfCounted(a.junk, FAIL("interaction", "interaction"))

(* from the inventory to the dictionary *)
WorldSections(a) ==
       When(a.game.inventories > 0, FAIL("iteminfo", "gamebase"))
    \o FAIL("cursors", "cursors")
    \o When(a.game.characters > 0, Interactions(a))
    \o When(a.game.inventories > (IF a.version > 32 THEN 1 ELSE 0), Interactions(a))
    \o When(a.version <= 32, IfCounted(a.junk, FAIL("globalvars", "interaction")))
    \o When(a.game.hasdict, IfCounted(a.junk, FAIL("dictionary", "dictionary")))

ViewSections(a) ==
    Times(a.game.views,
          IF a.version > 32 THEN IfCounted(a.junk, FAIL("view", "view"))
                            ELSE FAIL("view", "view"))

Messages(a) ==
    IF a.version < 26 THEN ERR("message", "message")
                      ELSE IfCounted(a.junk, ERR("message", "message"))

(* The encrypted lines are read until the number that begins the GUIs: behind
   the end of the file, lines of length 0 go on for ever. *)
Dialogs(a) ==
    IF a.version >= 26 /\ a.junk = 0 THEN Section("dialogs", "dialog", "loops", FALSE)
                                     ELSE ERR("dialogs", "dialog")

(* What follows the views is "bonus": a reader that fails leaves the file
   open. *)
BonusSections(a) ==
    LET v == a.version
        g == a.game
    IN    When(v <= 19, IfCounted(a.junk, ERR("viewjunk", "viewjunk")))
       \o When(g.characters > 0, ERR("character", "character"))
       \o When(v > 20, ERR("lipsync", "lipsync"))
       \o When(g.messages > 0, Messages(a))
       \o When(g.dialogs > 0, ERR("topic", "dialogtopic"))
       \o When(v <= 37, Dialogs(a))
       \o ERR("guis", "guis")
       \o When(v >= 25, ERR("plugins", "props")
                          \o IfCounted(a.junk, ERR("schema", "props")))
       \o When(v >= 25 /\ g.characters + g.inventories > 0,
               IfCounted(a.junk, ERR("property", "props")))
       \o When(v >= 25 /\ g.views > 0, ERR("viewnames", "views"))
       \o When(v >= 31 /\ g.inventories > 0, ERR("itemnames", "inventories"))

(* the counts before ADF_read_gamebase has read them: memset *)
NoCounts == [characters |-> 0, inventories |-> 0, views |-> 0, dialogs |-> 0,
             messages |-> 0, hasdict |-> FALSE]

NewADF(junk) ==
    [pos |-> 0, aoe |-> "success", reading |-> TRUE, open |-> TRUE, junk |-> junk,
     version |-> 0, game |-> NoCounts, numsprites |-> 0, spriteflagsstart |-> 0,
     scripts |-> <<>>]

Stop(a, aoe, closes) ==
    [a EXCEPT !.aoe = aoe, !.reading = FALSE, !.open = ~closes]

(* One reader after the other, until one fails. *)
Fails(f, section, pos) ==
    /\ Kind(f, pos) # section.kind
    /\ Kind(f, pos) = "eof" => section.short # "none"
StopAt(f, sections, a, k) ==
    Stop([a EXCEPT !.pos = @ + (k - 1)],
         IF Kind(f, a.pos + (k - 1)) = "eof" THEN sections[k].short ELSE sections[k].wrong,
         sections[k].closes)

Read(f, sections, a) ==
    LET failing == {k \in DOMAIN sections : Fails(f, sections[k], a.pos + (k - 1))}
    IN  IF ~a.reading THEN a
        ELSE IF failing = {} THEN [a EXCEPT !.pos = @ + Len(sections)]
        ELSE StopAt(f, sections, a, Min(failing))

(* AF_read_uint of a count. What stands there may be none: then it is one of
   any value, as behind the end. *)
Count(f, a) ==
    LET cell == CellAt(f, a.pos)
    IN  IF cell[1] \in {"sprites", "count"} THEN cell[2] ELSE a.junk
ReadCount(f, a) == IF Kind(f, a.pos) = "eof" THEN a ELSE [a EXCEPT !.pos = @ + 1]

ADF_read_gamebase(f, a) ==
    LET cell == CellAt(f, a.pos)
        b    == Read(f, FAIL("gamebase", "gamebase"), a)
    IN  IF b.reading
        THEN [b EXCEPT !.game =
                 [characters |-> cell[2], inventories |-> cell[3],
                  views |-> cell[4], dialogs |-> cell[5],
                  messages |-> cell[6], hasdict |-> cell[7] # 0]]
        ELSE b

\* Flags that begin with their number.
ReadSpriteFlags_at_count(f, a) ==
    LET old == a.version < 24
        n   == IF old THEN OLD_SPRITES ELSE Count(f, a)
        b   == [a EXCEPT !.numsprites = n, !.spriteflagsstart = a.pos]
        end == a.pos + n + IF old THEN 0 ELSE 1
    IN  IF ~a.reading THEN a
        ELSE IF end > Len(f) THEN Stop(b, "gamebase", TRUE) ELSE [b EXCEPT !.pos = end]

(* The number of sprites and their flags, skipped unseen: only the end of
   the file can stop that. *)
ReadSpriteFlags(f, a) ==
    LET old   == a.version < 24
        n     == IF old THEN OLD_SPRITES ELSE Count(f, a)
        start == IF old THEN a.pos ELSE ReadCount(f, a).pos
        b     == [a EXCEPT !.numsprites = n, !.spriteflagsstart = start]
    IN  IF ~a.reading THEN a
        ELSE IF start + n > Len(f) THEN Stop(b, "gamebase", TRUE)
        ELSE [b EXCEPT !.pos = start + n]

(* Games up to 2.30 are not read further than their fixed header: the
   scripts are where the first SCOM is. *)
ReadOldGame(f, a) ==
    LET b    == Read(f, OldHeader, a)
        scom == ARF_find_code_start(f, b.pos)
    IN  IF ~b.reading THEN b
        ELSE IF scom = NotFound THEN Stop(b, "gamebase", TRUE) ELSE [b EXCEPT !.pos = scom]

ReadGame(f, a) ==
    LET base  == ADF_read_gamebase(f, Read(f, Capabilities(a), a))
        flags == ReadSpriteFlags(f, Read(f, FontSections(a), base))
    IN  Read(f, WorldSections(flags), flags)

ReadScript(f, a) ==
    LET len == ASI_read_script(f, a.pos)
    IN  IF ~a.reading THEN a
        ELSE IF len = 0 THEN Stop(a, "script", TRUE)
        ELSE [a EXCEPT !.pos = @ + len,
                       !.scripts = Append(@, [start |-> a.pos, len |-> len])]

ReadScripts(f, n, a) ==
    LET after[k \in 0..n] == IF k = 0 THEN a ELSE ReadScript(f, after[k - 1])
    IN  after[n]

(* the global script, the dialog script and the counted ones *)
AllScripts(f, a) ==
    LET fixed == ReadScripts(f, IF a.version > 37 THEN 2 ELSE 1, a)
    IN  IF a.version >= 31 /\ fixed.reading
        THEN ReadScripts(f, Count(f, fixed), ReadCount(f, fixed))
        ELSE fixed

(* AF_read_int of the version, which may be any number, a negative one too. *)
Version(f, a) ==
    LET cell == CellAt(f, a.pos) IN IF Len(cell) > 1 THEN cell[2] ELSE a.junk

ADF_open(f, junk) ==
    LET sig     == Read(f, Signature, NewADF(junk))
        v       == Version(f, sig)
        header  == Read(f, VersionString(v), ReadCount(f, [sig EXCEPT !.version = v]))
        game    == IF v <= 12 THEN ReadOldGame(f, header) ELSE ReadGame(f, header)
        scripts == AllScripts(f, game)
        views   == Read(f, ViewSections(scripts), scripts)
    IN  IF sig.reading THEN Read(f, BonusSections(views), views) ELSE sig

-----------------------------------------------------------------------------
(* RoomFile_read. A block is <<"block", type>>, its length in one cell of  *)
(* four bytes, or in two from version 32 on, and the cells of the block; a *)
(* block of type 0 says its type by a name before the length.              *)
BLOCKTYPE_EXT         == 0
BLOCKTYPE_SCRIPT      == 2
BLOCKTYPE_COMPSCRIPT3 == 7
BLOCKTYPE_MAX         == 9
BLOCKTYPE_EOF         == 255

RoomVersion(f) == CellAt(f, 0)[2]
LengthCells(version) == IF version >= 32 THEN 2 ELSE 1

Block(type, start, len) == [type |-> type, start |-> start, len |-> len]

(* One block more, or what becomes of the reading. A length is signed: a
   negative one goes back, to blocks read before or to anything else. The
   reading traps where it would go behind the end of the file
   (BAF_NONFATAL_READ_OOB is not set) or before its beginning, and at the
   assertion that the block of the script begins with SCOM. A cell that is no
   block is one of an unknown type. *)
NextBlock(f, read) ==
    LET ext   == CellAt(f, read.pos) = <<"block", BLOCKTYPE_EXT>>
        at    == IF ext THEN read.pos + 1 ELSE read.pos   \* the type or the name
        type  == CellAt(f, at)
        len   == CellAt(f, at + 1)
        start == at + 1 + LengthCells(RoomVersion(f))
        Outcome(outcome) == [read EXCEPT !.outcome = outcome]
    IN  IF read.outcome # "reading" THEN read
        ELSE IF type[1] = "eof" THEN Outcome("trapped")
        ELSE IF type = <<"block", BLOCKTYPE_EOF>> THEN Outcome("ok")
        ELSE IF \/ ext /\ RoomVersion(f) < 32
                \/ type[1] \notin {"block", "name"}
                \/ type[2] > BLOCKTYPE_MAX
             THEN Outcome("failed")
        ELSE IF \/ len[1] # "len" \/ start > Len(f) \/ start + len[2] > Len(f)
                \/ type[2] = BLOCKTYPE_COMPSCRIPT3 /\ ~SignatureAt(f, start)
             THEN Outcome("trapped")
        ELSE [pos     |-> start + len[2],
              outcome |-> "reading",
              blocks  |-> Append(read.blocks, Block(type[2], start, len[2]))]

(* The blocks of a room. What is read next depends on the position alone, and
   a reading that goes on is at one of the file's cells: one that still goes on
   after more steps than cells has been at a cell twice and goes on for ever.
   Its outcome stays "reading". *)
RoomFile_read(f) ==
    LET read[n \in 0..Len(f) + 1] ==
            IF n = 0 THEN [pos |-> 1, outcome |-> "reading", blocks |-> <<>>]
                     ELSE NextBlock(f, read[n - 1])
    IN  read[Len(f) + 1]

(* the last block of a type; at position 0 when the room has none *)
BlockOf(room, type) ==
    LET found == {k \in DOMAIN room.blocks : room.blocks[k].type = type}
    IN  IF found = {} THEN Block(type, 0, 0) ELSE room.blocks[Max(found)]

(* The source of the room's script is as long as the block says, less its
   own length; an assertion compares the two. There is no source without a
   block, nor one of negative length: malloc refuses it. *)
SourceFits(f, room) ==
    LET b == BlockOf(room, BLOCKTYPE_SCRIPT)
    IN  b.start = 0 \/ CellAt(f, b.start) = <<"len", b.len - 1>>
RoomFile_extract_source(f, room) ==
    LET b == BlockOf(room, BLOCKTYPE_SCRIPT)
    IN  IF b.len > 0 THEN << SubSeq(f, b.start + 2, b.start + b.len) >> ELSE <<>>
=============================================================================
