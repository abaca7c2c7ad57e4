------------------------------ MODULE GameTools ------------------------------
(***************************************************************************)
(* The tools that read and change games and rooms where they are:          *)
(*   agscriptxtract.c  dumps the scripts of a game and of a room;          *)
(*   agsinject.c       replaces scripts of a game or the script of a room, *)
(*                     one after the other, each by a temporary file and   *)
(*                     a rename;                                           *)
(*   agsalphahack.c    clears the alpha flag of sprites in the file.       *)
(*                                                                         *)
(* A user runs one tool after the other on one file, the target, and       *)
(* compiles objects in between. A tool may be killed between two steps,    *)
(* the disk may be full when the temporary file is written, and a rename   *)
(* may fail.                                                               *)
(***************************************************************************)
EXTENDS GameFile, FiniteSets

CONSTANTS
    CELLS,        \* the cells of files: a kind and, where it has them, numbers
    OBJECTS,      \* the object files at first: [cells, time] by name, the cells
                  \* <<>> where there is none
    CONTENTS,     \* what an object file may be compiled to
    TARGETS,      \* the games and rooms: [room |-> BOOLEAN, cells |-> ...]
    COMMANDS,     \* the command lines
    JUNK,         \* what a read behind the end of a file may yield
    MAX_RUNS,     \* bound on the tools run
    MAX_CLOCK     \* bound on the seconds that pass

(* the alpha bit of a sprite's flags, and the flags without it *)
SPF_ALPHACHANNEL == 16
WithoutAlpha(bits) ==
    IF (bits \div SPF_ALPHACHANNEL) % 2 = 1 THEN bits - SPF_ALPHACHANNEL ELSE bits

VARIABLES
    target,   \* the file the tools work on: [room, cells, time]
    objs,     \* the object files: [cells, time] by name
    clock,    \* seconds, as the timestamps of files count them
    runs,     \* tools run so far
    cmd,      \* the command line that runs or has run last
    pc,       \* "shell" between two tools, else where the tool is
    reg,      \* the locals of the tool
    out,      \* the scripts dumped; of a room its script and its source
    status    \* how the last tool ended

(* A version and the length of a room's block are read with a sign, counts
   without one; the size of a script is a number of cells. What agsalphahack
   makes of a cell is one. *)
ASSUME CellsAssumption ==
    \A c \in CELLS :
       /\ Len(c) \in Nat \ {0} /\ c = [k \in 1..Len(c) |-> c[k]] /\ c[1] # "eof"
       /\ c[1] \in {"size", "len", "sprites", "count"} => Len(c) > 1
       /\ Len(c) > 1 => c[2] \in Int /\ [c EXCEPT ![2] = WithoutAlpha(@)] \in CELLS
       /\ c[1] \in {"size", "sprites", "count"} => c[2] \in Nat

(* The files are made of cells; agsinject itself writes lengths. *)
Objects == CONTENTS \cup UNION {{o[n].cells : n \in DOMAIN o} : o \in OBJECTS}
ASSUME FilesAssumption ==
    /\ \A t \in TARGETS : t.room \in BOOLEAN /\ t.cells \in Seq(CELLS)
    /\ \A o \in Objects : o \in Seq(CELLS) /\ <<"len", Len(o)>> \in CELLS
    /\ <<"high">> \in CELLS
    /\ JUNK \subseteq Nat /\ OLD_SPRITES \in Nat

(* An index is handed on as an unsigned number. *)
ASSUME CommandsAssumption ==
    \A c \in COMMANDS :
       /\ c.tool \in {"inject", "extract", "alpha"}
       /\ c.tool = "inject" =>
             /\ Len(c.args) \in Nat /\ DOMAIN c.args = 1..Len(c.args)
             /\ \A k \in DOMAIN c.args :
                   c.args[k].which \in Nat /\ \A o \in OBJECTS : c.args[k].obj \in DOMAIN o

vars == <<target, objs, clock, runs, cmd, pc, reg, out, status>>

NoCommand == [tool |-> "none"]

(* before and objs are the target and the objects when the tool began: no code
   reads them. *)
NewReg(f, t, o) ==
    [before |-> f, objs |-> o, stamp |-> t, at |-> 1, found |-> 0, index |-> 0, start |-> 0,
     tmp |-> <<>>, tmptime |-> 0, short |-> FALSE, adf |-> NewADF(0), next |-> 0]

Init ==
    /\ \E t \in TARGETS : target = [room |-> t.room, cells |-> t.cells, time |-> 1]
    /\ objs \in OBJECTS
    /\ clock = 1
    /\ runs = 0
    /\ cmd = NoCommand
    /\ pc = "shell"
    /\ reg = NewReg(<<>>, 0, objs)
    /\ out = <<>>
    /\ status = "ok"

-----------------------------------------------------------------------------
(* The shell *)
(* An object is compiled, or removed, in a second of its own; those that are
   compiled in the second of the target are among the first ones. *)
Compile ==
    /\ pc = "shell"
    /\ runs < MAX_RUNS /\ clock < MAX_CLOCK
    /\ clock' = clock + 1
    /\ \E o \in DOMAIN objs, c \in CONTENTS :
          objs' = [objs EXCEPT ![o] = [cells |-> c, time |-> clock']]
    /\ UNCHANGED <<target, runs, cmd, pc, reg, out, status>>

Run ==
    /\ pc = "shell"
    /\ runs < MAX_RUNS
    /\ \E c \in COMMANDS :
          /\ cmd' = c
          /\ pc' = IF c.tool = "extract" /\ target.room THEN "dumprooms" ELSE c.tool
    /\ runs' = runs + 1
    /\ reg' = NewReg(target.cells, target.time, objs)
    /\ out' = <<>>
    /\ UNCHANGED <<target, objs, clock, status>>

Exit(how) == pc' = "shell" /\ status' = how

(* A tool is killed between two steps; a temporary file may stay. *)
Kill ==
    /\ pc # "shell"
    /\ Exit("killed")
    /\ UNCHANGED <<target, objs, clock, runs, cmd, reg, out>>

Same == UNCHANGED <<objs, clock, runs, cmd>>

-----------------------------------------------------------------------------
(* agsinject. The next index:object of the command line. *)
Arg == cmd.args[reg.at]
Object == objs[Arg.obj]

ts_is_newer(t1, t2) == t2 > t1

\* A loop that leaves it to its end to go on to the next argument.
After_skipped(at) == at
After(at) == at + 1

NextArg ==
    /\ pc = "inject"
    /\ CASE reg.at > Len(cmd.args) ->
              Exit("ok") /\ UNCHANGED reg
         [] reg.at <= Len(cmd.args) /\ cmd.stamps /\ Object.cells = <<>> ->
              Exit("failed") /\ UNCHANGED reg
         [] /\ reg.at <= Len(cmd.args) /\ cmd.stamps /\ Object.cells # <<>>
            /\ ~ts_is_newer(reg.stamp, Object.time) ->
              reg' = [reg EXCEPT !.at = After(@)] /\ UNCHANGED <<pc, status>>
         [] OTHER ->
              IF target.room /\ Arg.which # 0
              THEN Exit("failed") /\ UNCHANGED reg
              ELSE /\ pc' = "search"
                   /\ reg' = [reg EXCEPT !.found = 0, !.index = 0]
                   /\ UNCHANGED status
    /\ Same /\ UNCHANGED <<target, out>>

\* A search that goes on where the signature was found.
Resume_at(start) == start

(* The script of a game is searched for by its signature, and the search
   that finds no more reads behind the end: the breakpoint of
   ByteArray_readMultiByte comes before the error is printed. *)
Resume(start) == start + 4

SearchGame ==
    /\ pc = "search" /\ ~target.room
    /\ LET start == ARF_find_code_start(target.cells, reg.index)
       IN  IF start = NotFound
           THEN Exit("trapped") /\ UNCHANGED reg
           ELSE IF reg.found = Arg.which
           THEN /\ pc' = "copy"
                /\ reg' = [reg EXCEPT !.start = start]
                /\ UNCHANGED status
           ELSE /\ reg' = [reg EXCEPT !.found = @ + 1, !.index = Resume(start)]
                /\ UNCHANGED <<pc, status>>
    /\ Same /\ UNCHANGED <<target, out>>

(* A room that is no room ends the tool, or never does. *)
Unreadable(outcome) ==
    IF outcome = "reading" THEN pc' = "loop" /\ UNCHANGED status ELSE Exit(outcome)

SearchRoom ==
    /\ pc = "search" /\ target.room
    /\ LET room == RoomFile_read(target.cells)
       IN  IF room.outcome # "ok"
           THEN Unreadable(room.outcome) /\ UNCHANGED reg
           ELSE /\ pc' = "copy"
                /\ reg' = [reg EXCEPT !.start = BlockOf(room, BLOCKTYPE_COMPSCRIPT3).start]
                /\ UNCHANGED status
    /\ Same /\ UNCHANGED <<target, out>>

\* A length that always has four bytes.
RoomLength_short(object) == << <<"len", Len(object)>> >>

(* What comes before the script and its length, the length of the object in
   a room, and the object. *)
RoomLength(object) ==
    LET n == LengthCells(RoomVersion(target.cells))
    IN  << <<"len", Len(object)>> >> \o [k \in 1..n - 1 |-> <<"high">>]

Header(object) ==
    IF target.room
    THEN SubSeq(target.cells, 1, reg.start - LengthCells(RoomVersion(target.cells)))
             \o RoomLength(object)
    ELSE SubSeq(target.cells, 1, reg.start)

(* A room without a script makes the length of the header wrap around, and
   an object that is missing or empty is no memory stream: both trap. *)
CopyHeader ==
    /\ pc = "copy"
    /\ \/ Exit("failed") /\ UNCHANGED reg      \* no temporary file
       \/ IF Object.cells = <<>> \/ (target.room /\ reg.start = 0)
          THEN Exit("trapped") /\ UNCHANGED reg
          ELSE /\ pc' = "rest"
               /\ reg' = [reg EXCEPT !.tmp = Header(Object.cells) \o Object.cells]
               /\ UNCHANGED status
    /\ Same /\ UNCHANGED <<target, out>>

(* The script that is replaced is measured, and what follows it copied. No
   write is checked. Garbage read as a script is refused or read beyond the
   end. *)
Rest(f, start, len) == SubSeq(f, start + len + 1, Len(f))

CopyRest ==
    /\ pc = "rest"
    /\ LET len  == ASI_read_script(target.cells, reg.start)
           full == reg.tmp \o Rest(target.cells, reg.start, len)
       IN  IF len = 0
           THEN (\E how \in {"failed", "trapped"} : Exit(how)) /\ UNCHANGED reg
           ELSE /\ pc' = "rename"
                /\ \E short \in BOOLEAN :
                      reg' = [reg EXCEPT !.tmp = IF short THEN Front(full) ELSE full,
                                         !.tmptime = clock,
                                         !.short = @ \/ short]
                /\ UNCHANGED status
    /\ Same /\ UNCHANGED <<target, out>>

Rename ==
    /\ pc = "rename"
    /\ \/ Exit("failed") /\ UNCHANGED <<target, reg>>
       \/ /\ target' = [target EXCEPT !.cells = reg.tmp, !.time = reg.tmptime]
          /\ reg' = [reg EXCEPT !.at = After(@)]
          /\ pc' = "inject"
          /\ UNCHANGED status
    /\ Same /\ UNCHANGED out

-----------------------------------------------------------------------------
(* agscriptxtract: the game *)
Fatal(aoe, last) == aoe # "success" /\ Code(aoe) <= Code(last)

(* Opening a game for a tool that cannot do without what is read up to last:
   the tool goes on, gives up, dies at an assertion or reads for ever. *)
Open(last, place) ==
    \E junk \in JUNK :
       LET adf == ADF_open(target.cells, junk)
       IN  /\ reg' = [reg EXCEPT !.adf = adf]
           /\ CASE adf.aoe = "loops"   -> pc' = "loop" /\ UNCHANGED status
                [] adf.aoe = "aborted" -> Exit("trapped")
                [] OTHER -> IF Fatal(adf.aoe, last) THEN Exit("failed")
                            ELSE pc' = place /\ UNCHANGED status

OpenData ==
    /\ pc = "extract"
    /\ Open("script", "dump")
    /\ Same /\ UNCHANGED <<target, out>>

(* Out of a file that ADF_open has closed nothing is read: the empty object
   traps the disassembler that reads it next. *)
dump_script ==
    /\ pc = "dump"
    /\ reg.next < Len(reg.adf.scripts)
    /\ LET s == reg.adf.scripts[reg.next + 1]
           object == IF reg.adf.open
                     THEN SubSeq(target.cells, s.start + 1, s.start + s.len)
                     ELSE <<>>
       IN  /\ out' = Append(out, object)
           /\ IF object = <<>> THEN Exit("trapped") ELSE UNCHANGED <<pc, status>>
    /\ reg' = [reg EXCEPT !.next = @ + 1]
    /\ Same /\ UNCHANGED target

ExtractDone ==
    /\ pc = "dump"
    /\ reg.next = Len(reg.adf.scripts)
    /\ Exit("ok")
    /\ Same /\ UNCHANGED <<target, reg, out>>

(* agscriptxtract: the room. The script that the search finds must be the
   one of the block. A script that cannot be read is no error. *)
dumprooms ==
    /\ pc = "dumprooms"
    /\ LET f    == target.cells
           room == RoomFile_read(f)
           off  == ARF_find_code_start(f, 0)
           len  == ASI_read_script(f, off)
       IN  CASE room.outcome # "ok" -> Unreadable(room.outcome) /\ UNCHANGED out
             [] /\ room.outcome = "ok"
                /\ off # BlockOf(room, BLOCKTYPE_COMPSCRIPT3).start \/ off = NotFound ->
                  Exit("trapped") /\ UNCHANGED out
             [] OTHER ->
                  IF len = 0
                  THEN (\E how \in {"ok", "trapped"} : Exit(how)) /\ UNCHANGED out
                  ELSE /\ out' = << SubSeq(f, off + 1, off + len) >>
                                    \o IF SourceFits(f, room)
                                       THEN RoomFile_extract_source(f, room)
                                       ELSE <<>>
                       /\ Exit(IF SourceFits(f, room) THEN "ok" ELSE "trapped")
    /\ Same /\ UNCHANGED <<target, reg>>

-----------------------------------------------------------------------------
(* agsalphahack *)
Chosen(n) == cmd.sprite \in {-1, n}

OpenFlags ==
    /\ pc = "alpha"
    /\ Open("gamebase", "flags")
    /\ Same /\ UNCHANGED <<target, out>>

(* The flags are written in place, in pieces of a buffer. *)
WriteFlag ==
    /\ pc = "flags"
    /\ reg.next < reg.adf.numsprites
    /\ LET at == reg.adf.spriteflagsstart + reg.next + 1
       IN  target' = IF Chosen(reg.next)
                     THEN [target EXCEPT !.time = clock,
                                         !.cells[at][2] = WithoutAlpha(@)]
                     ELSE target
    /\ reg' = [reg EXCEPT !.next = @ + 1]
    /\ Same /\ UNCHANGED <<pc, out, status>>

AlphaDone ==
    /\ pc = "flags"
    /\ reg.next = reg.adf.numsprites
    /\ Exit("ok")
    /\ Same /\ UNCHANGED <<target, reg, out>>

Tool ==
    \/ NextArg \/ SearchGame \/ SearchRoom \/ CopyHeader \/ CopyRest \/ Rename
    \/ OpenData \/ dump_script \/ ExtractDone \/ dumprooms
    \/ OpenFlags \/ WriteFlag \/ AlphaDone

Next == Compile \/ Run \/ Kill \/ Tool

(* A tool that runs goes on or is killed; nobody has to start one, nor to kill
   one that reads for ever. *)
Goes == (pc # "loop" /\ Kill) \/ Tool
Fairness == WF_vars(Goes)

Spec == Init /\ [][Next]_vars /\ Fairness

-----------------------------------------------------------------------------
(* What the properties compare with: the scripts of a file, found by their *)
(* signatures without a search, and the replacing of the i-th one.         *)
Signatures(f) == {p \in 0..Len(f) - 4 : SignatureAt(f, p)}

(* Every signature is that of a whole script, none is inside another, and
   no letter stands before one, which the search would trip over. *)
Plain(f) ==
    \A p \in Signatures(f) :
       /\ ASI_read_script(f, p) # 0
       /\ Signatures(f) \cap p + 1..p + ASI_read_script(f, p) - 1 = {}
       /\ Kind(f, p - 1) \notin {"S", "C", "O", "M"}

(* the i-th signature, from 0 on *)
ScriptStart(f, i) ==
    CHOOSE p \in Signatures(f) : Cardinality({q \in Signatures(f) : q < p}) = i
ScriptCells(f, i) ==
    LET p == ScriptStart(f, i) IN SubSeq(f, p + 1, p + ASI_read_script(f, p))

Replaced(f, i, object) ==
    LET p == ScriptStart(f, i)
    IN  SubSeq(f, 1, p) \o object \o Rest(f, p, ASI_read_script(f, p))

Measured(o) == o # <<>> /\ ASI_read_script(o, 0) = Len(o)
WholeObject(o) == Signatures(o) = {0} /\ Measured(o)

Injecting == cmd.tool = "inject" /\ ~reg.short

(* the arguments whose objects are to be injected *)
ObjectOf(k) == reg.objs[cmd.args[k].obj]
Wanted == {k \in DOMAIN cmd.args : cmd.stamps => ts_is_newer(reg.stamp, ObjectOf(k).time)}

(* the game with the wanted objects of the first k arguments in their places *)
Injected(f, args, objects, wanted) ==
    LET after[k \in 0..Len(args)] ==
            IF k = 0 THEN f
            ELSE IF k \in wanted
                 THEN Replaced(after[k - 1], args[k].which, objects[args[k].obj].cells)
                 ELSE after[k - 1]
    IN  after
Applied == Injected(reg.before, cmd.args, reg.objs, Wanted)

Ended(tool, how) == pc = "shell" /\ cmd.tool = tool /\ status \in how

(* No block of a room goes back. *)
Forward(f) ==
    LET bs == RoomFile_read(f).blocks IN \A k \in DOMAIN bs : bs[k].len >= 0

(* the blocks of a room with what they hold, and which one BlockOf takes *)
RoomContents(f) ==
    LET bs == RoomFile_read(f).blocks
    IN  [k \in DOMAIN bs |->
            <<bs[k].type, SubSeq(f, bs[k].start + 1, bs[k].start + bs[k].len)>>]
LastScript(contents) ==
    {k \in DOMAIN contents :
        /\ contents[k][1] = BLOCKTYPE_COMPSCRIPT3
        /\ \A j \in DOMAIN contents : contents[j][1] = BLOCKTYPE_COMPSCRIPT3 => j <= k}

(* The sprite flags of a game are behind its fonts: from version 24 on as many
   as it says, before that always the same number; up to version 12 there are
   none. The file may end among them. *)
Flags(f)      == {n \in DOMAIN f : f[n][1] = "flag"}
FontsEnd(f)   == {n \in DOMAIN f : n > 2 /\ f[n][1] = "fonts"}
FlagsPlaced(f) ==
    /\ \A p, q \in FontsEnd(f) : p = q
    /\ Flags(f) # {} => FontsEnd(f) # {}
    /\ FontsEnd(f) # {} => Len(f[2]) > 1
    /\ \A p \in FontsEnd(f) :
          IF f[2][2] < 24
          THEN f[2][2] > 12 /\ Flags(f) = p + 1..p + OLD_SPRITES \cap DOMAIN f
          ELSE IF p = Len(f) THEN Flags(f) = {}
          ELSE /\ f[p + 1][1] = "sprites"
               /\ Flags(f) = p + 2..p + 1 + f[p + 1][2] \cap DOMAIN f

(* A game has a global script and, from version 38 on, one of the dialogs,
   and from version 31 on their number and as many more behind these. *)
ScriptsPlaced(f) ==
    Signatures(f) # {} =>
    /\ Len(f[2]) > 1
    /\ LET fixed  == IF f[2][2] > 37 THEN 2 ELSE 1
           n      == Cardinality(Signatures(f))
           behind == ScriptStart(f, fixed - 1) + Len(ScriptCells(f, fixed - 1)) + 1
       IN  IF n < fixed \/ f[2][2] < 31 THEN n <= fixed
           ELSE behind \in DOMAIN f => f[behind][1] = "count" /\ n <= fixed + f[behind][2]

-----------------------------------------------------------------------------
(* agsinject on a game: whatever is killed, refused or not renamed, the game
   is at every moment the one it was with the first so many of the objects
   asked for in the places asked for, and everything around them as it was;
   all of them when agsinject says so. The i-th place is that of the i-th
   signature, however long the objects before it have become. *)
PrefixApplied ==
    /\ Injecting /\ ~target.room /\ Plain(reg.before)
    /\ \A k \in Wanted : ObjectOf(k).cells # <<>> => WholeObject(ObjectOf(k).cells)
    => \E k \in 0..Len(cmd.args) :
          /\ \A j \in Wanted \cap 1..k :
                /\ cmd.args[j].which < Cardinality(Signatures(reg.before))
                /\ ObjectOf(j).cells # <<>>
          /\ target.cells = Applied[k]
          /\ Ended("inject", {"ok"}) => k = Len(cmd.args)

(* agsinject on a room whose blocks follow each other: the room can be read
   afterwards, its blocks are those it had but for the script, which is the
   old one or an object asked for, and the last one when agsinject says so:
   the length it writes before the script is the one RoomFile_read goes on
   by. (A block that goes back may do so over the script, and is then behind
   or before what it went to.) *)
RoomKept ==
    LET old == RoomContents(reg.before)
        new == RoomContents(target.cells)
    IN  /\ Injecting /\ target.room
        /\ RoomFile_read(reg.before).outcome = "ok" /\ Forward(reg.before)
        /\ \A k \in LastScript(old) : Measured(old[k][2])
        /\ \A k \in Wanted : ObjectOf(k).cells # <<>> => Measured(ObjectOf(k).cells)
        =>  /\ RoomFile_read(target.cells).outcome = "ok"
            /\ DOMAIN new = DOMAIN old
            /\ \A k \in DOMAIN old :
                  \/ new[k] = old[k]
                  \/ /\ k \in LastScript(old) /\ new[k][1] = old[k][1]
                     /\ \E j \in Wanted : new[k][2] = ObjectOf(j).cells
            /\ Ended("inject", {"ok"}) /\ Wanted # {} =>
                  \E k \in LastScript(old) : new[k][2] = ObjectOf(Max(Wanted)).cells

(* agscriptxtract dumps every script of a game, in the order agsinject counts
   them, also when a part behind the scripts cannot be read; but for a view,
   whose reader closes the file (DataFile.c:650). *)
ExtractedAreScripts ==
    /\ Ended("extract", {"ok", "failed", "trapped"}) /\ ~target.room
    /\ reg.adf.aoe \notin {"aborted", "view"} /\ ~Fatal(reg.adf.aoe, "script")
    /\ Plain(target.cells) /\ FlagsPlaced(target.cells) /\ ScriptsPlaced(target.cells)
    => /\ status = "ok"
       /\ Len(out) = Cardinality(Signatures(target.cells))
       /\ \A k \in DOMAIN out : out[k] = ScriptCells(target.cells, k - 1)

(* agsalphahack changes nothing but the alpha flag of the sprites asked for,
   whatever of the game it could not read, and has cleared all of them when
   it ends without an error. *)
FlagsCleared ==
    cmd.tool = "alpha" /\ FlagsPlaced(reg.before) =>
    LET old     == reg.before
        asked   == {n \in Flags(old) : Chosen(Cardinality({m \in Flags(old) : m < n}))}
        cleared == [n \in DOMAIN old |->
                       IF n \in asked THEN [old[n] EXCEPT ![2] = WithoutAlpha(@)] ELSE old[n]]
    IN  /\ DOMAIN target.cells = DOMAIN old
        /\ \A n \in DOMAIN old : target.cells[n] \in {old[n], cleared[n]}
        /\ Ended("alpha", {"ok"}) => target.cells = cleared

(* Every tool comes to an end: the search of agsinject gets on, and no run
   waits for anything. A game of 2.61 to 3.10 that ends before its GUIs keeps
   agscriptxtract and agsalphahack reading (see BonusSkipped), and a room one
   of whose blocks goes back (RoomFile.c:115) may keep agscriptxtract and
   agsinject reading; nothing else does. *)
EndlessGame ==
    /\ reg.adf.version \in 26..37
    /\ \A n \in DOMAIN target.cells : target.cells[n][1] \notin {"dialogs", "guis"}
EndlessRoom == target.room /\ ~Forward(target.cells)

ToolEnds ==
    pc # "shell" ~> \/ pc = "shell"
                    \/ pc = "loop" /\ (EndlessGame \/ EndlessRoom)

(* DataFile.c:657-659 says of what follows the views that "everything else is
   'bonus', so we don't hard-fail anymore but skip the non-essential parts":
   a game that can be read up to there has its scripts extracted. *)
BonusSkipped == pc = "extract" ~> pc = "shell"
=============================================================================
