# agsutils in TLA+

agsutils is a set of command-line tools around Adventure Game Studio: an assembler and a
disassembler of the engine's script objects, a simulator of the script machine, and tools that
take game containers apart and put them together. Every tool is one sequential process: no
threads, no signal handlers that share state, no messages. What makes the code hard is elsewhere:
long sequences of legal calls on small stateful parts (a put-back ring, three counters for a
stack, a memory block that grows under the user's commands), passes that must agree on an order,
and readers that must agree with writers.

## Inventory

| part | source | state | operations | what makes it correct |
|---|---|---|---|---|
| tokenizer | tokenizer.c | file position, put-back ring, token buffer, flags, line and column | getc, ungetc, next, peek, read_until, skip_until, rewind | looking ahead and putting back never loses, repeats or reorders a character; the ring is never overrun |
| preprocessor | preproc.c | three level counters, macro table, one tokenizer per file, and one per running expansion | a handler per directive, include_file, parse_macro, expand_macro, evaluate_condition | exactly the text a stack of groups would compile is compiled; an unclosed group is reported; a text means what it means in C; expansion ends |
| assembler | Assembler.c, agssemble.c, List.c | code, data, strings, label, export, import, variable and fixup lists | asm_data, asm_text, the two patch loops, sort, write_object | every operand refers to what its name says; the fixup list covers each of them once and in order |
| disassembler | Script.c, agsdisas.c | offset, instruction index, cursors into exports, fixups and labels | dump_globaldata, get_labels, disassemble_code_and_data | no table entry is left over; the listing assembles to the same object |
| simulator | agssim.c | one memory block (text, stack), registers, labels and waiting references, breakpoint bits | append, resolve, step, run, step over, breakpoint, reset, stack set-up | what runs is what was typed, whatever the order of lines and commands |
| opcode tables | ags_cpu.h | constant | | |
| hash table | hsearch.c, hbmap.h, bmap.h | slots, used, tombstones | insert, find, delete, resize, iterate | a finite map; a probe always ends |
| growing lists | tglist.h, strstore.h, MemGrow.c | count, capacity | add, insert, delete, append | nothing is written behind the capacity |
| pack files | Clib32.c, agspack.c, agstract.c | name store, offsets, lengths, versions | read and write of header and files | what is extracted is what was packed |
| sprite files | SpriteFile.c, agsprite.c, lzw.c | sprite index, codecs | add, finalize, extract, pack, unpack | unpack after pack is the identity; no buffer is too small |
| room files, injection | RoomFile.c, agsinject.c | block table, container, temporary file, timestamps | find the script, replace it | the other parts of the container do not change; whatever fails, it holds the first so many scripts whole |
| game data | DataFile.c, agscriptxtract.c | position, the counts read so far, where flags and scripts are, whether the file is still open | open (some forty readers in sequence), extract | every script is extracted, also when a later part cannot be read; reading ends |
| alpha flags | agsalphahack.c, agsalphainfo.c | sprite flags in a game file | read, clear in place | no byte but the flags changes |
| byte arrays, files | ByteArray.c, File.c | position, size, growth | read, write, seek | no write passes the block; the length the caller sees is the length that is there |
| escaping | StringEscape.c | none | escape, unescape | what is escaped reads back, and fits the line it is read from |
| keyword search | kw_search.h, minishilka.c, regusage.h | constant, generated | | |
| inflate | miniz_tinfl.c | third-party | | |
| portability | endianness.h, winfile.h, debug.h, version.h, Makefile | none | | |
| alternative parser | asmparse.y, asmlex.l | not built | | |
| scripts | agsoptimize, agsex, sim-tests | | | |

How the parts interact: agssemble runs the preprocessor over its source into a memory stream and
hands it to the assembler; the preprocessor runs one tokenizer per file, nested by `#include`; the
assembler writes an object that agsdisas, agsinject and agscriptxtract read through Script.c;
agssim reads the same assembly line by line with a parser of its own. Calls are synchronous and
state is passed by pointer: the only callbacks are comparison functions of sorts.

## Modules

| module | models | state |
|---|---|---|
| `CharStream` | what the tokenizer promises its caller: a cursor over the file | position, last character |
| `GetcBuf` | `tokenizer_getc`, `tokenizer_ungetc`, and each place that calls them | the ring (`buf`, `cnt`, `buffered`), the file position, where the scanner is in a look-ahead |
| `GetcBufProofs` | theorems about `GetcBuf` | |
| `CondStack` | what the preprocessor promises: a stack of groups, each taken, seeking, done or dead | stacks of the current and the including files |
| `Preproc` | `parse_file`, `set_level`, `include_file`: one action per directive | `if_level`, `if_level_active`, `if_level_satisfied`, those of the including files, macros |
| `PreprocProofs` | theorems about `Preproc` | |
| `MacroText` | what of the tokenizer the macro code uses: tokens and characters | none |
| `CondExpr` | the precedence climber `expr`, `nud`, `led` of conditions | none |
| `Macros` | `parse_macro`, `expand_macro`, `evaluate_condition`: one action per step of a running call | unread tokens, macro table, stack of running calls with their pending ones, output |
| `CMacros` | what the texts mean by the rules of C, for comparison; no code | none |
| `GameFile` | `ADF_open`, `RoomFile_read`, the search for scripts, as functions of a file | none |
| `GameTools` | agsinject, agscriptxtract, agsalphahack on one game or room | the container, the objects, a clock, the tool that runs and its locals |
| `GameToolsProofs` | theorems about `GameFile` and `GameTools` | |
| `AgsSim` | agssim: lines, commands, the machine | memory as words, registers, sizes, labels, references |
| `AgsSimProofs` | theorems about `AgsSim` | |
| `ScriptFormat` | opcodes, export and fixup kinds, shapes both tools use | none |
| `StringEscape` | `escape`, `unescape` as functions | none |
| `ByteArray` | a byte array that grows while it is written, over `MemGrow.c`, as functions on its state | none |
| `GrowingFile` | what such an array promises: a file in memory | contents, position |
| `Assembler` | `AS_assemble`: one action per line of source, per reference patched, and the write | the lists of the assembler, the object |
| `Disassembler` | `ASI_disassemble`: one action per variable, the label pass, one per instruction | the listing, the offset and the cursors |
| `Reassembly` | agssemble, agsdisas, agssemble on one source, composed of the two | |
| `ReassemblyProofs` | theorems about `Reassembly`, and about a byte array under any writes and positionings | |
| `KeyMap` | what `hsearch.h` promises: a map in which a key is bound once | the map |
| `HTab` | `hsearch.c`: insert, find, delete, resize slot by slot | the slots, `mask`, `used`, `dead`, the table being left |
| `HTabProofs` | theorems about `HTab`: types, counters, probes; that it implements `KeyMap` | |
| `StrStore` | `strstore.h` as the packs use it | the store: count, size, capacity, contents |
| `Pack` | agspack, agstract and agspack again, over `Clib32.c`: one action per line of the index, per header, per file | the files, the pack, the arrays of `AgsFile`, the running offset of the names |
| `PackProofs` | theorems about `StrStore` and `Pack` | |
| `Colours` | the colour conversions of `Targa.h` and `agsprite.c`, pixel by pixel | none |
| `Codecs` | `packl`/`unpackl`, `rle_encode`/`rle_decode`, `lzwdecomp` as functions on chunks of pixels | none |
| `Tga` | pictures, `Targa_writefile`, `Targa_readfile`, `tga_to_ags` as functions | none |
| `Sprites` | agsprite over `SpriteFile.c`: one action per slot read, sprite extracted, line packed | the file, `SpriteFile`, the offsets, the info file and its targa files, the file being written |
| `SpritesProofs` | theorems about `Colours`, `Codecs` and `Sprites` | |
| `MC_GetcBuf`, `MC_Preproc`, `MC_Reassembly`, `MC_HTab`, `MC_Pack`, `MC_Sprites`, `MC_Macros`, `MC_GameTools` | values for the model checker | |

### Tokenizer

`GetcBuf` has the ring as in `struct tokenizer_getc_buf`: a character read from the file goes to
slot `cnt % Size`, a put-back only steps back (`buffered`), a read after a put-back delivers the slot.
The scanner around it is reduced to what it does with the ring, with the choice of what comes next
left open: plain characters and the end of a token (`GetChar`, `TakeChar`, `PutCharBack`),
`tokenizer_peek`, `sequence_follows` with a partial match put back in reverse, the marker that
`tokenizer_read_until` puts back, the wide-literal look-ahead of two characters, the look-behind
on a minus, and `tokenizer_rewind`. Everything between two calls of getc is left out: token kinds,
the token buffer, lines and columns. `CharStream` is the same client interface on a plain cursor.

### Preprocessor

One action per directive. A condition is its value: 0, 1, another number and -1, which
`set_level` uses as a sentinel. An include pushes the counters, as the C code does by recursion.
`open` counts the groups by the rules of C and is read by properties and, under `Balanced`, by
the guards that keep `#elif`, `#else` and `#endif` inside a group. `CondStack` is written from what the
skipping means, group by group.

### Macros and conditions

A text is a sequence of tokens, each the string the tokenizer leaves in its buffer. Where the code writes
characters and reads them again (`Lex`), two words side by side become one, which is how `##` works and how
results grow into the words beside them. `expand_macro` calls itself: `frames` is the C stack. A frame takes
arguments (`Replace`), lists the calls in its replacement (`get_macro_info`), expands them one by one, the
deepest first (`ExpandNext`), and moves the places of the others at each join (`JoinResult`, `Moved`), until a
function-like name at the end may take arguments from a text further out (`Rescan`, `tchain_parens_follows`).
The assertion in `mem_tokenizers_join` and the write of an argument into an array of none are the outcome
"abort". A condition is read token by token to the end of its line, expanded the same way and given to
`do_eval`; values are unbounded, the bitwise operators work on 16 bits.

`CMacros` says what a text means in C, with hide sets and arguments expanded first, and which texts are plain:
those on which this preprocessor is meant to agree. What is not plain is under "Observations".

The modules were compared with the compiled preprocessor on 10,416 programs: 10,410 give the same output or the
same end. The other six are four shifts by a negative count (undefined in C), a line number, for which
the model writes 1, and an expansion five calls deep, which `MAX_RECURSION` cuts off.

### Simulator

Words instead of bytes: code addresses are word numbers, the stack pointer stays a byte address
because reset leaves it at -1, where a push writes across words. A word is a number with its two flag bits beside it; what is
read through a flag (`as_int`) is no code address. A page has 16 words instead of
1024, the argument block 13 words, so that growth by `realloc`, the page after the text and the end of
memory are all met in a few lines. The arithmetic opcodes are one (`sourceline`), the ones that are
"not implemented yet" three. `prog`, `starts` and `bps` say what the user typed and set; they are compared
with the memory and never steer it, except that breakpoints are set on instructions.
`misuse` records what the tool does not cope with, and the properties are about sessions without it:

- `full`: a line that does not fit once the stack is there; `append_code` refuses it half-way.
- `overlap`: the text's last page is not where the stack begins (`text_end` against the capacity).
- `unimplemented`: an opcode of the not-implemented group was executed; it increments itself in place
  (`agssim.c:684` increments `*eip`, not `eip`).
- `reset`: a push after `!i`, which leaves the stack pointer at -1.
- `wild`: a call or a return to an address that is no instruction.

A pop below the start of the stack ends the model's session (`lost`): it reads the argument strings.

### Assembler and disassembler

A line is an opcode with operands of a kind (register, number, string, variable, stack slot, symbol).
`Assembler` keeps the order of the code: data, text with references noted, labels patched, functions
patched or imported, fixups sorted, object written. `Disassembler` reads that object: it guesses the
size of each variable from the loads behind `li mar, @v`, folds a run of zeros into a `char[N]`,
collects jump targets, and walks the code with one cursor per table. `Reassembly` runs them in turn on
every source of up to `MaxLines` of the sample lines. Two conditions keep the sources to what compilers
write: a variable is accessed with its own size (`WellTyped`), a pointer in the data points to the
string before it (`PointsToString`). The string buffer of 200 bytes has 5 in the model (`StringSize`).

Strings are sequences of characters. `unescape` reads them from the source and `escape` writes them to the listing,
where a quote or a question mark takes a backslash although it had none in the source: the second source is not the first.
A line of the source is read into 1024 bytes; what that leaves for the text of a string is `LineRoom`, 4 here. The buffer for an
escaped string, 4096 bytes, has 8 (`EscapeSize`). An escape that is not known aborts.

Code and data are arrays of `ByteArray`, which keep their length twice, as the C code does: `size` for the caller and what is in use
in `MemGrow.c`. A write doubles the block or takes whole pages of `Page` cells, 3 for the 4096 bytes of data and the 1024 words
of code; `memcpy` notes whether it stayed inside. `write_object` asks for each array whole and asserts that it is there.

### Hash table

`HTab` has the slots, the mask and the two counters of `struct htab`. A probe is described by the
collisions after which it may stop (`hits`) and not run step by step: `find_ends` and `insert_ends` say
that there is such a one, which is what a property and a theorem are about. An insert or a delete is
one step; `resize` is a step per slot of the old table, so that the counters and the probes are looked at
in the middle of it. A failed `calloc` puts everything back (`hsearch.c:82-85`, `183-188`) and is no
step, as is a refused insert. A key whose hash is `0xdeadc0de` would be taken for a tombstone and its
null pointer compared (`HashAssumption` excludes it). `Blind` says whether a key that is in the table may be inserted. The
theorems about types, counters and probes hold either way; the run and the theorem about the map insert only keys that are not there, for with tombstones the code binds a
key twice (see the observations). No program of the repository deletes from such a table.

### Packs

Sizes are in bytes and contents are not read: a byte of a number is a number, those of signatures and
files are model values, and a name is one value filled up to its length, so offsets and counts are the
code's. `Pack` runs agspack on an index, agstract on the pack, and agspack on what agstract wrote. While the
first pack is made a file may be edited or removed (`Change`), because its size is taken when the
index is read and its bytes are copied after the header is written. Versions 20 and 30 are the ones
`AgsFile_write` makes; the encryption of names in version 20 keeps length and order and is left out. A file is
copied in one read instead of 4096 bytes at a time. The index says once how many files there are, before it lists them (a second `filecount` behind them, which agspack
accepts, is left out); a line more is written behind the arrays made for that number, and the model stops there (`overrun`).

`StrStore` is the store of names: the preallocation by a guess, growth by the average length of what is in
it, and the offset of the next name. `Fill` stands for the characters behind the first of a name.

### Sprites

A pixel is the sequence of its bytes and a picture the sequence of its pixels, so palettes, alpha and the
masks of 16 bit colours are computed as in the code. A run-length stream is a sequence of chunks, a flag and
pixels; the flag keeps its byte, with its sign in the one codec and its upper bit in the other. The two
encoders are written as what they decide at each pixel: `rle_encode`'s jumps come down to where a
series or a repetition ends, and to one bit of memory, that after a repetition which another pixel ended a
series follows even if two equal pixels do.

`Sprites` reads a file, extracts it, lets a user replace one targa file, packs what is there, and reads and
extracts the result; or it writes the index. Offsets are byte offsets: `SlotBytes` counts what is in a slot,
`skipped` what `SpriteFile_read` passes over, `DataBytes` and the field `size` are what is there and what
the file says. `px` of a slot is what its writer meant and is read by properties only. Files of
versions 10 to 12 come from the game's own editor: they are taken as this code reads them, inflate
gives back what was deflated, data of less than 16 bytes is not coded, a palette belongs to 16 and 32 bit sprites.
After a write behind the buffer the model stops (`overrun`), and so does it where `pack` runs on with no
file open (`crashed`).

### Game files and their tools

A file is a sequence of cells: a letter of the signature, the size of a script, a count, a sprite's flags, or a
whole section of the game. `GameFile` has `ADF_open` as the sequence of its readers; of each it says what it
wants, which error it gives when it finds something else or the end of the file, and whether the file is
closed then, which is `FAIL` and `ERR` in the code. A count read behind the end is what happens to be in the buffer
(`JUNK`): AF_read_uint does not tell. `RoomFile_read` goes from block to block by their lengths, which are signed
(`RoomFile.c:98-100`): a negative one goes back, to a block that was read, into one that was passed over, or to before the file, where the
tool traps. As what is read next depends on the position alone, a reading that has made more steps than the file has cells never ends: its outcome
stays "reading" and the tool is in the loop (`Unreadable`).

What is in a cell beside its kind is a number, and a section in which a number is looked for and none stands reads as `JUNK` too. A position is
that of a cell, so a length that ends inside one is not among the inputs, nor is a position of -1 (the byte before the mapping) or a source of -1 bytes
(`malloc(0)`): what those read is undefined.

`GameTools` takes the cells (`CELLS`), games and rooms, objects and command lines as constants. Three assumptions, evaluated by the
run, say what they are: versions and the lengths of a room's blocks have a sign, counts none, and a script has a number of cells (`CellsAssumption`); files are sequences of cells and the lengths agsinject writes are among
them (`FilesAssumption`), an argument of agsinject names an index and an object (`CommandsAssumption`). `reg.before`, `reg.objs` and `reg.stamp` keep
the container, the objects and the time of the container as the tool found them; the last is a local of agsinject, the other two are read by properties only.

`GameTools` runs one of the tools on a game or a room after an object may have been compiled. agsinject goes through
its arguments; each is a search, the header and the object written to a temporary file, the rest copied,
and a rename. It may be killed between two steps, refused a temporary file or a rename, and the disk may be full, which the
code does not notice (`short`). agscriptxtract opens, gives up at what `aoe <= AOE_script` holds for and dumps one
script after the other from the file as it is then, open or closed. agsalphahack writes flags at the place
ADF_open noted. A read behind the end of a file for which BAF_NONFATAL_READ_OOB is not set stops the program
at a breakpoint ("trapped"). `PrefixApplied` and `ExtractedAreScripts` compare with the scripts of the
file as `Signatures` sees them, without a search and without a reader. What they assume of a file is said the same way: `Plain`, that every
signature is that of a whole script and nothing in front of it trips the search; `WholeObject` and `Measured`, that an object is one script;
`FlagsPlaced` and `ScriptsPlaced`, that flags and scripts are where a game of its version has them. `RoomKept` is about rooms none of whose blocks goes
back (`Forward`): one that does may go back over the script, and then what agsinject replaces is also part of what is read later.

The modules were compared with the compiled tools on files of nine versions (11 to 50), whole and cut inside every
section: the errors, the exits, the changed file and what is dumped agree. So do those of agsinject on rooms of both widths whose blocks go back to
themselves, to before the file and into a block.

## Runs

Two runs are about progress. The tools are sequential programs, so what is assumed is that a program that can
take a step does. `GameTools` has weak fairness of `Goes`, a step of the tool or its being killed; nobody
has to start a tool, and a tool in a loop does not leave it (`loop`). `ToolEnds` names what leads there: `EndlessGame`, a game of version 26 to 37
without dialogs and GUIs, and `EndlessRoom`, a room with a block that goes back. `Macros` spells the weak fairness of its
`Next` out: infinitely often there is nothing to do (`Busy` is false, at an end or in the loop of
`ReadPastEnd`) or infinitely often a step is taken; that is `WF_vars(Next)`, since a busy state always has a
step, which the run shows as it checks for deadlock. The other modules state no fairness: their only scheduler
is the user.

| run | shows | bounds |
|---|---|---|
| `GetcBuf` | `RingHoldsLast`, `AssertsHold`, and that the ring implements `CharStream` | a ring of 4 slots, streams up to 5 characters, markers of 1 to 3: every slot is reused, every marker can fail at every place, and the end of the file falls inside each look-ahead. Deadlock is checked: the scanner can always go on |
| `Preproc` | `CountersShape`, `UnterminatedIsReported`, and that the counters implement `CondStack` | 8 lines, 4 levels, 2 includes: three nested groups with a branch each, or a group inside an include inside a group |
| `AgsSim` | type, `CodeKept`, `RefsWait`, `BreakpointsStay`, `RunsInstructions` | 3 lines, 3 commands, 48 words: forward and backward labels, a string, a line after the stack is set up, a breakpoint resumed from |
| `Reassembly` | type, `BuffersInside`, `JumpsLand`, `OperandsResolve`, `ImportsUsed`, `ListingAssembles`, `SameObject` | 4 lines out of 7 data and 18 text lines: every pair of definition and use in both orders, two fixups of different kinds, a zero run with and without a reference; strings with escapes, with quotes that get one, longer than the line once they did, with an escape that is not known; arrays that grow to pages and by doubling |
| `HTab` | `LoadCounted`, `ProbeEnds`, and that the table implements `KeyMap` | 4 keys, two with the same hash and a third in the same slot of every table; tables of 2, 4 and 8 slots: growing twice, shrinking when a table full of tombstones is replaced, tombstones in front of a key, used again, and on the way of a move. Deadlock is checked |
| `Pack` | type, `StoreInside`, `OffsetsTile`, `PackWhole`, `ExtractedIsCopied`, `RepackSame` | indexes of up to 3 files over 2 names (one as long as a store of 64 bytes allows, one of a character), with and without an executable, one edit at any time; `NameLimit` 20 for 100 and `MaxFiles` 2 for 10000, so that both are passed |
| `Sprites` | `TocCovers`, `ExtractedIsStored`, `TgaFits`, `RepackSame`, `IndexMatches` | a palette of 2 colours for 256, so that pictures of 3 are too colourful; the 128 pixels of a chunk are the real ones, met by lines of 127 to 130; all lines of up to 6 pixels in 2 colours, all pairs of 8 pictures and an empty slot in the versions 5 and 6, and files of the versions 4 to 12 with each codec; `MAX_OLD_SPRITES` 4 for 0xfffe |
| `Macros` | `AgreesWithC`, `PendingInPlace`, `Terminates` | 13 lines under 4 x 5 x 6 x 5 choices of two object-like and two function-like macros: nested and mutual recursion, arguments that are calls, aliases at the end, `#`, `##`, `...`; conditions with each pair of 18 operators in both groupings, each unary operator on each side, `defined`; definitions and calls that are refused; 4 nested calls for 32. Deadlock is checked |
| `GameTools` | `PrefixApplied`, `RoomKept`, `ExtractedAreScripts`, `FlagsCleared`, `ToolEnds` | 13 games of 12 versions, four of them cut at every cell and two with every section that is looked at damaged, two in which the search goes wrong; rooms of both widths, eight broken ones and seven with a block that goes back: to itself, to the first, into the script, to an end inside another, before the file; a game of version -1; batches of up to 3 objects, with and without timestamps, one compiled or removed before; counts behind the end of 0, 1 and 7; `OLD_SPRITES` 3 for 6000, one tool (`MAX_RUNS`), two seconds (`MAX_CLOCK`). A tool may be killed at each of its steps |
| `GameToolsBonus` | `BonusSkipped` fails for a game that ends in its encrypted dialog lines | as above |
| `SpritesPackFits` | `PackFits` fails for a picture of pairs | as above, `Sprites` |
| `ReassemblyVariables` | `VariablesDeclared` fails for a zero run that holds a referenced variable | as `Reassembly` |

`CHECK_DEADLOCK FALSE` stands where the program ends: at the end of the file, at an error, at the bound of
lines, between two tools.

What the proofs below show for every value of the constants is not run once more where it says little else: the
types of `GetcBuf`, `Preproc` and `HTab`, and `LookaheadBounded`.

## Proofs

`GetcBufProofs` (for every ring size above 2, every set of markers shorter than the ring, every stream):

- `RingCorrect`: `[](TypeOK /\ RingHoldsLast /\ LookaheadBounded)`. These are not inductive: that a put-back
  fits depends on where the scanner is. `IInv` adds, for each place of the scanner, how many characters
  it has read since its base and that they are the ones the stream has there.
- `UngetcSafe`: the two asserts of `tokenizer_ungetc` hold, from the same invariant.
- `BufferImplementsCursor`: each step of the ring is a step of `CharStream` or leaves its state alone.

The argument is the arithmetic of slots: two of the last `Size` positions never share a slot
(`SlotsDiffer`), so a read overwrites only the oldest (`GetcReads`), and what a put-back exposes is
still there (`UngetcSteps`).

`PreprocProofs` (for every nesting depth, every number of includes, every set of condition values):

- `CountersSound`: with balanced directives, `CountersShape` and the type invariant always hold. `IInv` says of every suspended file
  what it says of the current one, for the counters come back from there.
- `BalancedIsReported`: with balanced directives `UnterminatedIsReported` holds, so an unclosed
  group that passes needs a stray `#endif` (see the observations).
- `CountersImplementGroups`: the counters implement `CondStack`. The refinement maps the three counters to
  a sequence of groups (`GroupsOf`); each directive's effect on that sequence is a lemma.

`PackProofs`, first of the store (for every block size, preallocation and set of strings of at most half the smallest block):

- `CapacitySuffices`: no append writes behind the block. The new capacity is twice the characters there are,
  and 16, and at least the smallest block (`NewCapacity`). That bounds the next string by half the block only, not
  by the average, which is why the assumption is needed. `StoreInv` adds that an empty list has no
  characters, or nothing would bound the guess of its average.

then of the first pack (for all files and executables, indexes of any length over any names, any number of edits; of a file it is assumed
that it is a sequence, of a name's characters that none is the 0 behind it):

- `PacksAreWhole`: `[](pass = 1 => PackWhole)`; `FilesFollowHeader`: `[](pass = 1 => OffsetsTile)`;
  `PackTyped`: `[](pass = 1 /\ pc # "extract" => TypeOK)`.

`IInv` says that there are the names read so far and the places they begin at, such that the store holds them one behind another
(`Strings`) and the arrays have an entry for each (`Listed`). While the pack is written each offset is the length of the header and of the
files before it (`Tiled`), the running offset is where the next name begins (`Start`), the pack ends where the files copied so far
do (`EndOf`), and each of those is where its entry says (`InPlace`). Three lemmas carry it: a name is found at its place, since the first 0
from there on is the one behind it (`StringRead`), so that the sequence `write_header` walks is that of the names (`NamesAre`); what `write_header` counts is what it
writes, in both versions (`HeaderIs`); and what is written at a place leaves what is in front of it (`WrittenIs`, `PlacesStay`). The
header is written twice and the second time over the first: `Covered` says that nothing of the first stands
behind the second, however long the executable in front. Sums and concatenations of lists are recursive functions, which the proofs take
from the beginning of the list to its end by `Induction` (`Sums`, `TotalPlus`, `Flattened`).

The second pack stays with TLC: its names and lengths are those that were read back from the first, and the model's numbers of two
digits only come back as they were while they are below 65536.

`HTabProofs` (for every set of keys, every hash function that avoids the tombstone's, every set of sizes that are
powers of 2):

- `ProbesCover`: the slots `h + j(j+1)/2` for `j < n` are all slots of a table of size `n`. If two of
  them were the same, `2n` would divide `(j-i)(i+j+1)`; one of the two factors is odd and the other is
  smaller than `2n`. That a power of 2 which divides a product divides the other factor of an odd one
  (`OddFactor`) is shown by descent on the least power for which it fails; no two the same of `n` means all
  of them, by the pigeonhole principle.
- `HTabTyped`: the table keeps its types, also in the middle of a move.
- `CountersRight`: `[]LoadCounted`. `HTabInv` adds that the size is one of `Sizes`, that an idle table holds the
  load limit, and that in the middle of a move the new table has no tombstones and is at least twice as large
  as what it will hold: the limit holds again when the move is over.
- `ProbesEnd`: `[]ProbeEnds`. Below the limit a slot is neither used nor a tombstone (`RoomLeft`), and by
  `ProbesCover` each probe sees it (`EmptySlotEnds`).

- `TableImplementsMap` (with `Blind` FALSE): `ImplementsMap`, the refinement to `KeyMap`. `MapInv` adds to `HTabInv` that a key has one slot in the
  table and what is left of the old one together (`KeysOnce`), and that from the hash of an entry on no empty slot
  comes before its own (`Chained`): a tombstone does not break a chain, and an insert puts its key where its probe met
  keys only. So a find ends at the slot (`FoundAt`), and what it returns can be told from the slots without a probe
  (`BoundIs`); for each step it then remains to see what the slots hold after it.

`SpritesProofs`, first of the conversions and the codecs, for all bytes and for pictures of any length over any pixels:

- `Round565`: a 16 bit pixel comes back from 24 bit, which is what `RepackSame` rests on for 16 bit sprites; `Reduced565`: a
  reduced colour keeps its upper bits and is not reduced further the next time. They are arithmetic, a conjunct for each colour; for
  green, which is spread over the two bytes, the byte is taken apart first (`GreenParts`).
- `EncodeFits`: `rle_encode` stays within `len * bpp + 1 + len / 3` bytes. Only a series costs more than it stands for, a byte for its flag.
  A series that neither the end nor the 128 pixels ended stands in front of two equal pixels, and so of a repetition, which saves at least
  a pixel (`SeriesAt`, `RepAt`). What is written for the pixels from a place on is therefore at most `bpp` bytes for each of
  them and `Extra`: a third of their number, and one more where no repetition begins; after a repetition, which a series has to follow,
  a third rounded up. `StepFits` says that each chunk pays for what it uses, and the theorem adds them up from the end.
- `EncodeDecode`, `PackUnpack`: what each of the two decoders reads of what its encoder wrote is the picture, and of the right
  length. `PictureUnpacks`: the lines that `ags_pack` writes one behind the other are read as one stream without a mark
  where a line ends, and give the picture, since each line fills its own width exactly.

The encoders are recursive functions that walk from one place to the next. `Path` names the places they stop at and `Chunked` the stream
they leave; that the function is defined and leaves such a path is shown once, for every function of that kind whose measure
falls (`ChunkedExists`, `PathOf`), and both encoders are instances of it (`EncodePath`, `LinePath`).

Then of agsprite (for all files, options, palettes and edits, any number of sprites of any size):

- `OffsetsAreSlots`, `IndexIsTheFile`: `[]TocCovers`, `[]IndexMatches`.
- `TargaInRoom`: `[]TgaFits`.
- `PackedIsExtracted`: `[](round = 2 => ExtractedIsStored)`.

`Inv` is what they need, and all of it is needed for the first. While the slots are skipped the place in the file is that of the next
slot (`TocInv`), for which each slot has to state what it takes. Of an input that is assumed; of a file that was packed it must be
shown (`WrittenSlot`): a slot that is stored plain states `w * h * bpp`, and takes that many only if its picture has as many pixels as its
size says. That is a matter of where the picture came from: it was extracted (`GotInv`), saved to a targa file, perhaps
replaced there by a user, perhaps compressed (`EncodeDecode`), read back and recoloured (`GoodLine`, `DirInv`, with a lemma for
each conversion that it leaves the picture filled). `OutInv` says it of the file being written. That the second
extraction gives what was packed is `WrittenSlot` again, and `PictureUnpacks`.

Two assumptions on the inputs, evaluated by the run. `FilesAssumption`: a file of a version that can be read tells how many slots it has, each is empty or
states the bytes it takes (the last one may have been cut off), and data that can be unpacked fills the picture.
The game's own reader steps over sprites by the same sizes, so a file without the first would be unreadable there as well; `well_formed` leaves data that is too short or does not unpack
open, and what is stored inside a slot. `EditsAssumption`: a targa file that a user puts in place holds as many pixels as its
header says. A pack that writes behind its buffer ends in `overrun` and nothing is claimed of it: that this does happen is the run `SpritesPackFits`.

Not proved: that the extraction of an input gives what its writer meant (`ExtractedIsStored` in the first round), which would be a statement about the file, and `RepackSame`,
which needs the palette of a picture, a fold over its pixels.

`AgsSimProofs` (for every set of labels, every page of 8 words or more, a stack of whole pages that holds the arguments,
any number of lines and commands), about sessions without a misuse:

- `TextIsTheProgram`, `ReferencesWait`, `BreakpointsRemain`, `InstructionsRun`: `[]CodeKept`, `[]RefsWait`, `[]BreakpointsStay`,
  `[]RunsInstructions`; `SessionTyped`: `[](misuse = {} => TypeOK)`. Without that condition `TypeOK` is only model-checked,
  since a wild call may lead anywhere in the text's last page.

None of them is inductive. `IInv` says, of a session without a misuse: the memory without the stack is whole pages with room for an
instruction behind the text (`Room`); an instruction ends where another or the program does, and a jump leads to one or waits
(`InstructionAt`); a reference is to one operand, without an address (`References`); the instruction pointer is at an instruction and
the stack pointer where a reset left it or behind the arguments (`Pointers`), so that no push reaches the text. A line is
its parts in turn: that what `append_code` did for the first `n` of them left whole pages and what was there is shown by induction on
`n` (`LineFits`), and that a string's words stand behind a jump over them by another (`StringStep`). A step of the machine is the lemma
of its opcode (`ExecuteRuns`), under the flags that `vm_step` looks at first (`VmStepRuns`), under the breakpoint that is
taken off and put back (`ToggledRuns`): what holds of the machine before holds after, and the marks in the text are the same.

`ReassemblyProofs` (for every set of data and text lines in which sizes are numbers and a definition has one operand
(`LinesAssumption`), sources of any length, every page):

- `NothingOutside`: `[]BuffersInside`, of the source and of the listing that is assembled after it. `ArraysKept` says that between two
  writes an array holds as many words as its two lengths say, and that the code is written at its end until the text is read. A line
  is several writes, one behind the other: what holds after `n` of them is shown by induction on `n` (`AllWritten`). A
  patch positions the array first, on the place of a reference; that a position behind the end is refused does not matter here.
  The sizes the disassembler guesses for variables are numbers (`VariableDumped`), so that the data of the listing can be written too.
- `JumpsReachLabels`: `[]JumpsLand`. `IInv` relates the code to the text that was read (`Translated`): lines stand one behind the
  other, and one that has words begins with its opcode (`LaidOut`); the table of labels has the first definition of each
  (`Labelled`), since `htab_insert` refuses the second; a reference is the operand of a jump or a load (`Referred`); a jump waits
  with its place in the list of references, or has its label's distance (`Jumps`). A patch changes a word that is not an opcode and not
  the operand of another jump, for lines do not share words (`LaidOutPatch`); this is why references must be known to come from lines.
  When the list is empty every jump has landed. That an instruction stands there follows from the layout: the walk of
  `get_labels` meets the beginning of every line (`Reached`, by induction on the lines).

The same module has the array alone, under any sequence of writes and positionings (for every page size, every set of cells):

- `StreamNeverPasses`: no write passes the block, and the two lengths of the array agree. `StreamInv` adds the types. The
  argument is that growing makes room for what is wanted whichever of its three branches is taken (`GrowsEnough`), and that
  whole pages are never less than what they round (`WholePages`).
- `WholeIsHandedOut`: so an array that is not empty hands out all of it, and the assertions of `write_object` hold.
- `StreamImplementsFile`: the array implements `GrowingFile`. What `memcpy` leaves (`Copied`) is the contents with the new
  cells in their place, and the position never stands behind the end.

`StartsFrom` and `Writes` are recursive functions. That they exist, and what they are at each argument, is shown by induction on
the size of their domain (`StartsExist`, `WritesExist`), with the lemma `Induction` on sets of numbers.

`GameToolsProofs` (for every set of games, rooms and objects made of any cells, every set of command lines, every value of a count behind the
end of a file, any number of tools):

- `ToolsTyped`: `TypeInv`, the types of the file, of the objects and of the locals at each step, and that agsinject writes only
  after it has measured the script it replaces.
- `PrefixIsApplied`: `[]PrefixApplied`. `PrefixInv` says which objects the game holds (`Reached`): those of the first so many
  arguments, and it is `Plain` and has as many signatures as before, or the next index would mean another script. Within an argument the search has
  passed as many signatures as it counted, stops at the one asked for (`Found`), and the temporary file is the beginning of the game, then with the
  object, then with the rest (`Copied`). Three lemmas about any file carry it. A search for `SCOM` that forgets the letter
  that broke a match finds the next signature all the same where no letter stands in front of one. Replacing a script by a whole object moves the signatures
  behind it by the difference and makes none (`SignaturesMove`, `PlainAgain`, `SameCount`). And the i-th place, which the property takes from the
  file as it is then, is the signature with i of them before it (`ScriptStartIs`).
- `RoomIsKept`: `[]RoomKept`. Without a negative length `RoomFile_read` goes from block to block by their lengths; its path is a sequence of blocks, and when the
  length of the script and the script are replaced, the path of the copy is the same with what follows moved (`RoomReplaced`), for lengths of
  one word and of two. So the contents of the blocks are those there were (`ContentsBecome`), which `RoomAfter` says of the first so many arguments.
- `RoomsLoopBack`: agsinject and agscriptxtract come to read a room for ever only where `EndlessRoom` holds. Of blocks that follow each other each ends
  behind the one before and within the file (`PathEnds`), so there are fewer of them than cells and the reading is over (`RoomIs`).
- `FlagsAreCleared`: `[]FlagsCleared`. `ADF_open` is followed reader by reader to see what it notes: the flags begin behind the fonts, and
  there are as many as it says or the file ends among them (`Flagged`). No later reader changes that, however it fails, and an error in front of the
  flags is one that agsalphahack stops at (`FatalErrors`). `AlphaInv` says which flags have been gone through (`ClearedTo`).
- `ScriptsAreExtracted`: `[]ExtractedAreScripts`. Up to its scripts a game has nothing in which one could begin (`GameStage`); from there on the list of
  the scripts is that of the signatures passed, in order (`ScriptStage`, `Listed`). That the list is complete takes `ScriptsPlaced` and, for the scripts behind
  a count, an induction on them. The readers behind the scripts leave the list, and only that of the views closes
  the file (`Opened`). So agscriptxtract has dumped the first so many at each step (`ExtractInv`).

What their premises ask is met by the games and rooms of the run, and `PrefixApplied` and `RoomKept` are also about runs that are killed, trapped or refused.
That the tools end otherwise, and that the dialog lines of some versions are read for ever, is about progress and stays with TLC (`ToolEnds`, `BonusSkipped`).

All of them rest on the constants' assumptions only, each named in the module that declares it.

Only model-checked: everything about macros and conditions; of the assembler the operands of loads and the imports; the disassembler but for what
the arrays need of it; what agstract extracts and the second pack (`ExtractedIsCopied`, `RepackSame`); `RepackSame` of sprites and what is extracted from an input. `OperandsResolve` and `ImportsUsed` speak of
the sorted fixups and of a fold over the references: the folds and sorts of the community modules take operators as parameters, and
induction over them cannot be instantiated. Progress is out of the prover's reach.

## What the violated properties show

- A game of version 26 to 37 that ends before its GUIs keeps agscriptxtract and agsalphahack reading for ever: the
  loop over the encrypted lines waits for a number and never looks for the end of the file (`DataFile.c:716-720`).
- A zero byte without references in front of a referenced variable of unknown size swallows it into a
  `char[N]`: the listing refers to a variable it does not declare (`Script.c:586`).
- Lines of pixels in pairs, out of step with the chunks, need more than `ags_pack` allocates: two lines of
  seven 8 bit pixels take 22 bytes of 21 (`SpriteFile.c:180-195`, `205-213`).

## Observations

Met while reading; the models contain them where they touch modelled state.

Preprocessor and tokenizer: a stray `#endif` takes the level to -1, and a later `#if` that is never closed brings it
back to 0, so that the file passes (`preproc.c:1286`, `1330`; with `Balanced` FALSE `UnterminatedIsReported` is violated); `#if -1` counts as false while `#elif -1` counts as true (`preproc.c:1182`);
`#pragma` in a skipped group is emitted (1211, 1296); an `#if` line that the end of the file cuts off, or whose open argument list takes the end of the line,
loops for ever (1121) and includes may recurse without bound (252); a stray `#else` skips the rest of the file;
a condition's identifiers that start with L are misread under the wide-string flag (`tokenizer.c:454`); a comment inside a token joins its halves.

Macros: arguments are not expanded before they are inserted, so `f(f(1))` leaves the inner call alone; a result and the
word beside it become one; an object-like macro that stands for a function-like one is called only at the end of a
replacement; an argument of a macro without parameters is written into an array of none (`preproc.c:703`); `#` after a
`##` whose right side is no parameter is refused, because only a parameter resets the count of hashes (755-795); a
variadic macro wants one argument for its dots; `#define X+1` drops the plus (390); with an alias, `k(1)+1`, the
places of pending calls go wrong and the assertion of `mem_tokenizers_join` (523) fails. Conditions: `#if (1` and
`#if 1 +` are accepted, `0 && 1/0` is an error since both sides are always evaluated, and `defined X` without
parentheses is false.

Simulator: a command before the first line puts the stack on top of the NULL instruction that `agssim.c:318` says is
there first (261), and `!i`, "reset VM state and IP" (801), leaves the stack pointer at -1, because only the first command
sets it (306); an instruction with a breakpoint is stepped by `!r` before unresolved labels are looked for (868);
a mark of `!n` stays when the instruction jumps elsewhere (863).

Assembler and disassembler: the disassembler prints `.stack + n`, which the assembler does not read
(`Script.c:763`, `Assembler.c:345`); a jump to the beginning of a function lands behind its `thisaddr` after
reassembly; `li mar, @v` as the last instruction aborts the disassembler (`Script.c:347`); a label behind the last
instruction is not accepted (`Assembler.c:510`); a function whose name begins with `label` loses its export
(421); an object that cuts off inside an instruction is met by a bound that is one too high (`Script.c:203`). a string
with so many quotes or question marks that their backslashes do not fit the 1024 bytes of a line gives a listing
that does not assemble (`Script.c:766`, `Assembler.c:404`); a backslash before any other letter ends the assembler in `abort` without a message
(`StringEscape.c`); the `.strings` section of a listing is not read (651), and of the sections only the first is written (641). `ListingAssembles` and
`SameObject` name the first two and the long string as their exceptions.

Hash table: `htab_insert` of a key that is in the table, meant to be refused (`hsearch.c:173-176`), succeeds when a
tombstone stands in front of it on its chain, and shadows the entry (172). No program here deletes from a table.

Sprites: a 32 bit sprite that is opaque and has at most 256 colours is saved with a palette, read back as 24 bit and
packed with alpha 0 everywhere (`agsprite.c:295`), as is every 24 bit targa of a user whose name does not
say `_08_` or `_16_`; with `-H` an opaque pixel close to magenta becomes one that 16 bit sprites
draw transparent (`is_hicolor_candidate` looks at transparent pixels only). A file whose first sprite is not
number 0 cannot be packed (`unexpected keyword`, 337), one without sprites ends in `SpriteFile_finalize` with no file (397),
empty slots at the end are lost, and too many sprites leave a count of 0 and a success (`SpriteFile.c:404`). The
index of a version 12 file has other fields where it means width and height (511-519). Data shorter than 16
bytes is taken for uncoded even if the picture is larger (85, 106), and a palette of 24 bit colours for an 8 bit
sprite leaves its pixels as allocated (282-284). `lzwdecomp` may copy from a part of its window nothing was
written to (`lzw.c:31`).

Packs: a version 30 pack of too many data files is read as if it were in order (`Clib32.c:185-188`), and of more than the
limit of a multi-file pack `prep_multifiles` returns 0 (580-586); `MAX_FILES` is looked at after the
header is written (556); a file that cannot be opened has size 0, so the test for -1 (350) does not see it and
agspack fails in the middle of the pack, leaving it cut off; more `file` lines than `filecount` said are written
behind `length` (351); `agstract.c:94` steps through the names of data files from the second character; the last line of an index without a newline loses a character
(`agspack.c:60`); in the string store a string longer than half of `STRSTORE_MIN_ALLOC` may pass the block's end.

Game files: an index above the number of scripts ends in a breakpoint before the message about it (`agsinject.c:74`,
`ByteArray.c:225`), and so does an object that is missing or empty; the temporary file stays. No write is checked, so after
a full disk a file that is cut short replaces the container (117, 126). A batch that failed half way leaves the container
newer than the objects not yet in it: the same command with `-t` passes them over. agscriptxtract: a short version
string or old header leaves `AOE_success` and a closed file, exit 0 and nothing extracted (`DataFile.c:556`, `568`); a view
that cannot be read closes the file, though the tool goes on as after any later part, and the first script comes out
empty (650, 653); `scripts` holds 50 and the count is not compared with that (643); in games up to 2.72 a cut inside the
interactions may run into an assertion; a room whose script cannot be read is no error. A block of a room whose length is negative leads back
(`RoomFile.c:98-115`): of version 29 one of -5 to itself, and agsinject and agscriptxtract read it for ever. The search for SCOM does not try
the letter that broke a match as the first of the next, so SSCOM is not found (`RoomFile.c:13`), and a string that
holds SCOM counts as a script. agsalphahack writes in place.

## Plan

1. done: tokenizer, preprocessor, with theorems; macros and conditions; simulator; assembler and disassembler, composed.
2. done: `HTab` against an abstract map; proved that a probe ends and that the table implements the map. Left:
   iteration (`htab_next`) while the table changes.
3. done: `Pack`; the capacity of the string store and the layout of the first pack proved. Left: the older readers, packs of several data files.
4. done: `Sprites` with its codecs; the colours, the run-length codecs, offsets and index proved. Left: streams that end inside a chunk, the unwritten
   window of `lzwdecomp`, targa files whose header does not fit their data.
5. done: games, rooms and the tools on them, with theorems for each of their safety properties. Left: several tools in a row (what `-t` leaves out after a failure),
   agsalphainfo, the dumps of headers and dialogs.
6. done: `ByteArray` with its growing memory stream, proved; `StringEscape`, composed with the assembler. Left: byte order, the
   stream of `File.c` without a map.
7. Proofs. Done: the simulator's memory; the assembler's arrays, labels and jumps; the layout of a pack; the
   run-length codecs and the offsets of sprites; the tools on games and rooms. Left: the operands of loads (`OperandsResolve`), the listing
   (`ListingAssembles`), the second pack (`RepackSame`).

## Not modelled

Token kinds and positions, beyond what the macro code uses; the mnemonic search (generated); inflate
(third-party); the yacc parser (not built); the Python optimiser and shell wrapper; what the sections of a game
file hold beside the counts that steer the reading; the copies between byte arrays, their byte order and the stream without a map.
