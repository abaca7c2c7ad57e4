------------------------------- MODULE AgsSim -------------------------------
(***************************************************************************)
(* agssim, the interactive simulator of the script machine: source lines   *)
(* are appended to the text segment as they are typed, labels are patched  *)
(* when they are defined, and ! commands run what is there, under break-   *)
(* points kept as flag bits of the instruction words.                      *)
(*                                                                         *)
(* Memory is a sequence of 4-byte words: text, rounded up to a page, then  *)
(* the stack that the first command allocates.  A word is a number and its *)
(* two flag bits.  Code addresses are word numbers; the stack pointer      *)
(* stays a byte address, since a reset leaves it at -1.  The machine has   *)
(* one general register, ax, and of the opcodes those that move control or *)
(* touch the stack; sourceline stands for the ones that only compute,      *)
(* farcall and its successors for those that are "not implemented yet".    *)
(***************************************************************************)
EXTENDS Integers, Sequences

CONSTANTS
  Labels,       \* label names
  Page,         \* words in a page, 1024 in the code
  EnvWords,     \* words vm_setup_startenv puts on the stack
  StackWords,   \* words of the stack
  MaxLines,     \* bound: source lines read
  MaxCommands,  \* bound: commands given
  MaxMem        \* bound: words of memory

ASSUME SizesAssumption ==
  /\ Page \in Nat /\ Page >= 8
  /\ EnvWords \in Nat /\ StackWords \in Nat /\ EnvWords < StackWords
  /\ \E k \in 0..StackWords : StackWords = k * Page
  /\ MaxMem \in Nat /\ MaxMem >= StackWords + Page

RET == 5
LITTOREG == 6
CALL == 23
PUSHREG == 29
POPREG == 30
JMP == 31
CALLEXT == 33
PUSHREAL == 34
SUBREALSTACK == 35
LINENUM == 36
SCMD_MAX == 74

AR_AX == 3
Unresolved == -1  \* in a fresh register and where a label is not defined yet
Garbage == -2     \* uninitialised memory, string data: no opcode, no code address

\* A word with its flag bits BREAKPOINT_FLAG and BREAKONCE_FLAG.
Plain(n) == [v |-> n, bp |-> FALSE, once |-> FALSE]

NotImplemented == {CALLEXT, PUSHREAL, SUBREALSTACK}
argcount(op) == IF op \in {0, RET} \/ op \notin 0..SCMD_MAX-1 THEN 0
                ELSE IF op = LITTOREG THEN 2 ELSE 1

VARIABLES
  vm,          \* [mem, EIP, SP, AX, vm_return], lost once it pops below the stack
  capa, ltext, lstack,
  base,        \* where the stack begins
  label_map,   \* the defined labels and their offsets
  label_refs,  \* the operands waiting for a label: [name, off]
  pc,          \* "input" in main's loop, "run" in vm_run or vm_trace, "exit"
  prog,        \* the words of the source read so far, labels resolved
  starts,      \* the offsets of its instructions
  bps,         \* the instructions a breakpoint was set on
  misuse,      \* what happened that agssim does not cope with
  lines, commands

vars == <<vm, capa, ltext, lstack, base, label_map, label_refs, pc,
          prog, starts, bps, misuse, lines, commands>>

\* The word as a number: with a flag it is no code address.
as_int(word) == IF word.bp \/ word.once THEN Garbage ELSE word.v

ALIGN(x) == ((x + Page - 1) \div Page) * Page
text_end == ALIGN(ltext)

-----------------------------------------------------------------------------
(* Memory                                                                  *)

\* A writable address without the test against the end of memory.
canwrite_no_end(index) == index < 0 \/ index >= 4 * text_end

\* index is an int, text_end and mem.capa are size_t: a negative index is a
\* large one, and so is a negative sum.
canwrite(index) ==
  /\ index < 0 \/ index >= 4 * text_end
  /\ index + 4 >= 0 /\ index + 4 < 4 * capa

realloc(m, size) == [w \in 0..size-1 |-> IF w \in DOMAIN m THEN m[w] ELSE Plain(Garbage)]

\* Writing 4 bytes at -1 changes the low three of word 0.
write_mem(m, index, word) ==
  IF index >= 0 /\ index % 4 = 0 THEN [m EXCEPT ![index \div 4] = word]
  ELSE IF index < 0 THEN [m EXCEPT ![0].v = Garbage]
  ELSE [m EXCEPT ![index \div 4] = Plain(Garbage), ![(index \div 4) + 1].v = Garbage]

vm_signal(c) == [c EXCEPT !.vm_return = 1]

-----------------------------------------------------------------------------
(* vm_step, as what it makes of the machine and whether it returned 1      *)

Stop(c) == [c |-> c, go |-> FALSE]
Advance(c, op) == [c |-> [c EXCEPT !.EIP = @ + 1 + argcount(op)], go |-> TRUE]

jump(c, target) ==
  IF as_int(target) \in 0..text_end-1
    THEN [c |-> [c EXCEPT !.EIP = as_int(target)], go |-> TRUE]
    ELSE Stop(vm_signal(c))

vm_push(c, word) == [c EXCEPT !.mem = write_mem(@, c.SP, word), !.SP = @ + 4]

\* A program that pops or returns below the start of the stack reads the
\* argument strings or its own text, one that pops off the words' bounds a
\* mixture of two: the model does not follow it there.
StackStart == 4 * (base + EnvWords)
strays(c) == c.SP - 4 < StackStart \/ c.SP % 4 # 0
lose(c) == [c EXCEPT !.lost = TRUE]

\* The arms of the switch, each for its opcode.
litToReg(c) == Advance([c EXCEPT !.AX = c.mem[c.EIP + 2]], LITTOREG)

pushReg(c) ==
  IF canwrite(c.SP) THEN Advance(vm_push(c, c.AX), PUSHREG) ELSE Stop(vm_signal(c))

popReg(c) ==
  IF c.SP < 4 THEN Stop(vm_signal(c))
  ELSE IF strays(c) THEN Stop(lose(c))
  ELSE Advance([c EXCEPT !.SP = @ - 4, !.AX = c.mem[(c.SP - 4) \div 4]], POPREG)

call(c) ==
  IF canwrite(c.SP) THEN jump(vm_push(c, Plain(c.EIP + 2)), c.AX) ELSE Stop(vm_signal(c))

ret(c) ==
  IF strays(c) THEN Stop(lose(c))
  ELSE jump([c EXCEPT !.SP = @ - 4], c.mem[(c.SP - 4) \div 4])

\* Steps the opcode instead of the pointer.
notImplemented(c, op) == Advance([c EXCEPT !.mem[c.EIP].v = @ + argcount(op)], op)

Execute(c, op) ==
  CASE op = 0 -> Stop(c)
    [] op = LINENUM -> Advance(c, op)
    [] op = LITTOREG -> litToReg(c)
    [] op = PUSHREG -> pushReg(c)
    [] op = POPREG -> popReg(c)
    [] op = JMP -> jump(c, c.mem[c.EIP + 1])
    [] op = CALL -> call(c)
    [] op = RET -> ret(c)
    [] op \in NotImplemented -> notImplemented(c, op)
    [] OTHER -> Stop(vm_signal(c))

vm_step(c) ==
  LET word == c.mem[c.EIP]
  IN IF word.v \notin 0..SCMD_MAX-1 THEN Stop(vm_signal(c))
     ELSE IF word.once THEN Stop([c EXCEPT !.mem[c.EIP].once = FALSE])
     ELSE IF word.bp THEN Stop(c)
     ELSE Execute(c, word.v)

get_next_ip(c) == c.EIP + 1 + argcount(c.mem[c.EIP].v)

\* A step of the instruction at the instruction pointer with its breakpoint
\* taken off and put back.
StepOverBreakpoint(c) ==
  LET s == vm_step([c EXCEPT !.mem[c.EIP].bp = FALSE]).c
  IN IF c.mem[c.EIP].bp THEN [s EXCEPT !.mem[c.EIP].bp = TRUE] ELSE s

\* The same when the breakpoint is put back at the new instruction pointer.
StepMovesBreakpoint(c) ==
  LET s == vm_step([c EXCEPT !.mem[c.EIP].bp = FALSE]).c
  IN IF c.mem[c.EIP].bp THEN [s EXCEPT !.mem[s.EIP].bp = TRUE] ELSE s

toggled_step(c) == StepOverBreakpoint(c)

-----------------------------------------------------------------------------
(* The text segment                                                        *)

\* append_code: the words, and a NULL instruction behind them.
appended(m, at, code) ==
  [w \in DOMAIN m |->
     IF w \in at..(at + Len(code) - 1) THEN Plain(code[w - at + 1])
     ELSE IF w = at + Len(code) THEN Plain(0) ELSE m[w]]

Init ==
  /\ capa = ALIGN(8) /\ ltext = 0 /\ lstack = 0 /\ base = 0
  /\ vm = [mem |-> [w \in 0..capa-1 |-> Plain(IF w = 0 THEN 0 ELSE Garbage)],
           EIP |-> 0, SP |-> -1, AX |-> Plain(Unresolved), vm_return |-> 0, lost |-> FALSE]
  /\ label_map = <<>> /\ label_refs = {}
  /\ pc = "input"
  /\ prog = <<>> /\ starts = {} /\ bps = {}
  /\ misuse = {} /\ lines = 0 /\ commands = 0

-----------------------------------------------------------------------------
(* Source lines                                                            *)

ReadLine ==
  /\ pc = "input" /\ lines < MaxLines
  /\ lines' = lines + 1
  /\ UNCHANGED <<pc, bps, commands, lstack, base>>

\* One append_code: when there is no room the line is dropped from there on.
Append1(s, code) ==
  LET need == s.ltext + Len(code) + 1 + 4
      fits == need <= s.capa - lstack
      size == IF fits THEN s.capa ELSE ALIGN(need)
  IN IF ~s.ok \/ (~fits /\ lstack > 0) THEN [s EXCEPT !.ok = FALSE]
     ELSE [ok |-> TRUE,
           capa |-> size,
           mem |-> appended(realloc(s.mem, size), s.ltext, code),
           ltext |-> s.ltext + Len(code),
           prog |-> s.prog \o code]

\* The parts of a line reach append_code one after the other: what there is
\* after each of them.
Appends(parts) ==
  LET after[n \in 0..Len(parts)] ==
        IF n = 0
          THEN [ok |-> TRUE, capa |-> capa, mem |-> vm.mem, ltext |-> ltext, prog |-> prog]
          ELSE Append1(after[n - 1], parts[n])
  IN after

\* A line of these parts; `at` are the offsets of its instructions in it.
\* MaxMem keeps room for the stack.
Enter(parts, at) ==
  LET s == Appends(parts)[Len(parts)]
  IN /\ s.capa + StackWords - lstack <= MaxMem
     /\ vm' = [vm EXCEPT !.mem = s.mem]
     /\ ltext' = s.ltext /\ capa' = s.capa /\ prog' = s.prog
     /\ starts' = starts \cup {ltext + a : a \in {a \in at : ltext + a < s.ltext}}
     /\ misuse' = IF s.ok THEN misuse ELSE misuse \cup {"full"}

Instruction ==
  /\ ReadLine
  /\ \E code \in {<<LINENUM, 1>>, <<PUSHREG, AR_AX>>, <<POPREG, AR_AX>>,
                  <<CALL, AR_AX>>, <<RET>>, <<CALLEXT, AR_AX>>} :
       Enter(<<code>>, {0})
  /\ UNCHANGED <<label_map, label_refs>>

\* jmpi LABEL and li ax, LABEL: the reference is noted before the code is.
LabelInstruction(l) ==
  /\ ReadLine
  /\ \E head \in {<<JMP>>, <<LITTOREG, AR_AX>>} :
       LET known == l \in DOMAIN label_map
       IN /\ Enter(<<Append(head, IF known THEN label_map[l] ELSE Unresolved)>>, {0})
          /\ label_refs' = IF known THEN label_refs
                           ELSE label_refs \cup {[name |-> l, off |-> ltext + Len(head)]}
  /\ UNCHANGED label_map

\* A jump that forgets the words of the string are rounded up.
StringInstructionShort(n) ==
  /\ ReadLine
  /\ Enter(<<<<JMP, ltext + 1 + n>>>> \o [k \in 1..n |-> <<Garbage>>]
             \o <<<<LITTOREG, AR_AX, ltext + 2>>>>, {0, 2 + n})
  /\ UNCHANGED <<label_map, label_refs>>

\* li ax, "string": a jump over the string's words, the words, the instruction.
StringInstruction(n) ==
  /\ ReadLine
  /\ Enter(<<<<JMP, ltext + 2 + n>>>> \o [k \in 1..n |-> <<Garbage>>]
             \o <<<<LITTOREG, AR_AX, ltext + 2>>>>, {0, 2 + n})
  /\ UNCHANGED <<label_map, label_refs>>

StringLine == \E n \in 1..2 : StringInstruction(n)

\* resolve_label patches every operand that waits for the label, then the
\* label gets its offset; an older one of the name is overwritten.
resolve_label(m, l) ==
  [w \in DOMAIN m |->
     IF [name |-> l, off |-> w] \in label_refs THEN Plain(ltext) ELSE m[w]]

\* Patching only the first of them.
resolve_first(m, l) ==
  LET refs == {r \in label_refs : r.name = l}
  IN [w \in DOMAIN m |->
        IF \E r \in refs : r.off = w /\ \A q \in refs : r.off <= q.off
          THEN Plain(ltext) ELSE m[w]]

Resolved(m, l) == resolve_label(m, l)

LeftRefs(l) == {r \in label_refs : r.name # l}

\* Keeping the reference that was just patched.
LeftAllRefs(l) == label_refs

Remaining(l) == LeftRefs(l)

Label(l) ==
  /\ ReadLine
  /\ vm' = [vm EXCEPT !.mem = Resolved(@, l)]
  /\ label_refs' = Remaining(l)
  /\ label_map' = [k \in DOMAIN label_map \cup {l} |->
                     IF k = l THEN ltext ELSE label_map[k]]
  /\ prog' = [w \in 1..Len(prog) |->
                IF [name |-> l, off |-> w - 1] \in label_refs THEN ltext ELSE prog[w]]
  /\ UNCHANGED <<capa, ltext, starts, misuse>>

-----------------------------------------------------------------------------
(* Commands                                                                *)

\* execute_user_command allocates the stack and puts the arguments on it: at
\* text_end, the page after the code there is now.
ready == lstack > 0

WithStack ==
  LET at == text_end
      m == realloc(vm.mem, capa + StackWords)
  IN [vm EXCEPT !.mem = [w \in DOMAIN m |->
                           IF w \in at..(at + EnvWords - 1)
                             THEN Plain(IF w < at + EnvWords - 2 THEN Garbage ELSE 0)
                             ELSE m[w]],
                !.SP = 4 * (at + EnvWords)]

label_check == label_refs = {}

Command ==
  /\ pc = "input" /\ commands < MaxCommands
  /\ commands' = commands + 1
  /\ UNCHANGED <<capa, ltext, lstack, base, label_map, label_refs, prog, starts, lines>>

\* The first command, whatever it is, sets the stack up before it is carried out.
InitStack ==
  /\ pc = "input" /\ ~ready
  /\ vm' = WithStack
  /\ lstack' = StackWords /\ base' = text_end
  /\ capa' = capa + StackWords
  /\ misuse' = IF capa = text_end THEN misuse ELSE misuse \cup {"overlap"}
  /\ UNCHANGED <<ltext, label_map, label_refs, pc, prog, starts, bps,
                 lines, commands>>

\* What a step of the machine adds to the misuses.
Misuses(c) ==
  LET op == c.mem[c.EIP].v
      top == c.mem[(c.SP - 4) \div 4]
  IN misuse \cup {what \in {"unimplemented", "reset", "wild"} :
       \/ what = "unimplemented" /\ op \in NotImplemented
       \/ what = "reset" /\ op \in {PUSHREG, CALL} /\ c.SP < 0
       \/ what = "wild" /\ op = CALL /\ as_int(c.AX) \notin starts \cup {ltext}
       \/ what = "wild" /\ op = RET /\ c.SP >= StackStart + 4
            /\ as_int(top) \notin starts \cup {ltext}}

\* !s
Step ==
  /\ ready /\ Command
  /\ IF label_check
       THEN /\ vm' = toggled_step(vm)
            /\ misuse' = Misuses(vm)
            /\ pc' = IF vm'.lost THEN "exit" ELSE "input"
       ELSE UNCHANGED <<vm, misuse, pc>>
  /\ UNCHANGED bps

\* !b: an instruction of the program or the end of it, by label or number.
Breakpoint(addr) ==
  /\ ready
  /\ addr < text_end
  /\ Command
  /\ vm' = [vm EXCEPT !.mem[addr].bp = TRUE]
  /\ bps' = IF addr < ltext THEN bps \cup {addr} ELSE bps
  /\ UNCHANGED <<pc, misuse>>

\* !r, !t and, with a mark on the next instruction, !n: when the instruction
\* pointer stands on a breakpoint that instruction goes first; label_check
\* comes after it.
Resume(c) ==
  LET s == IF c.mem[c.EIP].bp THEN toggled_step(c) ELSE c
  IN /\ Command
     /\ vm' = s
     /\ misuse' = IF c.mem[c.EIP].bp THEN Misuses(c) ELSE misuse
     /\ pc' = IF s.lost THEN "exit" ELSE IF label_check THEN "run" ELSE "input"
     /\ UNCHANGED bps

Run == ready /\ Resume(vm)
StepOver == ready /\ Resume([vm EXCEPT !.mem[get_next_ip(vm)].once = TRUE])

\* The loop of vm_run and vm_trace.
RunStep ==
  /\ pc = "run"
  /\ LET s == vm_step(vm)
     IN /\ vm' = s.c
        /\ pc' = IF s.c.lost THEN "exit"
                 ELSE IF ~s.go \/ s.c.vm_return # 0 THEN "input" ELSE "run"
        /\ misuse' = Misuses(vm)
  /\ UNCHANGED <<capa, ltext, lstack, base, label_map, label_refs, prog,
                 starts, bps, lines, commands>>

\* !i is vm_init: the registers are -1 again, the stack pointer with them, and
\* execution starts over; vm_return and the memory stay.
Reset ==
  /\ ready /\ Command
  /\ vm' = [vm EXCEPT !.EIP = 0, !.SP = -1, !.AX = Plain(Unresolved)]
  /\ UNCHANGED <<pc, bps, misuse>>

Next ==
  \/ Instruction
  \/ \E l \in Labels : LabelInstruction(l) \/ Label(l)
  \/ StringLine
  \/ InitStack
  \/ Step \/ Run \/ StepOver \/ RunStep \/ Reset
  \/ \E addr \in starts \cup {ltext} : Breakpoint(addr)

Spec == Init /\ [][Next]_vars

-----------------------------------------------------------------------------
(* Properties                                                              *)

\* The registers and the memory hold values of their kind, and the stack
\* pointer does not pass the end of memory.
TypeOK ==
  /\ DOMAIN vm.mem = 0..capa-1
  /\ \A w \in 0..capa-1 : vm.mem[w] \in [v : Int, bp : BOOLEAN, once : BOOLEAN]
  /\ vm.EIP \in 0..capa-1
  /\ vm.SP \in -4..4 * capa - 1
  /\ vm.vm_return \in {0, 1}
  /\ capa \in 0..MaxMem /\ lstack \in {0, StackWords}
  /\ pc \in {"input", "run", "exit"}

\* What runs is the program that was typed: breakpoints, step-over marks,
\* label patches and stack traffic leave each of its words what the source says.
CodeKept ==
  misuse = {} => /\ ltext = Len(prog)
                 /\ \A w \in 0..ltext-1 : vm.mem[w].v = prog[w + 1]

\* The operands without an address are those on the list of references, and a
\* name is on that list only while it is not defined.
RefsWait ==
  misuse = {} =>
    /\ \A r \in label_refs : r.off < ltext /\ r.name \notin DOMAIN label_map
    /\ {w \in 0..ltext-1 : vm.mem[w].v = Unresolved} = {r.off : r \in label_refs}

\* A breakpoint set on an instruction stays there, over steps, runs, resumption
\* at it, resets and the code that is typed after it.
BreakpointsStay == misuse = {} => \A b \in bps : vm.mem[b].bp

\* Execution never leaves the instructions of the program: not into an operand,
\* the words of a string or the memory behind.
RunsInstructions == misuse = {} => vm.EIP \in starts \cup {ltext}

=============================================================================
