---------------------------- MODULE ScriptFormat ----------------------------
(***************************************************************************)
(* What the assembler and the disassembler share: the instructions the two *)
(* models use, the kinds of fixups and exports of a compiled script, and   *)
(* the shape of a line of assembly.                                        *)
(*                                                                         *)
(* A name is a pair <<word, number>>, so that the names the disassembler   *)
(* makes up, label000000000012 or var000004, are <<"label", 12>> and       *)
(* <<"var", 4>>.  An operand is <<kind, word, number>>.                    *)
(***************************************************************************)
EXTENDS Integers, Sequences, SequencesExt

REGTOREG == 3
RET == 5
LITTOREG == 6
MEMREAD == 7
MEMREADB == 24
JMP == 31
THISBASE == 38
SCMD_MAX == 74
DEFINITION == 99  \* of a line, not of an instruction: "name:"

Instructions == {REGTOREG, RET, LITTOREG, MEMREAD, MEMREADB, JMP, THISBASE}

argcount(op) == IF op = RET THEN 0 ELSE IF op \in {REGTOREG, LITTOREG} THEN 2 ELSE 1
regcount(op) == IF op = REGTOREG THEN 2
                ELSE IF op \in {LITTOREG, MEMREAD, MEMREADB} THEN 1 ELSE 0

\* Bytes a load or a store moves, 0 for the other instructions.
get_varsize_from_instr(op) == IF op = MEMREADB THEN 1 ELSE IF op = MEMREAD THEN 4 ELSE 0

EXPORT_FUNCTION == 1
EXPORT_DATA == 2

FIXUP_GLOBALDATA == 1
FIXUP_FUNCTION == 2
FIXUP_STRING == 3
FIXUP_IMPORT == 4
FIXUP_DATADATA == 5
FIXUP_STACK == 6

Line(op, args) == [op |-> op, args |-> args]
Variable(export, size, name, rel, value) ==
  [export |-> export, size |-> size, name |-> name, rel |-> rel, value |-> value]

NameOf(operand) == <<operand[2], operand[3]>>
IsLabel(name) == name[1] = "label"

\* Indexes of a sequence, in the order of the code: the first is 0.
At(s, i) == s[i + 1]

\* Where the instructions from word i on start; the last may be cut off.
StartsFrom(code) ==
  LET from[i \in 0..Len(code) + 2] ==
        IF i >= Len(code) THEN {} ELSE {i} \cup from[i + 1 + argcount(At(code, i))]
  IN from

InstructionStarts(code) == StartsFrom(code)[0]

NoName == <<"", 0>>
EmptyObject == [data |-> <<>>, code |-> <<>>, strings |-> <<>>, fixups |-> <<>>,
                imports |-> <<>>, exports |-> <<>>]
=============================================================================
