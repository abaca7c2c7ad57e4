---------------------------- MODULE Disassembler ----------------------------
(***************************************************************************)
(* Script.c: an object file becomes a listing.  The data section is cut    *)
(* into variables whose sizes are guessed from the code that uses them;    *)
(* the code is walked once, with one cursor each into the exports, the     *)
(* sorted jump targets and the fixups, which must therefore come in the    *)
(* order of the code.                                                      *)
(***************************************************************************)
EXTENDS ScriptFormat, StringEscape, FiniteSetsExt

CONSTANTS
  StringSize,
  EscapeSize   \* bytes of escapebuf, 4096 in the code

VARIABLES
  obj,       \* the object file
  listing,   \* the file written
  ds         \* the position: dpc "idle", "data", "code", "done" or "abort"

DisInit ==
  /\ listing = [data |-> <<>>, text |-> <<>>]
  /\ ds = [dpc |-> "idle", offset |-> 0, currInstr |-> 0,
           currExp |-> 1, currFixup |-> 1, currLbl |-> 1, lbl |-> <<>>]

Start ==
  /\ listing' = [data |-> <<>>, text |-> <<>>]
  /\ ds' = [dpc |-> "data", offset |-> 0, currInstr |-> 0,
            currExp |-> 1, currFixup |-> 1, currLbl |-> 1, lbl |-> <<>>]
  /\ UNCHANGED obj

CrashDisassembler == ds' = [ds EXCEPT !.dpc = "abort"] /\ UNCHANGED <<listing, obj>>

codesize == Len(obj.code)
size == Len(obj.data)

-----------------------------------------------------------------------------
(* dump_globaldata                                                         *)

byte(i) == At(obj.data, i)
ReadInt(i) == byte(i) + 256 * byte(i+1) + 256 * 256 * byte(i+2) + 256 * 256 * 256 * byte(i+3)

FixupsOf(type) == {f.offset : f \in {f \in ToSet(obj.fixups) : f.type = type}}
has_datadata_fixup(i) == i \in FixupsOf(FIXUP_DATADATA)

exported_at(i) ==
  {k \in DOMAIN obj.exports : obj.exports[k].type = EXPORT_DATA /\ obj.exports[k].instr = i}
get_varname(i) ==
  IF exported_at(i) = {} THEN <<"var", i>> ELSE obj.exports[Min(exported_at(i))].name

\* The operands that hold the offset of a variable, and the sizes with which the
\* instructions after them use it.
refs(i) == {w \in FixupsOf(FIXUP_GLOBALDATA) : At(obj.code, w) = i}
used_sizes(i) == {get_varsize_from_instr(At(obj.code, w + 1))  :
                    w \in {w \in refs(i) : w + 1 < codesize}} \ {0}

\* Two assertions of find_fixup_for_globaldata: an instruction follows, and the
\* uses agree.
guess_fails(i) ==
  ~has_datadata_fixup(i) /\ (\/ \E w \in refs(i) : w + 1 >= codesize
                             \/ Cardinality(used_sizes(i)) > 1)

\* get_varinfo_from_code; 0 when the size is unknown.
varsize(i) ==
  IF has_datadata_fixup(i) THEN 4
  ELSE IF used_sizes(i) # {} THEN CHOOSE s \in used_sizes(i) : TRUE
  ELSE IF has_datadata_fixup(i + StringSize) THEN StringSize ELSE 0

numrefs(i) == IF has_datadata_fixup(i) THEN 0 ELSE Cardinality(refs(i))

\* A string is zeros before a pointer to them.
is_str(i) ==
  /\ i + StringSize + 4 <= size
  /\ \A j \in i..(i + StringSize - 1) : byte(j) = 0
  /\ ReadInt(i + StringSize) = i

sized(i) == IF varsize(i) = 0 /\ exported_at(i) # {} THEN 1 ELSE varsize(i)
guessed(i) == IF sized(i) = StringSize /\ ~is_str(i) THEN 0 ELSE sized(i)

\* A zero byte nothing refers to takes the zeros behind it along, up to the first
\* byte with a size or a name.  The references of those bytes are not looked at:
\* the code tests numrefs of the first byte.
stops_run(j) == varsize(j) # 0 \/ exported_at(j) # {} \/ byte(j) # 0
run_end(i) == Min({j \in i+1..size : j = size \/ stops_run(j)})

\* A run that ends one byte late.
run_end_late(i) == Min({size, run_end(i) + 1})

zeros_end(i) == run_end(i)

DumpVariable ==
  /\ ds.dpc = "data" /\ ds.offset < size
  /\ LET i == ds.offset
         run == guessed(i) = 0 /\ numrefs(i) = 0 /\ byte(i) = 0
         n == IF run THEN zeros_end(i) - i ELSE IF guessed(i) = 0 THEN 1 ELSE guessed(i)
         x == IF is_str(i) /\ guessed(i) = StringSize THEN 0
              ELSE IF guessed(i) = 4 THEN ReadInt(i) ELSE byte(i)
         looked_at == {i} \cup (IF run THEN i+1..Min({i + n, size - 1}) ELSE {})
     IN IF \E j \in looked_at : guess_fails(j) THEN CrashDisassembler
        ELSE /\ listing' = [listing EXCEPT !.data =
                  Append(@, Variable(exported_at(i) # {}, n, get_varname(i),
                                     has_datadata_fixup(i), x))]
             /\ ds' = [ds EXCEPT !.offset = i + n]
             /\ UNCHANGED obj

-----------------------------------------------------------------------------
(* get_labels                                                              *)

targets ==
  LET jumps == {i \in InstructionStarts(obj.code) : At(obj.code, i) = JMP}
  IN [i \in jumps |-> i + 2 + At(obj.code, i + 1)]

\* abort() when a jump leaves the code or lands on a word above the opcodes.
get_labels ==
  /\ ds.dpc = "data" /\ ds.offset >= size
  /\ IF codesize = 0 THEN ds' = [ds EXCEPT !.dpc = "done"] /\ UNCHANGED <<listing, obj>>
     ELSE IF \E i \in DOMAIN targets : \/ targets[i] \notin 0..codesize-1
                                       \/ At(obj.code, targets[i]) > SCMD_MAX
       THEN CrashDisassembler
     ELSE /\ ds' = [ds EXCEPT !.dpc = "code",
                              !.lbl = SetToSortSeq({targets[i] : i \in DOMAIN targets}, <)]
          /\ UNCHANGED <<listing, obj>>

-----------------------------------------------------------------------------
(* disassemble_code_and_data                                               *)

\* The first element from k on that is not of the kind to skip, or Len + 1.
skip(s, k, type) == Min({j \in k..Len(s) : s[j].type # type} \cup {Len(s) + 1})

\* A fixup is taken when it belongs to the operand that is printed.
cursor_at(k, insno) == k <= Len(obj.fixups) /\ obj.fixups[k].offset = insno

function_at(insn) ==
  LET found == {k \in DOMAIN obj.exports : obj.exports[k].type = EXPORT_FUNCTION
                                            /\ obj.exports[k].instr = insn}
  IN IF found = {} THEN NoName ELSE obj.exports[Min(found)].name

string_at(insn) ==
  LET found == {k \in DOMAIN obj.strings : obj.strings[k].offset = insn}
  IN obj.strings[CHOOSE k \in found : TRUE].str

Operand(type, insn) ==
  CASE type = FIXUP_IMPORT -> <<"sym">> \o At(obj.imports, insn)
    [] type = FIXUP_FUNCTION -> <<"sym">> \o function_at(insn)
    [] type = FIXUP_GLOBALDATA -> <<"var">> \o get_varname(insn)
    [] type = FIXUP_STACK -> <<"stack with blanks", "", insn>>
    [] type = FIXUP_STRING -> <<"str", escape(string_at(insn), EscapeSize), 0>>

Reg(r) == <<"reg", "", r>>

\* A jump is relative to the instruction after it.
jump_target(insno, insn) == insno + 1 + insn

\* The same relative to the operand.
jump_target_operand(insno, insn) == insno + insn

jumped_to(insno, insn) == jump_target(insno, insn)

\* The operand at insno, and where the cursor is then.
immediate(op, insno) ==
  LET insn == At(obj.code, insno)
      k == skip(obj.fixups, ds.currFixup, FIXUP_DATADATA)
  IN IF cursor_at(k, insno) THEN <<Operand(obj.fixups[k].type, insn), k + 1>>
     ELSE <<IF op = JMP THEN <<"sym", "label", jumped_to(insno, insn)>> ELSE <<"num", "", insn>>, k>>

DisassembleInstruction ==
  /\ ds.dpc = "code" /\ ds.currInstr < codesize
  /\ LET at == ds.currInstr
         op == At(obj.code, at)
         e == Min({j \in ds.currExp..Len(obj.exports) : obj.exports[j].type = EXPORT_FUNCTION}
                  \cup {Len(obj.exports) + 1})
         function == e <= Len(obj.exports) /\ obj.exports[e].instr = at
         label == ds.currLbl <= Len(ds.lbl) /\ ds.lbl[ds.currLbl] = at
         imm == argcount(op) > regcount(op)
         operand == immediate(op, at + argcount(op))
         registers == IF op = REGTOREG
                        THEN <<Reg(At(obj.code, at + 2)), Reg(At(obj.code, at + 1))>>
                        ELSE [k \in 1..regcount(op) |-> Reg(At(obj.code, at + k))]
     IN /\ listing' = [listing EXCEPT !.text =
             @ \o (IF function THEN <<Line(DEFINITION, <<<<"sym">> \o obj.exports[e].name>>)>>
                   ELSE <<>>)
               \o (IF label THEN <<Line(DEFINITION, <<<<"sym", "label", at>>>>)>> ELSE <<>>)
               \o <<Line(op, IF imm THEN Append(registers, operand[1]) ELSE registers)>>]
        /\ ds' = [ds EXCEPT !.currInstr = at + 1 + argcount(op),
                            !.currExp = IF function THEN e + 1 ELSE e,
                            !.currLbl = IF label THEN @ + 1 ELSE @,
                            !.currFixup = IF imm THEN operand[2] ELSE @]
        /\ UNCHANGED obj

FinishListing ==
  /\ ds.dpc = "code" /\ ds.currInstr >= codesize
  /\ ds' = [ds EXCEPT !.dpc = "done"]
  /\ UNCHANGED <<listing, obj>>

DisNext == DumpVariable \/ get_labels \/ DisassembleInstruction \/ FinishListing
=============================================================================
