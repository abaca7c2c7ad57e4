----------------------------- MODULE Assembler -----------------------------
(***************************************************************************)
(* Assembler.c: a source file becomes an object file.  The data section is *)
(* read first, then the text section; operands that name a label or a      *)
(* function are noted and patched when the text has been read, because     *)
(* their definition may follow.  An assertion that fails, or an exit,      *)
(* leaves no object file: pc = "abort".                                    *)
(***************************************************************************)
EXTENDS ScriptFormat, StringEscape, ByteArray

CONSTANTS
  LineRoom,    \* characters of a string that fit a line of the source: fgets
               \* reads 1023, of which li ax and the quotes leave 1013
  StringSize   \* bytes of a variable of type string, 200 in the code

VARIABLES
  as,    \* struct AgsAssembler
  pc,    \* "data", "text", "labels", "functions", "done", "abort"
  file,  \* the lines read so far
  obj    \* the object file

\* AS_open_stream
Empty ==
  [data |-> ByteArray_open_mem, code |-> ByteArray_open_mem, label_map |-> <<>>, label_refs |-> <<>>,
   function_refs |-> <<>>, exports |-> <<>>, fixups |-> <<>>, strings |-> <<>>,
   string_section_length |-> 0, variables |-> <<>>, imports |-> <<>>]

AsmInit == /\ as = Empty /\ pc = "data" /\ obj = EmptyObject
           /\ file = [data |-> <<>>, text |-> <<>>]

Abort == pc' = "abort" /\ UNCHANGED <<as, obj>>

Fixup(type, offset) == [type |-> type, offset |-> offset]
Ref(name, insno) == [name |-> name, insno |-> insno]

Exported(name) == \E k \in DOMAIN as.exports : as.exports[k].name = name

\* add_export asserts that the name is new.
with_export(type, name, instr) ==
  Append(as.exports, [name |-> name, type |-> type, instr |-> instr])

-----------------------------------------------------------------------------
(* asm_data                                                                *)

Zeros(n) == [k \in 1..n |-> 0]

LittleEndian(value, size) == [k \in 1..size |-> (value \div 256^(k - 1)) % 256]

\* A variable whose size is not 1, 2 or 4 is written as zeros: by tens, then one
\* by one.
writes(l) ==
  IF l.size \in {1, 2, 4} THEN <<LittleEndian(l.value, l.size)>>
  ELSE [k \in 1..(l.size \div 10) + (l.size % 10) |->
          Zeros(IF k <= l.size \div 10 THEN 10 ELSE 1)]

DataLine(l) ==
  LET data_pos == as.data.size
  IN /\ pc = "data"
     /\ file' = [file EXCEPT !.data = Append(@, l)]
     /\ IF l.export /\ Exported(l.name) THEN Abort
        ELSE /\ as' = [as EXCEPT
                  !.data = ByteArray_writeAll(@, writes(l)),
                  !.fixups = IF l.rel THEN Append(@, Fixup(FIXUP_DATADATA, data_pos)) ELSE @,
                  !.exports = IF l.export THEN with_export(EXPORT_DATA, l.name, data_pos) ELSE @,
                  !.variables = Append(@, [name |-> l.name, offset |-> data_pos])]
             /\ UNCHANGED <<pc, obj>>

EndData == pc = "data" /\ pc' = "text" /\ UNCHANGED <<as, file, obj>>

-----------------------------------------------------------------------------
(* asm_text, first pass                                                    *)

\* The words written so far.
pos == as.code.size

ReadText(l) == pc = "text" /\ file' = [file EXCEPT !.text = Append(@, l)]

\* They are written one by one.
Emitted(words) == ByteArray_writeAll(as.code, [k \in 1..Len(words) |-> <<words[k]>>])

\* A symbol that does not begin with "label" starts a function and is exported.
\* The first definition of a label counts: htab_insert refuses the second.
Define(l) ==
  LET name == NameOf(l.args[1])
  IN /\ l.op = DEFINITION
     /\ ReadText(l)
     /\ IF IsLabel(name)
          THEN /\ as' = IF name \in DOMAIN as.label_map THEN as
                        ELSE [as EXCEPT !.label_map =
                                [k \in DOMAIN @ \cup {name} |-> IF k = name THEN pos ELSE @[k]]]
               /\ UNCHANGED <<pc, obj>>
        ELSE IF Exported(name) THEN Abort
        ELSE /\ as' = [as EXCEPT !.exports = with_export(EXPORT_FUNCTION, name, pos),
                                 !.code = Emitted(<<THISBASE, pos>>)]
             /\ UNCHANGED <<pc, obj>>

\* thisaddr is emitted when a function starts, and skipped in the source.
SkipThisbase(l) == l.op = THISBASE /\ ReadText(l) /\ UNCHANGED <<as, pc, obj>>

\* The instruction word and the registers; of mr the source comes first in the
\* object, and second in the text.
RegisterWords(l) ==
  <<l.op>> \o (IF l.op = REGTOREG THEN <<l.args[2][3], l.args[1][3]>>
               ELSE [k \in 1..regcount(l.op) |-> l.args[k][3]])

Registers(l) ==
  /\ l.op \in Instructions \ {THISBASE} /\ argcount(l.op) = regcount(l.op)
  /\ ReadText(l)
  /\ as' = [as EXCEPT !.code = Emitted(RegisterWords(l))]
  /\ UNCHANGED <<pc, obj>>

\* An instruction with an immediate operand of a kind.
Immediate(l, kind) == argcount(l.op) > regcount(l.op) /\ Last(l.args)[1] = kind
place_after_op(l) == pos + argcount(l.op)

\* The place behind the last operand.
place_after_operand(l) == pos + argcount(l.op) + 1

operand_at(l) == place_after_op(l)

LoadNumber(l) ==
  /\ l.op = LITTOREG /\ Immediate(l, "num")
  /\ ReadText(l)
  /\ as' = [as EXCEPT !.code = Emitted(RegisterWords(l) \o <<Last(l.args)[3]>>)]
  /\ UNCHANGED <<pc, obj>>

\* Bytes of a string in the object.
string_bytes(s) == Len(s) + 1

\* The same without the 0 at the end.
string_chars(s) == Len(s)

string_space(s) == string_bytes(s)

\* add_or_get_string__offset
StringOffsets(s) == {as.strings[k].offset : k \in {k \in DOMAIN as.strings : as.strings[k].str = s}}

\* A longer line is read in parts, the first of which does not end in a quote, or
\* in one that has lost its backslash.
StringRead(text) == Len(text) <= LineRoom /\ unescape(text).ok

LoadString(l) ==
  LET text == Last(l.args)[2]
      s == unescape(text).text
      known == StringOffsets(s) # {}
      o == IF known THEN CHOOSE x \in StringOffsets(s) : TRUE ELSE as.string_section_length
  IN /\ l.op = LITTOREG /\ Immediate(l, "str")
     /\ ReadText(l)
     /\ IF ~StringRead(text) THEN Abort
        ELSE /\ as' = [as EXCEPT
                  !.code = Emitted(RegisterWords(l) \o <<o>>),
                  !.fixups = Append(@, Fixup(FIXUP_STRING, operand_at(l))),
                  !.strings = IF known THEN @ ELSE Append(@, [str |-> s, offset |-> o]),
                  !.string_section_length = IF known THEN @ ELSE @ + string_space(s)]
             /\ UNCHANGED <<pc, obj>>

\* get_variable_offset: the first variable of the name.
LoadVariable(l) ==
  LET found == {k \in DOMAIN as.variables : as.variables[k].name = NameOf(Last(l.args))}
      first == CHOOSE k \in found : \A j \in found : k <= j
  IN /\ l.op = LITTOREG /\ Immediate(l, "var")
     /\ ReadText(l)
     /\ IF found = {} THEN Abort
        ELSE /\ as' = [as EXCEPT
                  !.code = Emitted(RegisterWords(l) \o <<as.variables[first].offset>>),
                  !.fixups = Append(@, Fixup(FIXUP_GLOBALDATA, operand_at(l)))]
             /\ UNCHANGED <<pc, obj>>

\* .stack+n; finalize_arg ends an operand at the first blank, so that of
\* ".stack + n" only ".stack" is left, which fails the assertion that + follows.
LoadStack(l) ==
  /\ l.op = LITTOREG
  /\ ReadText(l)
  /\ \/ /\ Immediate(l, "stack")
        /\ as' = [as EXCEPT !.code = Emitted(RegisterWords(l) \o <<Last(l.args)[3]>>),
                            !.fixups = Append(@, Fixup(FIXUP_STACK, operand_at(l)))]
        /\ UNCHANGED <<pc, obj>>
     \/ Immediate(l, "stack with blanks") /\ Abort

\* Any other immediate of li is the name of a function, of this script or not.
LoadFunction(l) ==
  /\ l.op = LITTOREG /\ Immediate(l, "sym")
  /\ ReadText(l)
  /\ as' = [as EXCEPT !.code = Emitted(RegisterWords(l) \o <<0>>),
                      !.function_refs = Append(@, Ref(NameOf(Last(l.args)), operand_at(l)))]
  /\ UNCHANGED <<pc, obj>>

Jump(l) ==
  /\ l.op = JMP
  /\ ReadText(l)
  /\ as' = [as EXCEPT !.code = Emitted(RegisterWords(l) \o <<0>>),
                      !.label_refs = Append(@, Ref(NameOf(Last(l.args)), operand_at(l)))]
  /\ UNCHANGED <<pc, obj>>

TextLine(l) ==
  \/ Define(l) \/ SkipThisbase(l) \/ Registers(l)
  \/ LoadNumber(l) \/ LoadString(l) \/ LoadVariable(l) \/ LoadStack(l) \/ LoadFunction(l)
  \/ Jump(l)

EndText == pc = "text" /\ pc' = "labels" /\ UNCHANGED <<as, file, obj>>

-----------------------------------------------------------------------------
(* asm_text, when every line is read                                       *)

PutWord(insno, value) ==
  ByteArray_writeMem(ByteArray_set_position(as.code, insno), <<value>>)

\* A jump is relative to the instruction after it.
label_insno(lbl, insno) == lbl - (insno + 1)

\* The same relative to the operand.
label_insno_operand(lbl, insno) == lbl - insno

relative(lbl, insno) == label_insno(lbl, insno)

\* get_label_offset exits when the label is missing; a label behind the last
\* instruction fails an assertion.
PatchLabel ==
  /\ pc = "labels" /\ as.label_refs # <<>>
  /\ LET item == Head(as.label_refs)
     IN IF item.name \notin DOMAIN as.label_map \/ as.label_map[item.name] >= pos THEN Abort
        ELSE /\ as' = [as EXCEPT
                  !.code = PutWord(item.insno, relative(as.label_map[item.name], item.insno)),
                  !.label_refs = Tail(@)]
             /\ UNCHANGED <<pc, obj>>
  /\ UNCHANGED file

\* find_export asserts that the export of that name is a function.
ExportedAs(type, name) ==
  \E k \in DOMAIN as.exports : as.exports[k].name = name /\ as.exports[k].type = type

\* An import of every name, those this script exports too.
imported_always(imports, item) ==
  IF Contains(imports, item.name) THEN imports ELSE Append(imports, item.name)

\* add_import of every name no export has, once.
imported(imports, item) ==
  IF Exported(item.name) \/ Contains(imports, item.name) THEN imports
  ELSE Append(imports, item.name)

generate_import_table ==
  /\ pc = "labels" /\ as.label_refs = <<>>
  /\ IF \E k \in DOMAIN as.function_refs : ExportedAs(EXPORT_DATA, as.function_refs[k].name)
       THEN Abort
       ELSE /\ as' = [as EXCEPT !.imports = FoldLeft(imported, @, as.function_refs)]
            /\ pc' = "functions"
            /\ UNCHANGED obj
  /\ UNCHANGED file

IndexOf(s, x) == (CHOOSE k \in DOMAIN s : s[k] = x) - 1
FunctionOf(name) ==
  as.exports[CHOOSE k \in DOMAIN as.exports : as.exports[k].name = name].instr

PatchFunction ==
  /\ pc = "functions" /\ as.function_refs # <<>>
  /\ LET item == Head(as.function_refs)
         import == Contains(as.imports, item.name)
     IN as' = [as EXCEPT
          !.code = PutWord(item.insno, IF import THEN IndexOf(as.imports, item.name)
                                       ELSE FunctionOf(item.name)),
          !.fixups = Append(@, Fixup(IF import THEN FIXUP_IMPORT ELSE FIXUP_FUNCTION, item.insno)),
          !.function_refs = Tail(@)]
  /\ UNCHANGED <<pc, file, obj>>

-----------------------------------------------------------------------------
(* write_object                                                            *)

\* The fixups of the data first, the others by offset.
fixup_before(f, g) ==
  IF (f.type = FIXUP_DATADATA) # (g.type = FIXUP_DATADATA) THEN f.type = FIXUP_DATADATA
  ELSE f.offset < g.offset

sort_fixup_list(fixups) == SetToSortSeq(ToSet(fixups), fixup_before)

Whole(ba) == ByteArray_get_mem(ba, 0, ba.size)
\* An array that is not empty is asserted to be there as a whole.
Asserted(ba) == ba.size > 0 => has_mem(ba, 0, ba.size)

\* An object file needs an import: "" when there is none.
write_object ==
  /\ pc = "functions" /\ as.function_refs = <<>>
  /\ IF ~Asserted(as.data) \/ ~Asserted(as.code) THEN Abort
     ELSE /\ obj' = [data |-> Whole(as.data), code |-> Whole(as.code), strings |-> as.strings,
                     fixups |-> sort_fixup_list(as.fixups),
                     imports |-> IF as.imports = <<>> THEN <<NoName>> ELSE as.imports,
                     exports |-> as.exports]
          /\ pc' = "done"
          /\ UNCHANGED as
  /\ UNCHANGED file

Finish == EndData \/ EndText \/ PatchLabel \/ generate_import_table \/ PatchFunction \/ write_object
=============================================================================
