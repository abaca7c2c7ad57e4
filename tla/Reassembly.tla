----------------------------- MODULE Reassembly -----------------------------
(***************************************************************************)
(* agssemble, agsdisas, agssemble: a source is assembled, its object is    *)
(* disassembled, and the listing is assembled again.                       *)
(***************************************************************************)
EXTENDS ByteArray, FiniteSets, SequencesExt

CONSTANTS
  LineRoom, EscapeSize, StringSize,
  DataLines, TextLines,  \* the lines a source may have
  MaxLines               \* bound: lines of a source

VARIABLES
  as, pc, file, obj,     \* Assembler
  listing, ds,           \* Disassembler
  pass,                  \* 1, or 2 when the listing is assembled
  source, first,         \* the source and the object of the first pass
  starts                 \* where the lines of its text begin in the code

vars == <<as, pc, file, obj, listing, ds, pass, source, first, starts>>

A == INSTANCE Assembler
D == INSTANCE Disassembler

ASSUME LinesAssumption ==
  /\ StringSize \in Nat
  /\ \A l \in DataLines : l.size \in Nat
  /\ \A l \in TextLines : l.op = A!DEFINITION => Len(l.args) = 1

NoText == [data |-> <<>>, text |-> <<>>]

Init ==
  /\ A!AsmInit /\ D!DisInit
  /\ pass = 1 /\ source = NoText /\ first = A!EmptyObject /\ starts = <<>>

\* Variables are accessed with their own size: a load behind li mar, @v loads as
\* many bytes as v has.
WellTyped(l) ==
  (/\ A!get_varsize_from_instr(l.op) > 0
   /\ as.fixups # <<>> /\ Last(as.fixups) = A!Fixup(A!FIXUP_GLOBALDATA, A!pos - 1))
    => \E k \in DOMAIN file.data :
         /\ as.variables[k].offset = Last(A!Whole(as.code))
         /\ file.data[k].size = A!get_varsize_from_instr(l.op)

\* A pointer into the data is one to the string before it, as compilers make them.
PointsToString(l) ==
  l.rel => /\ file.data # <<>> /\ Last(file.data).size = StringSize
           /\ l.value = as.data.size - StringSize

AssembleSource ==
  /\ pass = 1 /\ Len(file.data) + Len(file.text) < MaxLines
  /\ \/ \E l \in DataLines : PointsToString(l) /\ A!DataLine(l) /\ UNCHANGED starts
     \/ \E l \in TextLines : WellTyped(l) /\ A!TextLine(l) /\ starts' = Append(starts, A!pos)
  /\ source' = file'
  /\ UNCHANGED <<listing, ds, pass, first>>

AssembleListing ==
  /\ pass = 2
  /\ \/ /\ Len(file.data) < Len(listing.data)
        /\ A!DataLine(listing.data[Len(file.data) + 1])
     \/ /\ Len(file.text) < Len(listing.text)
        /\ A!TextLine(listing.text[Len(file.text) + 1])
  /\ UNCHANGED <<listing, ds, pass, source, first, starts>>

\* A section ends where the file does.
Finish ==
  /\ pass = 2 => /\ pc = "data" => Len(file.data) = Len(listing.data)
                 /\ pc = "text" => Len(file.text) = Len(listing.text)
  /\ A!Finish
  /\ UNCHANGED <<listing, ds, pass, source, first, starts>>

\* agsdisas opens the object that agssemble wrote.
OpenObject ==
  /\ pass = 1 /\ pc = "done" /\ ds.dpc = "idle"
  /\ D!Start
  /\ first' = obj
  /\ UNCHANGED <<as, pc, file, pass, source, starts>>

Disassemble == D!DisNext /\ UNCHANGED <<as, pc, file, pass, source, first, starts>>

\* agssemble opens the listing.
OpenListing ==
  /\ pass = 1 /\ ds.dpc = "done"
  /\ pass' = 2
  /\ as' = A!Empty /\ pc' = "data" /\ file' = NoText /\ obj' = A!EmptyObject
  /\ UNCHANGED <<listing, ds, source, first, starts>>

Next == AssembleSource \/ AssembleListing \/ Finish \/ OpenObject \/ Disassemble \/ OpenListing

Spec == Init /\ [][Next]_vars

-----------------------------------------------------------------------------
(* Properties                                                              *)

Words(o) == 0..Len(o.code) - 1

\* The arrays of the assembler lie inside their blocks.
BuffersInside == StreamInside(as.data) /\ StreamInside(as.code)

\* The tables of the assembler are made of what they hold, and refer to code
\* that is there.
TypeOK ==
  /\ pc \in {"data", "text", "labels", "functions", "done", "abort"}
  /\ ds.dpc \in {"idle", "data", "code", "done", "abort"}
  /\ \A r \in ToSet(as.label_refs) \cup ToSet(as.function_refs) : r.insno \in 0..A!pos - 1
  /\ \A f \in ToSet(as.fixups) :
       f.offset \in IF f.type = A!FIXUP_DATADATA THEN 0..as.data.size - 1 ELSE 0..A!pos - 1
  /\ \A l \in DOMAIN as.label_map : as.label_map[l] \in 0..A!pos
  /\ ds.offset \in 0..Len(obj.data) \/ pass = 2
  /\ pass \in {1, 2}

assembled == pass = 1 /\ pc = "done"

\* Line k of the text, when it loads or jumps to an operand of the kind, and the
\* place of that operand.
OperandOf(k) == Last(source.text[k].args)
PlaceOf(k) == starts[k] + A!argcount(source.text[k].op)
WithOperand(op) == {k \in DOMAIN source.text : source.text[k].op = op}

FirstDefinition(name) ==
  LET found == {k \in WithOperand(A!DEFINITION) : A!NameOf(OperandOf(k)) = name}
  IN CHOOSE k \in found : \A j \in found : k <= j

\* A jump reaches the first definition of its label, before it or behind it, and
\* an instruction stands there.
JumpsLand ==
  assembled =>
    \A k \in WithOperand(A!JMP) :
      LET target == PlaceOf(k) + 1 + A!At(obj.code, PlaceOf(k))
      IN /\ target = starts[FirstDefinition(A!NameOf(OperandOf(k)))]
         /\ target \in A!InstructionStarts(obj.code)

OffsetIn(s, k, length(_)) == FoldLeft(LAMBDA n, x : n + length(x), 0, SubSeq(s, 1, k - 1))

\* What the operand of line k refers to, looked up in the source and in the layout
\* of the object: <<type of fixup, word>>.
Reference(k) ==
  LET operand == OperandOf(k)
      name == A!NameOf(operand)
      declared == {j \in DOMAIN source.data : source.data[j].name = name}
      defined == {j \in WithOperand(A!DEFINITION) : A!NameOf(OperandOf(j)) = name}
  IN CASE operand[1] = "str" ->
            {<<A!FIXUP_STRING, OffsetIn(obj.strings, j, LAMBDA x : Len(x.str) + 1)>> :
               j \in {j \in DOMAIN obj.strings : obj.strings[j].str = A!unescape(operand[2]).text}}
       [] operand[1] = "var" ->
            {<<A!FIXUP_GLOBALDATA, OffsetIn(source.data, j, LAMBDA x : x.size)>> :
               j \in {j \in declared : \A i \in declared : j <= i}}
       [] operand[1] = "stack" -> {<<A!FIXUP_STACK, operand[3]>>}
       [] operand[1] = "sym" /\ defined # {} /\ ~A!IsLabel(name) ->
            {<<A!FIXUP_FUNCTION, starts[j]>> : j \in defined}
       [] operand[1] = "sym" /\ (defined = {} \/ A!IsLabel(name)) ->
            {<<A!FIXUP_IMPORT, j - 1>> : j \in {j \in DOMAIN obj.imports : obj.imports[j] = name}}
       [] OTHER -> {}

\* The operand of a load is what the source names: one fixup says of which kind
\* it is, and the word finds it in the tables of the object.
OperandsResolve ==
  assembled =>
    \A k \in WithOperand(A!LITTOREG) :
      {<<f.type, A!At(obj.code, f.offset)>> :
         f \in {f \in ToSet(obj.fixups) : f.type # A!FIXUP_DATADATA /\ f.offset = PlaceOf(k)}}
      = Reference(k)

\* "imports and exports cover only really used ones" (README:95): an import but
\* the "" of a script without imports is used, and is not a function of its own.
ImportsUsed ==
  assembled =>
    \A j \in DOMAIN obj.imports :
      \/ obj.imports = <<A!NoName>>
      \/ /\ \E f \in ToSet(obj.fixups) :
              f.type = A!FIXUP_IMPORT /\ A!At(obj.code, f.offset) = j - 1
         /\ \A e \in ToSet(obj.exports) : e.name # obj.imports[j]

\* Every variable the listing refers to is declared in it.
VariablesDeclared ==
  ds.dpc = "done" =>
    \A k \in DOMAIN listing.text :
      LET l == listing.text[k]
      IN l.op = A!LITTOREG /\ l.args[2][1] = "var" =>
           \E j \in DOMAIN listing.data : listing.data[j].name = A!NameOf(l.args[2])

\* The functions jumps of the source go to the beginning of.
EntriesJumpedTo ==
  {e.instr : e \in {e \in ToSet(first.exports) :
                      e.type = A!EXPORT_FUNCTION /\ e.instr \in ToSet(ds.lbl)}}

\* The listing assembles, but for operands on the stack, whose blanks the
\* assembler does not read, strings that are longer than a line when each quote
\* has its backslash, variables the listing does not declare, and a jump to an
\* empty last function, whose label the listing has behind the code.
ListingAssembles ==
  (pass = 2 /\ pc = "abort") =>
    \/ \E f \in ToSet(first.fixups) : f.type = A!FIXUP_STACK
    \/ \E s \in ToSet(first.strings) : Len(D!escape(s.str, EscapeSize)) > LineRoom
    \/ ~VariablesDeclared
    \/ \E t \in EntriesJumpedTo : t + 2 = Len(first.code)

\* "useful to compare a re-assembled file with the original" (README:81): it is the
\* original, but for jumps to the beginning of a function, which go behind its
\* thisaddr then.
SameObject ==
  (pass = 2 /\ pc = "done") =>
    /\ obj = [first EXCEPT !.code = obj.code]
    /\ Len(obj.code) = Len(first.code)
    /\ \A w \in Words(obj) :
         \/ A!At(obj.code, w) = A!At(first.code, w)
         \/ /\ A!At(obj.code, w - 1) = A!JMP
            /\ w + 1 + A!At(first.code, w) \in EntriesJumpedTo
            /\ A!At(obj.code, w) = A!At(first.code, w) + 2
=============================================================================
