------------------------------ MODULE Assembler ------------------------------
(***************************************************************************)
(* The assembler's two passes over the tokens of a file, the resolution of *)
(* forward references, and LoadProgram, which lays the data out a second   *)
(* time.  Registers, commas and number operands of an instruction are left *)
(* out: an OPCODE token is followed by its LABEL_REF, if it has one.       *)
(***************************************************************************)
EXTENDS Integers, Sequences

CONSTANTS
    Sources,           \* the token lists the lexer gives
    DataSectionStart,  \* data_section_start
    BranchReach,       \* 4096
    JumpReach,         \* 1048576
    MExtensionEnabled

VARIABLES
    tokens, pos, phase,
    symbol_table, data_index, data_buffer,
    intermediate_code, back_patch, errors,
    placed, data_counter       \* LoadProgram: where each datum went

vars == <<tokens, pos, phase, symbol_table, data_index, data_buffer, intermediate_code,
          back_patch, errors, placed, data_counter>>

\* What a token says: its type, its text (a directive's without the dot),
\* its line and, of a NUM or a STRING, how many bytes .zero or .string
\* makes of it.
Token == [type: {"LABEL", "LABEL_REF", "DIRECTIVE", "OPCODE", "NUM", "FLOAT", "STRING",
                 "INVALID", "EOF_"},
          value: STRING, line: Nat, n: Nat]

Eof == [type |-> "EOF_", value |-> "", line |-> 1, n |-> 0]

TokenAt(p) == IF p <= Len(tokens) THEN tokens[p] ELSE Eof
Current == TokenAt(pos)
Peek(k) == TokenAt(pos + k)

IsDirective(t, name) == t.type = "DIRECTIVE" /\ t.value = name

\* The loops that skip tokens compare texts, whatever the token's type.
SectionNames == {"text", "data", "bss", "section"}

SkipTo(from, names) ==
    CHOOSE q \in from .. Len(tokens) + 1 :
        /\ q <= Len(tokens) => tokens[q].value \in names
        /\ \A p \in from .. q - 1 : tokens[p].value \notin names

\* skipCurrentLine
NextLine ==
    CHOOSE q \in pos .. Len(tokens) + 1 :
        /\ q <= Len(tokens) => tokens[q].line # Current.line
        /\ \A p \in pos .. q - 1 : tokens[p].line = Current.line

Error(what) == errors' = errors \union {[line |-> Current.line, what |-> what]}

-----------------------------------------------------------------------------
(***************************************************************************)
(* Data.  Each directive's alignment and the tokens it takes.              *)
(***************************************************************************)
Size == [byte |-> 1, halfword |-> 2, word |-> 4, dword |-> 8, float |-> 4, double |-> 8,
         string |-> 1, zero |-> 1]
DataDirectives == DOMAIN Size
Takes(name) == CASE name \in {"float", "double"} -> "FLOAT"
                 [] name = "string" -> "STRING"
                 [] OTHER -> "NUM"

Align(x, alignment) == IF x % alignment = 0 THEN x ELSE x + alignment - (x % alignment)

\* An entry of the buffer: its element's size, how many there are, and,
\* for the properties, where the assembler counted it.
Datum(name, t) == [size |-> Size[name], at |-> Align(data_index, Size[name]),
                   count |-> IF name \in {"zero", "string"} THEN t.n ELSE 1]

Define(label, entry) ==
    symbol_table' = [l \in DOMAIN symbol_table \union {label} |->
                        IF l = label THEN entry ELSE symbol_table[l]]

text == <<intermediate_code, back_patch>>
loader == <<placed, data_counter>>

\* Mutant: text is skipped up to its end, past a data section behind it.
SkipsTextAndData == {"section", "bss"}
EndsText == {"data", "section", "bss"}

FirstPass ==
    /\ phase = "first"
    /\ CASE Current.type = "EOF_" ->
              pos' = 1 /\ phase' = "second" /\ UNCHANGED errors
         [] IsDirective(Current, "section") ->
              pos' = pos + 1 /\ UNCHANGED <<phase, errors>>
         [] IsDirective(Current, "data") ->
              pos' = pos + 1 /\ phase' = "data" /\ UNCHANGED errors
         [] IsDirective(Current, "bss") ->
              pos' = SkipTo(pos + 1, SectionNames) /\ UNCHANGED <<phase, errors>>
         [] IsDirective(Current, "text") \/ Current.type \in {"LABEL", "OPCODE"} ->
              pos' = SkipTo(pos, EndsText) /\ UNCHANGED <<phase, errors>>
         [] OTHER ->
              pos' = pos + 1 /\ Error("invalid token") /\ UNCHANGED phase
    /\ UNCHANGED <<tokens, symbol_table, data_index, data_buffer, text, loader>>

InData == phase = "data" /\ Current.type # "EOF_" /\ Current.value \notin SectionNames

DataEnds ==
    /\ phase = "data" /\ ~InData
    /\ phase' = "first"
    /\ UNCHANGED <<tokens, pos, symbol_table, data_index, data_buffer, text, errors, loader>>

\* Mutant: a label is defined before the datum behind it is aligned.
LabelIndexUnaligned(directive) == data_index
LabelIndex(directive) ==
    IF directive \in DataDirectives THEN Align(data_index, Size[directive]) ELSE data_index

\* A label takes the place its directive will; an older one of its name is
\* overwritten.
DataLabel ==
    /\ InData /\ Current.type = "LABEL"
    /\ LET directive == Peek(1).value
       IN /\ data_index' = LabelIndex(directive)
          /\ IF directive \in DataDirectives THEN UNCHANGED errors ELSE Error("invalid directive")
    /\ Define(Current.value, [address |-> data_index', isData |-> TRUE,
                              names |-> Len(data_buffer) + 1])
    /\ pos' = pos + 1
    /\ UNCHANGED <<tokens, phase, data_buffer, text, loader>>

\* A directive: the numbers, or what it takes, that follow it.
DataDirective ==
    /\ InData /\ Current.type # "LABEL" /\ Current.value \in DataDirectives
    /\ phase' = Current.value /\ pos' = pos + 1
    /\ UNCHANGED <<tokens, symbol_table, data_index, data_buffer, text, errors, loader>>

DataElement ==
    /\ phase \in DataDirectives
    /\ IF Current.type # Takes(phase)
       THEN phase' = "data" /\ UNCHANGED <<pos, data_index, data_buffer, errors>>
       ELSE /\ pos' = pos + 1 /\ UNCHANGED phase
            /\ IF phase = "zero" /\ Current.n = 0
               THEN Error("invalid zero directive") /\ UNCHANGED <<data_index, data_buffer>>
               ELSE LET datum == Datum(phase, Current)
                    IN /\ data_buffer' = Append(data_buffer, datum)
                       /\ data_index' = datum.at + datum.size * datum.count
                       /\ UNCHANGED errors
    /\ UNCHANGED <<tokens, symbol_table, text, loader>>

\* Mutant: the error is recorded and the token stays.
NoFurther == pos
NextToken == pos + 1

InvalidDirective ==
    /\ InData /\ Current.type # "LABEL" /\ Current.value \notin DataDirectives
    /\ Error("invalid directive")
    /\ pos' = NextToken
    /\ UNCHANGED <<tokens, phase, symbol_table, data_index, data_buffer, text, loader>>

-----------------------------------------------------------------------------
(***************************************************************************)
(* Text.  Opcodes fall into those that name a label in the text (branches, *)
(* jal), those that name data and become two instructions (la and loads),  *)
(* and the others.                                                         *)
(***************************************************************************)
Branches == {"beq"}
Jumps == {"jal"}
DataReferences == {"la", "lw"}
MOpcodes == {"mul"}

SecondPass ==
    /\ phase = "second"
    /\ CASE Current.type = "EOF_" ->
              pos' = 1 /\ phase' = "patch" /\ UNCHANGED errors
         [] IsDirective(Current, "section") ->
              pos' = pos + 1 /\ UNCHANGED <<phase, errors>>
         [] IsDirective(Current, "data") \/ IsDirective(Current, "bss") ->
              pos' = SkipTo(pos, {"text"}) /\ UNCHANGED <<phase, errors>>
         [] IsDirective(Current, "text") ->
              pos' = pos + 1 /\ phase' = "text" /\ UNCHANGED errors
         [] Current.type \in {"LABEL", "OPCODE"} ->
              phase' = "text" /\ UNCHANGED <<pos, errors>>
         [] OTHER ->
              pos' = pos + 1 /\ Error("invalid token") /\ UNCHANGED phase
    /\ UNCHANGED <<tokens, symbol_table, data_index, data_buffer, text, loader>>

InText == phase = "text" /\ Current.type \notin {"DIRECTIVE", "EOF_"}

TextEnds ==
    /\ phase = "text" /\ ~InText
    /\ phase' = "second"
    /\ UNCHANGED <<tokens, pos, symbol_table, data_index, data_buffer, text, errors, loader>>

instruction_index == Len(intermediate_code)

\* Mutant: the index is taken after the instruction is counted.
IndexAfter == instruction_index + 1
PatchIndex == instruction_index

HasSymbol(label) == label \in DOMAIN symbol_table

TextLabel ==
    /\ InText /\ Current.type = "LABEL"
    /\ IF HasSymbol(Current.value)
       THEN Error("label redefinition") /\ UNCHANGED symbol_table
       ELSE /\ Define(Current.value, [address |-> 4 * instruction_index, isData |-> FALSE,
                                      names |-> instruction_index + 1])
            /\ UNCHANGED errors
    /\ pos' = pos + 1
    /\ UNCHANGED <<tokens, phase, data_index, data_buffer, text, loader>>

(***************************************************************************)
(* One instruction, or the two a reference to data becomes.                *)
(***************************************************************************)
OnLine(k) == Peek(k).type # "EOF_" /\ Peek(k).line = Current.line

ValidSyntax == IF Current.value \in Branches \union Jumps \union DataReferences
               THEN OnLine(1) /\ Peek(1).type = "LABEL_REF" /\ ~OnLine(2)
               ELSE ~OnLine(1)

Disabled == Current.value \in MOpcodes /\ ~MExtensionEnabled

\* imm counts from the unit's own address; of is the text of its label, if
\* it has one, in the source.
Unit(op, of, imm, resolved) ==
    [op |-> op, line |-> Current.line, of |-> of, imm |-> imm, resolved |-> resolved]

Emit(units) == intermediate_code' = intermediate_code \o units
EmitNothing == UNCHANGED intermediate_code

Reach(op) == IF op \in Branches THEN BranchReach ELSE JumpReach
InReach(op, offset) == -Reach(op) <= offset /\ offset <= Reach(op) - 1

Displacement(label, index) == symbol_table[label].address - 4 * index

\* The two parts of a distance to data, the lower one signed.
Upper(offset) == (offset + 2048) \div 4096
Lower(offset) == offset - Upper(offset) * 4096

Instruction ==
    /\ InText /\ Current.type = "OPCODE" /\ ~Disabled /\ ValidSyntax
    /\ LET op == Current.value
           label == Peek(1).value
           offset == Displacement(label, instruction_index)
           distance == DataSectionStart + offset
       IN CASE op \in Branches \union Jumps ->
                 IF HasSymbol(label) /\ ~symbol_table[label].isData
                 THEN /\ IF InReach(op, offset)
                         THEN Emit(<<Unit(op, label, offset, TRUE)>>) /\ UNCHANGED errors
                         ELSE EmitNothing /\ Error("out of range")
                      /\ UNCHANGED back_patch
                 ELSE /\ Emit(<<Unit(op, label, 0, FALSE)>>)
                      /\ back_patch' = Append(back_patch, PatchIndex)
                      /\ UNCHANGED errors
            [] op \in DataReferences ->
                 /\ IF HasSymbol(label) /\ symbol_table[label].isData
                    THEN /\ Emit(<<Unit("auipc", label, Upper(distance), TRUE),
                                   Unit(op, label, Lower(distance), TRUE)>>)
                         /\ UNCHANGED errors
                    ELSE EmitNothing /\ Error("invalid label reference")
                 /\ UNCHANGED back_patch
            [] OTHER ->
                 /\ Emit(<<Unit(op, "", 0, TRUE)>>)
                 /\ UNCHANGED <<errors, back_patch>>
    /\ pos' = NextLine
    /\ UNCHANGED <<tokens, phase, symbol_table, data_index, data_buffer, loader>>

\* A disabled opcode, wrong operands, or no opcode at all: the line is skipped.
InvalidInstruction ==
    /\ InText /\ Current.type # "LABEL"
    /\ Current.type = "OPCODE" => Disabled \/ ~ValidSyntax
    /\ Error("invalid instruction")
    /\ pos' = NextLine
    /\ UNCHANGED <<tokens, phase, symbol_table, data_index, data_buffer, text, loader>>

-----------------------------------------------------------------------------
(***************************************************************************)
(* Forward references, in the order they were met; pos counts them.  What  *)
(* no text label defines is an error for a branch, and a jump takes the    *)
(* offset of data in its section for an address.                           *)
(***************************************************************************)
\* Mutant: the distance is taken from the start of the program.
PatchedFromStart(label, index) == Displacement(label, 0)
Patched(label, index) == Displacement(label, index)

PatchError(unit) ==
    IF ~HasSymbol(unit.of) THEN {"label not found"}
    ELSE IF unit.op \in Branches /\ symbol_table[unit.of].isData THEN {"label references data"}
    ELSE {}

Resolve(index) ==
    LET unit == intermediate_code[index + 1]
        offset == Patched(unit.of, index)
        wrong == PatchError(unit) \union
                 IF PatchError(unit) = {} /\ ~InReach(unit.op, offset) THEN {"out of range"} ELSE {}
    IN /\ errors' = errors \union {[line |-> unit.line, what |-> w] : w \in wrong}
       /\ intermediate_code' =
             CASE wrong = {} -> [intermediate_code EXCEPT ![index + 1].imm = offset,
                                                          ![index + 1].resolved = TRUE]
               [] wrong = {"label references data"} ->
                    [intermediate_code EXCEPT ![index + 1].resolved = TRUE]
               [] OTHER -> intermediate_code

Patch ==
    /\ phase = "patch" /\ pos <= Len(back_patch)
    /\ Resolve(back_patch[pos])
    /\ pos' = pos + 1
    /\ UNCHANGED <<tokens, phase, symbol_table, data_index, data_buffer, back_patch, loader>>

\* assemble throws when there are errors; main then does not load.
Assembled ==
    /\ phase = "patch" /\ pos > Len(back_patch)
    /\ phase' = IF errors = {} THEN "load" ELSE "failed"
    /\ UNCHANGED <<tokens, pos, symbol_table, data_index, data_buffer, text, errors, loader>>

\* line_number_instruction_number_mapping, from the map of instructions to
\* lines: every line from the one behind the last instruction's up to this
\* one's leads to this instruction.  Mutant: up to the one behind it.
LinesPast(filled, k) ==
    [j \in 1 .. intermediate_code[k].line - Len(filled) + 1 |-> k - 1]
LinesUpTo(filled, k) ==
    [j \in 1 .. intermediate_code[k].line - Len(filled) |-> k - 1]

LineMapping ==
    LET upTo[k \in 0 .. Len(intermediate_code)] ==
          IF k = 0 THEN <<>> ELSE upTo[k - 1] \o LinesUpTo(upTo[k - 1], k)
    IN upTo[Len(intermediate_code)]

-----------------------------------------------------------------------------
(***************************************************************************)
(* LoadProgram: the data, each aligned by its own type.                    *)
(***************************************************************************)
LoadDatum ==
    /\ phase = "load" /\ Len(placed) < Len(data_buffer)
    /\ LET datum == data_buffer[Len(placed) + 1]
           at == Align(data_counter, datum.size)
       IN /\ placed' = Append(placed, at)
          /\ data_counter' = at + datum.size * datum.count
    /\ UNCHANGED <<tokens, pos, phase, symbol_table, data_index, data_buffer, text, errors>>

Loaded ==
    /\ phase = "load" /\ Len(placed) = Len(data_buffer)
    /\ phase' = "loaded"
    /\ UNCHANGED <<tokens, pos, symbol_table, data_index, data_buffer, text, errors, loader>>

Init ==
    /\ tokens \in Sources /\ pos = 1 /\ phase = "first"
    /\ symbol_table = <<>> /\ data_index = 0 /\ data_buffer = <<>>
    /\ intermediate_code = <<>> /\ back_patch = <<>> /\ errors = {}
    /\ placed = <<>> /\ data_counter = 0

Next ==
    \/ FirstPass \/ DataEnds \/ DataLabel \/ DataDirective \/ DataElement \/ InvalidDirective
    \/ SecondPass \/ TextEnds \/ TextLabel \/ Instruction \/ InvalidInstruction
    \/ Patch \/ Assembled \/ LoadDatum \/ Loaded

Spec == Init /\ [][Next]_vars

\* One thread, which nothing blocks.
FairSpec == Spec /\ WF_vars(Next)

ASSUME AssemblerAssumption ==
    /\ Sources \subseteq Seq(Token)
    /\ DataSectionStart \in Nat /\ BranchReach \in Nat /\ JumpReach \in Nat
    /\ MExtensionEnabled \in BOOLEAN
    /\ \A source \in Sources : \A p \in DOMAIN source : source[p].type # "EOF_"
=============================================================================
