-------------------------- MODULE AssemblerCorrect --------------------------
(***************************************************************************)
(* What the assembler promises, stated over the tokens of the source: where*)
(* a label is, and what belongs to the program, by what stands before it.  *)
(***************************************************************************)
EXTENDS Assembler, FiniteSets

Positions == DOMAIN tokens

\* The section a token is in: the last one begun before it.
SectionAt(p) ==
    LET begun == {q \in 1 .. p - 1 : \E name \in {"text", "data", "bss"} : IsDirective(tokens[q], name)}
    IN IF begun = {} THEN "text"
       ELSE tokens[CHOOSE q \in begun : \A r \in begun : r <= q].value

OpcodesBefore(p, opcodes) ==
    {q \in 1 .. p - 1 : /\ tokens[q].type = "OPCODE" /\ SectionAt(q) = "text"
                        /\ tokens[q].value \in opcodes}

\* A reference to data becomes two instructions.
InstructionsBefore(p) ==
    Cardinality({q \in 1 .. p - 1 : tokens[q].type = "OPCODE" /\ SectionAt(q) = "text"})
    + Cardinality(OpcodesBefore(p, DataReferences))

DirectiveAt(p) ==
    LET given == {q \in 1 .. p - 1 : tokens[q].type = "DIRECTIVE"}
    IN IF given = {} THEN "none"
       ELSE tokens[CHOOSE q \in given : \A r \in given : r <= q].value

DataElements ==
    {p \in Positions : /\ SectionAt(p) = "data" /\ DirectiveAt(p) \in DataDirectives
                       /\ tokens[p].type = Takes(DirectiveAt(p))}

\* Sources the passes misread: a label or a string spelled like a section
\* or a data directive, a directive with nothing behind it, .section before
\* no section.
Spelled(names) == \E p \in Positions : tokens[p].type # "DIRECTIVE" /\ tokens[p].value \in names
SectionSpelled == Spelled(SectionNames)
DirectiveSpelled == Spelled(DataDirectives)
EmptyDirective == \E p \in Positions :
    /\ tokens[p].type = "DIRECTIVE" /\ tokens[p].value \in DataDirectives
    /\ TokenAt(p + 1).type # Takes(tokens[p].value)
BareSection == \E p \in Positions :
    /\ IsDirective(tokens[p], "section")
    /\ \A name \in {"text", "data", "bss"} : ~IsDirective(TokenAt(p + 1), name)

-----------------------------------------------------------------------------
\* The tables are consistent: positions stay in the source, what is to be
\* patched is an unresolved instruction, data lies in order.
TypeOK ==
    /\ pos \in 1 .. Len(tokens) + 1
    /\ data_index \in Nat /\ data_counter \in Nat
    /\ \A label \in DOMAIN symbol_table : symbol_table[label].address \in Nat
    /\ \A k \in DOMAIN intermediate_code :
         /\ intermediate_code[k].imm \in Int /\ intermediate_code[k].resolved \in BOOLEAN
         /\ intermediate_code[k].line \in Nat
    /\ \A k \in DOMAIN back_patch : back_patch[k] \in 0 .. Len(intermediate_code) - 1
    /\ \A k \in DOMAIN back_patch, j \in DOMAIN back_patch : k < j => back_patch[k] < back_patch[j]
    /\ Len(placed) <= Len(data_buffer)

(***************************************************************************)
(* A program that assembles has no reference left open, and a branch or a  *)
(* jump goes from where its instruction ends up to the instruction behind  *)
(* its label, whether the label came first or later.                       *)
(***************************************************************************)
ReferencesResolve ==
    phase = "loaded" /\ ~SectionSpelled => \A k \in DOMAIN intermediate_code :
        LET unit == intermediate_code[k]
        IN /\ unit.resolved
           /\ unit.op \in Branches \union Jumps /\ ~symbol_table[unit.of].isData =>
                \E p \in Positions :
                    /\ tokens[p].type = "LABEL" /\ tokens[p].value = unit.of
                    /\ SectionAt(p) = "text"
                    /\ 4 * (k - 1) + unit.imm = 4 * InstructionsBefore(p)

(***************************************************************************)
(* The assembler and the loader lay the data out separately and agree: the *)
(* two instructions that a reference to data becomes compute the address   *)
(* at which LoadProgram puts the first datum behind the label.             *)
(***************************************************************************)
DataReferencesReach ==
    phase = "loaded" /\ ~EmptyDirective /\ ~DirectiveSpelled => \A k \in DOMAIN intermediate_code :
        intermediate_code[k].op \in DataReferences =>
            LET upper == intermediate_code[k - 1]
                lower == intermediate_code[k]
                label == symbol_table[lower.of]
            IN /\ upper.op = "auipc"
               /\ -2048 <= lower.imm /\ lower.imm <= 2047
               /\ label.names <= Len(placed)
               /\ 4 * (k - 2) + upper.imm * 4096 + lower.imm
                    = DataSectionStart + placed[label.names]

(***************************************************************************)
(* The two passes divide the source between them: every instruction of the *)
(* text and every datum gets into the program, or an error is reported.    *)
(***************************************************************************)
NothingIsDropped ==
    phase = "loaded" /\ ~BareSection /\ ~SectionSpelled /\ ~DirectiveSpelled =>
        /\ Len(intermediate_code) = InstructionsBefore(Len(tokens) + 1)
        /\ Len(data_buffer) = Cardinality(DataElements)

(***************************************************************************)
(* A breakpoint set at a line stops at the first instruction written on it *)
(* or behind it.                                                           *)
(***************************************************************************)
BreakpointsFindTheirLine ==
    phase = "loaded" => \A line \in DOMAIN LineMapping :
        LET k == LineMapping[line] + 1
        IN /\ intermediate_code[k].line >= line
           /\ \A j \in 1 .. k - 1 : intermediate_code[j].line < line

(***************************************************************************)
(* Every source is assembled or rejected in the end, unless a label in it  *)
(* is spelled like a section.                                              *)
(***************************************************************************)
AssemblyEnds == SectionSpelled \/ <>(phase \in {"loaded", "failed"})
=============================================================================
