----------------------------- MODULE MCAssembler -----------------------------
(***************************************************************************)
(* Sources put together from lines: a program with data and text in either *)
(* order, the same with an odd line in it, and any three lines.            *)
(***************************************************************************)
EXTENDS AssemblerCorrect, SequencesExt

T(type, value, n) == [type |-> type, value |-> value, n |-> n]
D(name) == <<T("DIRECTIVE", name, 0)>>
L(name) == <<T("LABEL", name, 0)>>
N(n) == <<T("NUM", "5", n)>>
Float == <<T("FLOAT", "1.5", 0)>>
Op(name) == <<T("OPCODE", name, 0)>>
To(op, label) == Op(op) \o <<T("LABEL_REF", label, 0)>>

\* Two labelled data in either order behind what leaves them misaligned or
\* beyond the reach of one immediate.
A == L("a") \o D("word") \o N(5) \o N(5)
B == L("b") \o D("dword") \o N(5)
Fill == {D("byte") \o N(5), D("zero") \o N(2100), D("double") \o Float \o Float,
         L("a") \o D("string") \o <<T("STRING", "s", 6)>>}
DataBlocks == UNION {{<<fill, A, B>>, <<fill, B, A>>} : fill \in Fill}

\* Three instructions, the second and third with a label before them.
Instructions == {Op("add"), To("beq", "l"), To("beq", "m"), To("jal", "m"), To("jal", "a"),
                 To("la", "a"), To("lw", "b")}
TextBlocks == {<<t, L("l"), u, L("m") \o v>> : t \in Instructions, u \in Instructions,
                   v \in Instructions}

\* Lines that are wrong, or surprising.
OddLines == {
    L("c") \o D("double"), L("b"), L("a"), D("word") \o Float, D("zero") \o N(0), N(1),
    D("section"), D("section") \o D("data"), D("bss"), L("data"), L("text") \o Op("add"),
    L("c") \o L("word") \o D("byte") \o N(5),
    D("string") \o <<T("STRING", "text", 5)>>, Op("beq"), Op("mul"),
    Op("add") \o <<T("INVALID", "x", 0)>>, To("beq", "none")}

\* The lexer numbers the lines.
Numbered(lines) ==
    FlattenSeq([k \in DOMAIN lines |->
        [j \in DOMAIN lines[k] |->
            [type |-> lines[k][j].type, value |-> lines[k][j].value, n |-> lines[k][j].n,
             line |-> k]]])

Programs == UNION {{<<D("data")>> \o d \o <<D("text")>> \o t, t \o <<D("data")>> \o d}
                   : d \in DataBlocks, t \in TextBlocks}

Simple == <<D("data"), D("byte") \o N(5), A, B, D("text"), Op("add"), L("l"), To("la", "a"),
            L("m"), To("beq", "m")>>
WithOdd == {InsertAt(Simple, k, odd) : k \in 1 .. Len(Simple), odd \in OddLines}

Short == UNION {[1 .. n -> OddLines \union {D("data"), D("text"), To("la", "b"), B}]
                : n \in 0 .. 3}

MCSources == {Numbered(lines) : lines \in Programs \union WithOdd \union Short}
=============================================================================
