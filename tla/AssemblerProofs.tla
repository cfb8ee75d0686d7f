--------------------------- MODULE AssemblerProofs ---------------------------
(***************************************************************************)
(* The assembler, for every source, every reach of branches and jumps and  *)
(* every place of the data.                                                *)
(***************************************************************************)
EXTENDS AssemblerCorrect, SequenceTheorems, FiniteSetTheorems, WellFoundedInduction, TLAPS

-----------------------------------------------------------------------------
(***************************************************************************)
(* Numbers: a set of them has a least one, and holds all of them if it     *)
(* holds 0 and the next of each.                                           *)
(***************************************************************************)
LEMMA Least ==
    ASSUME NEW T, T \subseteq Nat, T # {}
    PROVE \E m \in T : \A n \in T : m <= n
<1>1. PICK m \in T : \A n \in T : ~ (<<n, m>> \in OpToRel(<, Nat))
  BY NatLessThanWellFounded, WFMin, Zenon
<1>2. \A n \in T : m <= n
  <2> SUFFICES ASSUME NEW n \in T PROVE m <= n
    OBVIOUS
  <2>1. ~(n < m)
    BY <1>1 DEF OpToRel
  <2> QED BY <2>1
<1> QED BY <1>2

LEMMA Counting ==
    ASSUME NEW S, 0 \in S, \A n \in Nat : n \in S => n + 1 \in S
    PROVE Nat \subseteq S
<1> SUFFICES ASSUME Nat \ S # {} PROVE FALSE
  OBVIOUS
<1>1. PICK m \in Nat \ S : \A n \in Nat \ S : m <= n
  BY Least
<1>2. m # 0 /\ m - 1 \in Nat
  BY <1>1
<1>3. m - 1 \in S
  BY <1>1, <1>2
<1> QED BY <1>1, <1>2, <1>3

\* The first place from which something holds.
LEMMA FirstPlace ==
    ASSUME NEW from \in Nat, NEW last \in Nat, NEW T, T \subseteq from .. last, last \in T
    PROVE \E q \in T : \A p \in from .. q - 1 : p \notin T
<1>1. T \subseteq Nat
  OBVIOUS
<1>2. PICK q \in T : \A p \in T : q <= p
  BY <1>1, Least
<1> QED BY <1>1, <1>2

LEMMA SizeTyped ==
    ASSUME NEW name \in DataDirectives PROVE Size[name] \in {1, 2, 4, 8}
BY DEF DataDirectives, Size

LEMMA AlignTyped ==
    ASSUME NEW x \in Nat, NEW a \in {1, 2, 4, 8}
    PROVE /\ Align(x, a) \in Nat /\ Align(x, a) >= x /\ Align(x, a) % a = 0
          /\ Align(Align(x, a), a) = Align(x, a)
<1>1. CASE a = 1
  BY <1>1 DEF Align
<1>2. CASE a = 2
  BY <1>2 DEF Align
<1>3. CASE a = 4
  BY <1>3 DEF Align
<1>4. CASE a = 8
  BY <1>4 DEF Align
<1> QED BY <1>1, <1>2, <1>3, <1>4

-----------------------------------------------------------------------------
(***************************************************************************)
(* What the tables hold.  A branch waits to be patched for each of some of *)
(* the tokens read, so that there are never more of them than tokens.      *)
(***************************************************************************)
\* What TokenAt gives, and the texts in it.
Tokens == Token \union {Eof}
Texts == {t.value : t \in Tokens} \union {"auipc"}

Entry == [address: Nat, isData: BOOLEAN, names: Nat]
Data == [size: {1, 2, 4, 8}, at: Nat, count: Nat]
UnitSet == [op: Texts, line: Nat, of: Texts, imm: Int, resolved: BOOLEAN]

FirstPhase == {"first", "data"} \union DataDirectives
SecondPhase == {"second", "text"}
LastPhase == {"patch", "load", "failed", "loaded"}

Tables ==
    /\ tokens \in Seq(Token) /\ \A p \in 1 .. Len(tokens) : tokens[p].type # "EOF_"
    /\ phase \in FirstPhase \union SecondPhase \union LastPhase
    /\ \A label \in DOMAIN symbol_table : symbol_table[label] \in Entry
    /\ data_index \in Nat /\ data_counter \in Nat
    /\ data_buffer \in Seq(Data)
    /\ intermediate_code \in Seq(UnitSet)
    /\ back_patch \in Seq(Nat)
    /\ placed \in Seq(Nat) /\ Len(placed) <= Len(data_buffer)

Places ==
    /\ pos \in Nat \ {0}
    /\ phase \notin LastPhase => pos <= Len(tokens) + 1
    /\ phase \in FirstPhase => back_patch = <<>>
    /\ phase \in SecondPhase => Len(back_patch) < pos
    /\ phase \in LastPhase => pos <= Len(back_patch) + 1 /\ Len(back_patch) <= Len(tokens)

Patches ==
    /\ \A k \in 1 .. Len(back_patch) : back_patch[k] < Len(intermediate_code)
    /\ \A k \in 1 .. Len(back_patch), j \in 1 .. Len(back_patch) :
         k < j => back_patch[k] < back_patch[j]

TypeInv == Tables /\ Places /\ Patches

\* What is to be patched is in the program.
LEMMA PatchesInside ==
    TypeInv => \A k \in 1 .. Len(back_patch) :
                   back_patch[k] \in Nat /\ back_patch[k] < Len(intermediate_code)
<1>1. TypeInv => /\ back_patch \in Seq(Nat)
                 /\ \A k \in 1 .. Len(back_patch) : back_patch[k] < Len(intermediate_code)
  BY DEF TypeInv, Tables, Patches
<1> QED BY <1>1

LEMMA TokenTyped ==
    ASSUME tokens \in Seq(Token), NEW p \in Nat \ {0}
    PROVE /\ TokenAt(p) \in Tokens /\ TokenAt(p).value \in Texts
          /\ TokenAt(p).line \in Nat /\ TokenAt(p).n \in Nat
          /\ p > Len(tokens) => TokenAt(p) = Eof
          /\ p <= Len(tokens) => TokenAt(p) = tokens[p]
<1>1. Len(tokens) \in Nat /\ (p <= Len(tokens) => tokens[p] \in Token)
  OBVIOUS
<1>2. TokenAt(p) \in Tokens
  BY <1>1 DEF TokenAt, Tokens
<1>3. \A t \in Tokens : t.line \in Nat /\ t.n \in Nat
  <2>1. \A t \in Token : t.line \in Nat /\ t.n \in Nat
    BY DEF Token
  <2>2. Eof.line \in Nat /\ Eof.n \in Nat
    BY DEF Eof
  <2> QED BY <2>1, <2>2 DEF Tokens
<1> QED BY <1>1, <1>2, <1>3 DEF TokenAt, Texts

LEMMA CurrentTyped ==
    ASSUME Tables, pos \in Nat \ {0}
    PROVE /\ Current \in Tokens /\ Current.value \in Texts
          /\ Current.line \in Nat /\ Current.n \in Nat
          /\ (Current.type # "EOF_" <=> pos <= Len(tokens))
          /\ pos <= Len(tokens) => Current = tokens[pos]
<1>1. /\ Current \in Tokens /\ Current.value \in Texts
      /\ Current.line \in Nat /\ Current.n \in Nat
      /\ (pos > Len(tokens) => Current = Eof)
      /\ (pos <= Len(tokens) => Current = tokens[pos])
  BY TokenTyped DEF Tables, Current
<1>2. Len(tokens) \in Nat /\ Eof.type = "EOF_" /\ (pos <= Len(tokens) => tokens[pos].type # "EOF_")
  BY DEF Tables, Eof
<1> QED BY <1>1, <1>2

LEMMA SkipLands ==
    ASSUME tokens \in Seq(Token), NEW from \in Nat, from <= Len(tokens) + 1, NEW names
    PROVE /\ SkipTo(from, names) \in from .. Len(tokens) + 1
          /\ SkipTo(from, names) <= Len(tokens) => tokens[SkipTo(from, names)].value \in names
          /\ \A p \in from .. SkipTo(from, names) - 1 : tokens[p].value \notin names
<1> DEFINE T == {q \in from .. Len(tokens) + 1 : q <= Len(tokens) => tokens[q].value \in names}
<1>1. Len(tokens) + 1 \in T /\ T \subseteq from .. Len(tokens) + 1 /\ Len(tokens) + 1 \in Nat
  OBVIOUS
<1>2. PICK q \in T : \A p \in from .. q - 1 : p \notin T
  <2> HIDE DEF T
  <2> QED BY <1>1, FirstPlace
<1>3. \A p \in from .. q - 1 : tokens[p].value \notin names
  BY <1>2
<1>4. /\ q \in from .. Len(tokens) + 1
      /\ q <= Len(tokens) => tokens[q].value \in names
  OBVIOUS
<1> HIDE DEF T
<1> QED BY <1>3, <1>4 DEF SkipTo

LEMMA NextLineLands ==
    ASSUME Tables, pos \in Nat \ {0}, pos <= Len(tokens)
    PROVE /\ NextLine \in pos + 1 .. Len(tokens) + 1
          /\ NextLine <= Len(tokens) => tokens[NextLine].line # Current.line
          /\ \A p \in pos .. NextLine - 1 : tokens[p].line = Current.line
<1> DEFINE T == {q \in pos .. Len(tokens) + 1 : q <= Len(tokens) => tokens[q].line # Current.line}
<1>1. Len(tokens) + 1 \in T /\ T \subseteq pos .. Len(tokens) + 1 /\ Len(tokens) + 1 \in Nat
  BY DEF Tables
<1>2. PICK q \in T : \A p \in pos .. q - 1 : p \notin T
  <2> HIDE DEF T
  <2> QED BY <1>1, FirstPlace
<1>3. Len(tokens) \in Nat
  BY DEF Tables
<1>4. \A p \in pos .. q - 1 : tokens[p].line = Current.line
  BY <1>2, <1>3
<1>5. /\ q \in pos .. Len(tokens) + 1
      /\ q <= Len(tokens) => tokens[q].line # Current.line
  OBVIOUS
<1> HIDE DEF T
<1>6. /\ NextLine \in pos .. Len(tokens) + 1
      /\ NextLine <= Len(tokens) => tokens[NextLine].line # Current.line
      /\ \A p \in pos .. NextLine - 1 : tokens[p].line = Current.line
  BY <1>4, <1>5 DEF NextLine
<1>7. Current = tokens[pos]
  BY CurrentTyped
<1> QED BY <1>3, <1>6, <1>7

-----------------------------------------------------------------------------
(***************************************************************************)
(* Each step keeps the tables.                                             *)
(***************************************************************************)
LEMMA AppendTyped ==
    ASSUME NEW S, NEW s \in Seq(S), NEW e \in S
    PROVE /\ Append(s, e) \in Seq(S) /\ Len(Append(s, e)) = Len(s) + 1
          /\ \A k \in 1 .. Len(s) : Append(s, e)[k] = s[k]
          /\ Append(s, e)[Len(s) + 1] = e
OBVIOUS

LEMMA DatumTyped ==
    ASSUME Tables, pos \in Nat \ {0}, NEW name \in DataDirectives
    PROVE Datum(name, Current) \in Data
<1>1. Size[name] \in {1, 2, 4, 8} /\ data_index \in Nat /\ Current.n \in Nat
  BY SizeTyped, CurrentTyped DEF Tables
<1>2. Align(data_index, Size[name]) \in Nat
  BY <1>1, AlignTyped
<1> QED BY <1>1, <1>2 DEF Datum, Data

LEMMA EndTyped ==
    ASSUME NEW d \in Data
    PROVE d.size \in {1, 2, 4, 8} /\ d.at \in Nat /\ d.count \in Nat /\ d.at + d.size * d.count \in Nat
<1>1. d.size \in {1, 2, 4, 8} /\ d.at \in Nat /\ d.count \in Nat
  BY DEF Data
<1> QED BY <1>1

LEMMA LabelIndexTyped ==
    ASSUME Tables, NEW directive
    PROVE LabelIndex(directive) \in Nat
BY AlignTyped, SizeTyped DEF LabelIndex, Tables

\* The first pass touches no text.
FirstActions ==
    FirstPass \/ DataEnds \/ DataLabel \/ DataDirective \/ DataElement \/ InvalidDirective

LEMMA FirstKeeps ==
    ASSUME FirstActions
    PROVE UNCHANGED <<tokens, intermediate_code, back_patch, placed, data_counter>>
BY DEF FirstActions, FirstPass, DataEnds, DataLabel, DataDirective, DataElement,
       InvalidDirective, text, loader

LEMMA FirstPhases ==
    ASSUME FirstActions, Tables
    PROVE /\ phase \in FirstPhase
          /\ \/ phase' \in FirstPhase
             \/ phase' = "second" /\ Current.type = "EOF_" /\ pos' = 1 /\ FirstPass
BY DEF FirstActions, FirstPass, DataEnds, DataLabel, DataDirective, DataElement,
       InvalidDirective, InData, FirstPhase, NextToken

LEMMA FirstMoves ==
    ASSUME FirstActions, Tables, pos \in Nat \ {0}, pos <= Len(tokens) + 1
    PROVE pos' \in Nat \ {0} /\ pos' <= Len(tokens) + 1
<1>1. Len(tokens) \in Nat /\ (Current.type # "EOF_" => pos <= Len(tokens))
  BY CurrentTyped DEF Tables
<1>2. CASE FirstPass
  <2>1. \/ pos' = 1
        \/ pos' = pos + 1 /\ Current.type # "EOF_"
        \/ pos' = SkipTo(pos + 1, SectionNames) /\ Current.type # "EOF_"
        \/ pos' = SkipTo(pos, EndsText)
    BY <1>2 DEF FirstPass, IsDirective
  <2>2. SkipTo(pos, EndsText) \in pos .. Len(tokens) + 1
    BY SkipLands DEF Tables
  <2>3. Current.type # "EOF_" => SkipTo(pos + 1, SectionNames) \in pos + 1 .. Len(tokens) + 1
    <3>1. SUFFICES ASSUME Current.type # "EOF_"
                   PROVE SkipTo(pos + 1, SectionNames) \in pos + 1 .. Len(tokens) + 1
      OBVIOUS
    <3>2. pos + 1 \in Nat /\ pos + 1 <= Len(tokens) + 1
      BY <1>1, <3>1
    <3> QED BY <3>2, SkipLands DEF Tables
  <2> QED BY <1>1, <2>1, <2>2, <2>3
<1>3. CASE ~FirstPass
  <2>1. pos' = pos \/ (pos' = pos + 1 /\ Current.type # "EOF_")
    BY <1>3 DEF FirstActions, DataEnds, DataLabel, DataDirective, DataElement, InvalidDirective,
                InData, NextToken, Takes
  <2> QED BY <1>1, <2>1
<1> QED BY <1>2, <1>3

LEMMA FirstTables ==
    ASSUME FirstActions, Tables, pos \in Nat \ {0}
    PROVE Tables'
<1>1. UNCHANGED <<tokens, intermediate_code, back_patch, placed, data_counter>>
  BY FirstKeeps
<1>2. phase' \in FirstPhase \union SecondPhase \union LastPhase
  BY FirstPhases DEF SecondPhase
<1>3. \A label \in DOMAIN symbol_table' : symbol_table'[label] \in Entry
  <2>1. CASE DataLabel
    <3> DEFINE entry == [address |-> data_index', isData |-> TRUE, names |-> Len(data_buffer) + 1]
    <3>1. data_index' \in Nat
      BY <2>1, LabelIndexTyped DEF DataLabel
    <3>2. entry \in Entry
      BY <3>1 DEF Entry, Tables
    <3>3. Define(Current.value, entry)
      BY <2>1 DEF DataLabel
    <3> HIDE DEF entry
    <3> QED BY <3>2, <3>3 DEF Define, Tables
  <2>2. CASE ~DataLabel
    BY <2>2 DEF FirstActions, FirstPass, DataEnds, DataDirective, DataElement, InvalidDirective, Tables
  <2> QED BY <2>1, <2>2
<1>4. data_index' \in Nat /\ data_buffer' \in Seq(Data) /\ Len(placed) <= Len(data_buffer')
  <2>1. CASE DataLabel
    BY <2>1, LabelIndexTyped DEF DataLabel, Tables
  <2>2. CASE DataElement
    <3>1. phase \in DataDirectives
      BY <2>2 DEF DataElement
    <3>2. Datum(phase, Current) \in Data
      BY <3>1, DatumTyped
    <3>3. CASE UNCHANGED <<data_index, data_buffer>>
      BY <3>3 DEF Tables
    <3>4. CASE /\ data_buffer' = Append(data_buffer, Datum(phase, Current))
               /\ data_index' = Datum(phase, Current).at
                                + Datum(phase, Current).size * Datum(phase, Current).count
      BY <3>2, <3>4, AppendTyped, EndTyped DEF Tables
    <3> QED BY <2>2, <3>3, <3>4 DEF DataElement
  <2>3. CASE ~DataLabel /\ ~DataElement
    BY <2>3 DEF FirstActions, FirstPass, DataEnds, DataDirective, InvalidDirective, Tables
  <2> QED BY <2>1, <2>2, <2>3
<1> QED BY <1>1, <1>2, <1>3, <1>4 DEF Tables

LEMMA FirstTyped == ASSUME FirstActions, TypeInv PROVE TypeInv'
<1>1. UNCHANGED <<tokens, intermediate_code, back_patch, placed, data_counter>>
  BY FirstKeeps
<1>2. phase \in FirstPhase /\ (phase' \in FirstPhase \/ (phase' = "second" /\ pos' = 1))
  BY FirstPhases DEF TypeInv
<1>3. phase \notin LastPhase /\ phase' \notin LastPhase /\ phase' \notin {"text"}
  BY <1>2 DEF FirstPhase, LastPhase, DataDirectives, Size
<1>4. Len(back_patch') = 0 /\ back_patch' = <<>> /\ Len(tokens) \in Nat
  BY <1>1, <1>2 DEF TypeInv, Places, Tables
<1>5. Tables'
  BY FirstTables DEF TypeInv, Places
<1>6. pos' \in Nat \ {0} /\ pos' <= Len(tokens) + 1
  BY <1>3, FirstMoves DEF TypeInv, Places
<1>7. Places'
  BY <1>1, <1>2, <1>3, <1>4, <1>6 DEF Places, SecondPhase
<1>8. Patches'
  BY <1>1, <1>4 DEF Patches
<1> QED BY <1>5, <1>7, <1>8 DEF TypeInv

-----------------------------------------------------------------------------
(***************************************************************************)
(* What an instruction becomes: itself with its label, one to be patched,  *)
(* two that compute an address in the data, itself, or an error.           *)
(***************************************************************************)
Named == Peek(1).value
Offset == Displacement(Named, instruction_index)
Distance == DataSectionStart + Offset

EmitsDirect ==
    /\ Current.value \in Branches \union Jumps
    /\ HasSymbol(Named) /\ ~symbol_table[Named].isData
    /\ Emit(<<Unit(Current.value, Named, Offset, TRUE)>>)
    /\ UNCHANGED <<back_patch, errors>>
EmitsForward ==
    /\ Current.value \in Branches \union Jumps
    /\ ~(HasSymbol(Named) /\ ~symbol_table[Named].isData)
    /\ Emit(<<Unit(Current.value, Named, 0, FALSE)>>)
    /\ back_patch' = Append(back_patch, instruction_index)
    /\ UNCHANGED errors
EmitsReference ==
    /\ Current.value \in DataReferences
    /\ HasSymbol(Named) /\ symbol_table[Named].isData
    /\ Emit(<<Unit("auipc", Named, Upper(Distance), TRUE),
              Unit(Current.value, Named, Lower(Distance), TRUE)>>)
    /\ UNCHANGED <<back_patch, errors>>
EmitsPlain ==
    /\ Current.value \notin Branches \union Jumps \union DataReferences
    /\ Emit(<<Unit(Current.value, "", 0, TRUE)>>)
    /\ UNCHANGED <<back_patch, errors>>
EmitsError == errors' # {} /\ UNCHANGED <<intermediate_code, back_patch>>

LEMMA ErrorShows == ASSUME NEW what, Error(what) PROVE errors' # {}
BY DEF Error

LEMMA Emits ==
    ASSUME Instruction
    PROVE EmitsDirect \/ EmitsForward \/ EmitsReference \/ EmitsPlain \/ EmitsError
<1> DEFINE op == Current.value
<1>1. CASE op \in Branches \union Jumps
  <2>1. op \notin DataReferences
    BY <1>1 DEF Branches, Jumps, DataReferences
  <2>2. CASE ~(HasSymbol(Named) /\ ~symbol_table[Named].isData)
    BY <1>1, <2>1, <2>2 DEF Instruction, EmitsForward, Named, PatchIndex
  <2>3. CASE HasSymbol(Named) /\ ~symbol_table[Named].isData
    <3>1. CASE InReach(op, Offset)
      BY <1>1, <2>1, <2>3, <3>1 DEF Instruction, EmitsDirect, Named, Offset
    <3>2. CASE ~InReach(op, Offset)
      BY <1>1, <2>1, <2>3, <3>2, ErrorShows DEF Instruction, EmitsError, Named, Offset, EmitNothing
    <3> QED BY <3>1, <3>2
  <2> QED BY <2>2, <2>3
<1>2. CASE op \in DataReferences
  <2>1. op \notin Branches \union Jumps
    BY <1>2 DEF Branches, Jumps, DataReferences
  <2>2. CASE HasSymbol(Named) /\ symbol_table[Named].isData
    BY <1>2, <2>1, <2>2 DEF Instruction, EmitsReference, Named, Offset, Distance
  <2>3. CASE ~(HasSymbol(Named) /\ symbol_table[Named].isData)
    BY <1>2, <2>1, <2>3, ErrorShows DEF Instruction, EmitsError, Named, EmitNothing
  <2> QED BY <2>2, <2>3
<1>3. CASE op \notin Branches \union Jumps \union DataReferences
  BY <1>3 DEF Instruction, EmitsPlain
<1> QED BY <1>1, <1>2, <1>3

LEMMA UnitTyped ==
    ASSUME Tables, pos \in Nat \ {0}, NEW op \in Texts, NEW of \in Texts, NEW imm \in Int
    PROVE Unit(op, of, imm, TRUE) \in UnitSet /\ Unit(op, of, imm, FALSE) \in UnitSet
BY CurrentTyped DEF Unit, UnitSet

LEMMA NamedTyped ==
    ASSUME Tables, pos \in Nat \ {0}
    PROVE Named \in Texts /\ "" \in Texts /\ "auipc" \in Texts
<1>1. Named \in Texts
  <2>1. pos + 1 \in Nat \ {0}
    OBVIOUS
  <2> QED BY <2>1, TokenTyped DEF Tables, Named, Peek
<1>2. Eof.value = "" /\ Eof \in Tokens
  BY DEF Eof, Tokens
<1> QED BY <1>1, <1>2 DEF Texts

LEMMA PartsTyped ==
    ASSUME NEW d \in Int
    PROVE /\ Upper(d) \in Int /\ Lower(d) \in Int
          /\ -2048 <= Lower(d) /\ Lower(d) <= 2047
          /\ Upper(d) * 4096 + Lower(d) = d
BY DEF Upper, Lower

LEMMA OffsetTyped ==
    ASSUME Tables, HasSymbol(Named) PROVE Offset \in Int /\ Distance \in Int
<1>1. symbol_table[Named].address \in Nat /\ instruction_index \in Nat
  BY DEF Tables, HasSymbol, Entry, instruction_index
<1> QED BY <1>1, AssemblerAssumption DEF Offset, Displacement, Distance

\* An instruction adds to the code and changes nothing of it.
LEMMA EmitTyped ==
    ASSUME Tables, pos \in Nat \ {0}, Instruction
    PROVE /\ intermediate_code' \in Seq(UnitSet)
          /\ Len(intermediate_code') >= Len(intermediate_code)
          /\ \A k \in 1 .. Len(intermediate_code) : intermediate_code'[k] = intermediate_code[k]
<1>1. intermediate_code \in Seq(UnitSet) /\ Current.value \in Texts /\ 0 \in Int
  BY CurrentTyped DEF Tables
<1>2. ASSUME NEW u \in UnitSet, Emit(<<u>>)
      PROVE /\ intermediate_code' \in Seq(UnitSet)
            /\ Len(intermediate_code') >= Len(intermediate_code)
            /\ \A k \in 1 .. Len(intermediate_code) : intermediate_code'[k] = intermediate_code[k]
  BY <1>1, <1>2 DEF Emit
<1>3. CASE EmitsDirect
  <2>1. Named \in Texts /\ Offset \in Int
    <3>1. HasSymbol(Named)
      BY <1>3 DEF EmitsDirect
    <3> QED BY <3>1, NamedTyped, OffsetTyped
  <2>2. Unit(Current.value, Named, Offset, TRUE) \in UnitSet
    BY <1>1, <2>1, UnitTyped, Zenon
  <2> QED BY <1>2, <1>3, <2>2 DEF EmitsDirect
<1>4. CASE EmitsForward
  <2>1. Unit(Current.value, Named, 0, FALSE) \in UnitSet
    BY <1>1, UnitTyped, NamedTyped, Zenon
  <2> QED BY <1>2, <1>4, <2>1 DEF EmitsForward
<1>5. CASE EmitsReference
  <2>1. /\ Named \in Texts /\ "auipc" \in Texts
        /\ Upper(Distance) \in Int /\ Lower(Distance) \in Int
    <3>1. HasSymbol(Named)
      BY <1>5 DEF EmitsReference
    <3>2. Named \in Texts /\ "auipc" \in Texts /\ Distance \in Int
      BY <3>1, NamedTyped, OffsetTyped
    <3>3. Upper(Distance) \in Int /\ Lower(Distance) \in Int
      BY <3>2, PartsTyped
    <3> QED BY <3>2, <3>3
  <2>2. /\ Unit("auipc", Named, Upper(Distance), TRUE) \in UnitSet
        /\ Unit(Current.value, Named, Lower(Distance), TRUE) \in UnitSet
    BY <1>1, <2>1, UnitTyped, Zenon
  <2>3. PICK u \in UnitSet, v \in UnitSet : intermediate_code' = intermediate_code \o <<u, v>>
    BY <1>5, <2>2 DEF EmitsReference, Emit
  <2> QED BY <1>1, <2>3
<1>6. CASE EmitsPlain
  <2>1. Unit(Current.value, "", 0, TRUE) \in UnitSet
    BY <1>1, UnitTyped, NamedTyped, Zenon
  <2> QED BY <1>2, <1>6, <2>1 DEF EmitsPlain
<1>7. CASE EmitsError
  BY <1>1, <1>7 DEF EmitsError
<1> QED BY <1>3, <1>4, <1>5, <1>6, <1>7, Emits

-----------------------------------------------------------------------------
(***************************************************************************)
(* The second pass touches no data.                                        *)
(***************************************************************************)
SecondActions == SecondPass \/ TextEnds \/ TextLabel \/ Instruction \/ InvalidInstruction

LEMMA SecondKeeps ==
    ASSUME SecondActions
    PROVE /\ UNCHANGED <<tokens, data_index, data_buffer, placed, data_counter>>
          /\ Instruction \/ UNCHANGED <<intermediate_code, back_patch>>
          /\ TextLabel \/ UNCHANGED symbol_table
BY DEF SecondActions, SecondPass, TextEnds, TextLabel, Instruction, InvalidInstruction, text, loader

LEMMA SecondPhases ==
    ASSUME SecondActions
    PROVE /\ phase \in SecondPhase
          /\ \/ phase' \in SecondPhase
             \/ phase' = "patch" /\ pos' = 1 /\ SecondPass /\ Current.type = "EOF_"
BY DEF SecondActions, SecondPass, TextEnds, TextLabel, Instruction, InvalidInstruction,
       InText, SecondPhase

LEMMA SecondMoves ==
    ASSUME SecondActions, Tables, pos \in Nat \ {0}, pos <= Len(tokens) + 1
    PROVE /\ pos' \in Nat \ {0} /\ pos' <= Len(tokens) + 1
          /\ pos' >= pos \/ phase' = "patch"
          /\ Instruction => pos' > pos
<1>1. Len(tokens) \in Nat /\ (Current.type # "EOF_" => pos <= Len(tokens))
  BY CurrentTyped DEF Tables
<1>2. CASE SecondPass
  <2>1. /\ \/ pos' = 1 /\ phase' = "patch"
           \/ pos' = pos + 1 /\ Current.type # "EOF_"
           \/ pos' = SkipTo(pos, {"text"})
           \/ pos' = pos
        /\ phase = "second"
    BY <1>2 DEF SecondPass, IsDirective
  <2>2. SkipTo(pos, {"text"}) \in pos .. Len(tokens) + 1
    BY SkipLands DEF Tables
  <2>3. ~Instruction
    BY <2>1 DEF Instruction, InText
  <2> QED BY <1>1, <2>1, <2>2, <2>3
<1>3. CASE Instruction \/ InvalidInstruction
  <2>1. pos' = NextLine /\ Current.type # "EOF_"
    BY <1>3 DEF Instruction, InvalidInstruction, InText
  <2>2. NextLine \in pos + 1 .. Len(tokens) + 1
    BY <1>1, <2>1, NextLineLands
  <2> QED BY <1>1, <2>1, <2>2
<1>4. CASE TextLabel
  <2>1. pos' = pos + 1 /\ Current.type = "LABEL"
    BY <1>4 DEF TextLabel
  <2> QED BY <1>1, <2>1 DEF Instruction
<1>5. CASE TextEnds
  <2>1. pos' = pos /\ ~Instruction
    BY <1>5 DEF TextEnds, Instruction
  <2> QED BY <2>1
<1> QED BY <1>2, <1>3, <1>4, <1>5 DEF SecondActions

LEMMA SecondTables ==
    ASSUME SecondActions, Tables, pos \in Nat \ {0}
    PROVE Tables'
<1>1. UNCHANGED <<tokens, data_index, data_buffer, placed, data_counter>>
  BY SecondKeeps
<1>2. phase' \in FirstPhase \union SecondPhase \union LastPhase
  BY SecondPhases DEF LastPhase
<1>3. \A label \in DOMAIN symbol_table' : symbol_table'[label] \in Entry
  <2>1. CASE TextLabel
    <3> DEFINE entry == [address |-> 4 * instruction_index, isData |-> FALSE,
                         names |-> instruction_index + 1]
    <3>1. instruction_index \in Nat
      BY DEF Tables, instruction_index
    <3>2. entry \in Entry
      BY <3>1 DEF Entry
    <3>3. Define(Current.value, entry) \/ UNCHANGED symbol_table
      BY <2>1 DEF TextLabel
    <3> HIDE DEF entry
    <3>4. \A label \in DOMAIN symbol_table : symbol_table[label] \in Entry
      BY DEF Tables
    <3> QED BY <3>2, <3>3, <3>4 DEF Define
  <2>2. CASE ~TextLabel
    BY <2>2, SecondKeeps DEF Tables
  <2> QED BY <2>1, <2>2
<1>4. intermediate_code' \in Seq(UnitSet)
  BY SecondKeeps, EmitTyped DEF Tables
<1>5. back_patch' \in Seq(Nat)
  <2>1. CASE Instruction
    <3>1. instruction_index \in Nat
      BY DEF Tables, instruction_index
    <3>2. back_patch' = back_patch \/ back_patch' = Append(back_patch, instruction_index)
      BY <2>1, Emits DEF EmitsDirect, EmitsForward, EmitsReference, EmitsPlain, EmitsError
    <3>3. back_patch \in Seq(Nat) /\ Append(back_patch, instruction_index) \in Seq(Nat)
      BY <3>1, AppendTyped DEF Tables
    <3> QED BY <3>2, <3>3
  <2>2. CASE ~Instruction
    BY <2>2, SecondKeeps DEF Tables
  <2> QED BY <2>1, <2>2
<1> QED BY <1>1, <1>2, <1>3, <1>4, <1>5 DEF Tables

\* A forward reference is noted behind the older ones, before its
\* instruction is added.
LEMMA PatchGrows ==
    ASSUME SecondActions, Tables, pos \in Nat \ {0}
    PROVE \/ UNCHANGED back_patch
          \/ /\ Instruction
             /\ instruction_index \in Nat /\ instruction_index < Len(intermediate_code')
             /\ Len(back_patch') = Len(back_patch) + 1
             /\ \A k \in 1 .. Len(back_patch) : back_patch'[k] = back_patch[k]
             /\ back_patch'[Len(back_patch) + 1] = instruction_index
<1>1. instruction_index \in Nat /\ intermediate_code \in Seq(UnitSet) /\ back_patch \in Seq(Nat)
  BY DEF Tables, instruction_index
<1>2. CASE EmitsForward /\ Instruction
  <2>1. intermediate_code' = intermediate_code \o <<Unit(Current.value, Named, 0, FALSE)>>
    BY <1>2 DEF EmitsForward, Emit
  <2>2. Unit(Current.value, Named, 0, FALSE) \in UnitSet
    <3>1. Current.value \in Texts /\ 0 \in Int
      BY CurrentTyped
    <3> QED BY <3>1, UnitTyped, NamedTyped, Zenon
  <2> HIDE DEF Unit
  <2>3. Len(intermediate_code') = Len(intermediate_code) + 1
    BY <1>1, <2>1, <2>2
  <2>4. back_patch' = Append(back_patch, instruction_index)
    BY <1>2 DEF EmitsForward
  <2>5. instruction_index < Len(intermediate_code')
    BY <1>1, <2>3 DEF instruction_index
  <2> QED BY <1>1, <1>2, <2>4, <2>5, AppendTyped
<1>3. CASE ~(EmitsForward /\ Instruction)
  BY <1>3, Emits, SecondKeeps DEF EmitsDirect, EmitsReference, EmitsPlain, EmitsError
<1> QED BY <1>2, <1>3

LEMMA SecondTyped == ASSUME SecondActions, TypeInv PROVE TypeInv'
<1>1. /\ UNCHANGED <<tokens, data_index, data_buffer, placed, data_counter>>
      /\ Instruction \/ UNCHANGED <<intermediate_code, back_patch>>
  BY SecondKeeps
<1>2. phase \in SecondPhase /\ (phase' \in SecondPhase \/ (phase' = "patch" /\ pos' = 1))
  BY SecondPhases
<1>3. phase \notin LastPhase /\ phase \notin FirstPhase /\ phase' \notin FirstPhase
  BY <1>2 DEF FirstPhase, SecondPhase, LastPhase, DataDirectives, Size
<1>4. Tables' /\ Tables /\ pos \in Nat \ {0} /\ pos <= Len(tokens) + 1 /\ Len(back_patch) < pos
  BY <1>2, <1>3, SecondTables DEF TypeInv, Places
<1>5. /\ pos' \in Nat \ {0} /\ pos' <= Len(tokens) + 1
      /\ pos' >= pos \/ phase' = "patch"
      /\ Instruction => pos' > pos
  BY <1>4, SecondMoves
<1>6. /\ Len(tokens) \in Nat /\ Len(back_patch) \in Nat /\ Len(back_patch') \in Nat
      /\ Len(intermediate_code) \in Nat /\ Len(intermediate_code') \in Nat
      /\ Len(intermediate_code') >= Len(intermediate_code)
  BY <1>1, <1>4, EmitTyped DEF Tables
<1>7. \/ UNCHANGED back_patch
      \/ /\ Instruction
         /\ instruction_index \in Nat /\ instruction_index < Len(intermediate_code')
         /\ Len(back_patch') = Len(back_patch) + 1
         /\ \A k \in 1 .. Len(back_patch) : back_patch'[k] = back_patch[k]
         /\ back_patch'[Len(back_patch) + 1] = instruction_index
  BY <1>4, PatchGrows
<1>8. phase' \in SecondPhase => Len(back_patch') < pos'
  <2>1. phase' # "patch" \/ phase' \notin SecondPhase
    BY DEF SecondPhase
  <2> QED BY <1>4, <1>5, <1>6, <1>7, <2>1
<1>9. phase' \in LastPhase => pos' <= Len(back_patch') + 1 /\ Len(back_patch') <= Len(tokens')
  <2>1. SUFFICES ASSUME phase' \in LastPhase
                 PROVE pos' <= Len(back_patch') + 1 /\ Len(back_patch') <= Len(tokens')
    OBVIOUS
  <2>2. phase' = "patch" /\ pos' = 1 /\ SecondPass
    BY <2>1, SecondPhases DEF SecondPhase, LastPhase
  <2>3. ~Instruction
    BY <2>2 DEF SecondPass, Instruction, InText
  <2> QED BY <1>1, <1>4, <1>6, <2>2, <2>3
<1>10. Places'
  BY <1>1, <1>3, <1>5, <1>8, <1>9 DEF Places
<1>11. Patches'
  <2>1. \A k \in 1 .. Len(back_patch) : back_patch[k] \in Nat /\ back_patch[k] < Len(intermediate_code)
    BY PatchesInside
  <2>2. CASE UNCHANGED back_patch
    BY <1>6, <2>1, <2>2 DEF TypeInv, Patches
  <2>3. CASE ~UNCHANGED back_patch
    <3> DEFINE n == Len(back_patch)
    <3>1. /\ n \in Nat /\ Len(back_patch') = n + 1
          /\ \A k \in 1 .. n : back_patch'[k] = back_patch[k]
          /\ back_patch'[n + 1] = Len(intermediate_code)
          /\ Len(intermediate_code) < Len(intermediate_code')
      BY <1>6, <1>7, <2>3 DEF instruction_index
    <3>2. \A k \in 1 .. n, j \in 1 .. n : k < j => back_patch[k] < back_patch[j]
      BY DEF TypeInv, Patches
    <3> HIDE DEF n
    <3>3. \A k \in 1 .. n + 1 : back_patch'[k] < Len(intermediate_code')
      BY <1>6, <2>1, <3>1 DEF n
    <3>4. \A k \in 1 .. n + 1, j \in 1 .. n + 1 : k < j => back_patch'[k] < back_patch'[j]
      <4> SUFFICES ASSUME NEW k \in 1 .. n + 1, NEW j \in 1 .. n + 1, k < j
                   PROVE back_patch'[k] < back_patch'[j]
        OBVIOUS
      <4>1. k \in 1 .. n /\ back_patch'[k] = back_patch[k]
        BY <3>1
      <4>2. CASE j = n + 1
        BY <2>1, <3>1, <4>1, <4>2 DEF n
      <4>3. CASE j # n + 1
        BY <3>1, <3>2, <4>1, <4>3
      <4> QED BY <4>2, <4>3
    <3> QED BY <3>1, <3>3, <3>4 DEF Patches
  <2> QED BY <2>2, <2>3
<1> QED BY <1>4, <1>10, <1>11 DEF TypeInv

-----------------------------------------------------------------------------
(***************************************************************************)
(* Patching changes offsets only, loading the places of the data only.     *)
(***************************************************************************)
LastActions == Patch \/ Assembled \/ LoadDatum \/ Loaded

Unpatched == intermediate_code[back_patch[pos] + 1]
PatchOffset == Patched(Unpatched.of, back_patch[pos])

LEMMA PatchPlace ==
    ASSUME TypeInv, Patch
    PROVE /\ pos \in 1 .. Len(back_patch) /\ back_patch[pos] \in Nat
          /\ back_patch[pos] + 1 \in 1 .. Len(intermediate_code)
          /\ Unpatched \in UnitSet
<1>1. /\ pos \in 1 .. Len(back_patch) /\ back_patch \in Seq(Nat)
      /\ intermediate_code \in Seq(UnitSet)
      /\ \A k \in 1 .. Len(back_patch) : back_patch[k] < Len(intermediate_code)
  BY DEF TypeInv, Tables, Places, Patches, Patch
<1>2. back_patch[pos] \in Nat /\ back_patch[pos] + 1 \in 1 .. Len(intermediate_code)
  BY <1>1
<1> QED BY <1>1, <1>2 DEF Unpatched

\* A patch sets the offset, gives a branch to data up, or is an error.
LEMMA Patching ==
    ASSUME TypeInv, Patch
    PROVE \/ UNCHANGED intermediate_code /\ errors' # {}
          \/ /\ HasSymbol(Unpatched.of)
             /\ intermediate_code' = [intermediate_code EXCEPT ![back_patch[pos] + 1].imm = PatchOffset,
                                                              ![back_patch[pos] + 1].resolved = TRUE]
          \/ /\ intermediate_code' = [intermediate_code EXCEPT ![back_patch[pos] + 1].resolved = TRUE]
             /\ errors' # {}
<1> DEFINE wrong == PatchError(Unpatched) \union
                    IF PatchError(Unpatched) = {} /\ ~InReach(Unpatched.op, PatchOffset)
                    THEN {"out of range"} ELSE {}
<1>1. /\ errors' = errors \union {[line |-> Unpatched.line, what |-> w] : w \in wrong}
      /\ intermediate_code' =
            CASE wrong = {} -> [intermediate_code EXCEPT ![back_patch[pos] + 1].imm = PatchOffset,
                                                         ![back_patch[pos] + 1].resolved = TRUE]
              [] wrong = {"label references data"} ->
                   [intermediate_code EXCEPT ![back_patch[pos] + 1].resolved = TRUE]
              [] OTHER -> intermediate_code
  BY DEF Patch, Resolve, Unpatched, PatchOffset
<1>2. wrong = {} => HasSymbol(Unpatched.of)
  BY DEF PatchError
<1>3. wrong # {} => errors' # {}
  BY <1>1
<1> HIDE DEF wrong
<1> QED BY <1>1, <1>2, <1>3

LEMMA PatchTyped ==
    ASSUME TypeInv, Patch
    PROVE /\ intermediate_code' \in Seq(UnitSet)
          /\ Len(intermediate_code') = Len(intermediate_code)
          /\ \A k \in 1 .. Len(intermediate_code) :
               /\ intermediate_code'[k].op = intermediate_code[k].op
               /\ intermediate_code'[k].of = intermediate_code[k].of
               /\ intermediate_code'[k].line = intermediate_code[k].line
               /\ k # back_patch[pos] + 1 => intermediate_code'[k] = intermediate_code[k]
<1> DEFINE at == back_patch[pos] + 1
           new == intermediate_code'[at]
<1>1. intermediate_code \in Seq(UnitSet) /\ at \in 1 .. Len(intermediate_code)
      /\ Unpatched \in UnitSet /\ Unpatched = intermediate_code[at]
  BY PatchPlace DEF TypeInv, Tables, Unpatched
<1>2. PatchOffset \in Int \/ ~HasSymbol(Unpatched.of)
  <2>1. SUFFICES ASSUME HasSymbol(Unpatched.of) PROVE PatchOffset \in Int
    OBVIOUS
  <2>2. symbol_table[Unpatched.of].address \in Nat
    BY <2>1 DEF HasSymbol, TypeInv, Tables, Entry
  <2> QED BY <2>2, PatchPlace DEF PatchOffset, Patched, Displacement
<1>3. CASE UNCHANGED intermediate_code
  BY <1>1, <1>3
<1>4. CASE \E u \in UnitSet : /\ u.op = Unpatched.op /\ u.of = Unpatched.of /\ u.line = Unpatched.line
                              /\ intermediate_code' = [intermediate_code EXCEPT ![at] = u]
  <2>1. PICK u \in UnitSet : /\ u.op = Unpatched.op /\ u.of = Unpatched.of /\ u.line = Unpatched.line
                             /\ intermediate_code' = [intermediate_code EXCEPT ![at] = u]
    BY <1>4
  <2> HIDE DEF at
  <2>2. intermediate_code' \in Seq(UnitSet) /\ Len(intermediate_code') = Len(intermediate_code)
    BY <1>1, <2>1
  <2>3. \A k \in 1 .. Len(intermediate_code) :
            intermediate_code'[k] = IF k = at THEN u ELSE intermediate_code[k]
    BY <1>1, <2>1
  <2> QED BY <1>1, <2>1, <2>2, <2>3 DEF at
<1>5. CASE /\ HasSymbol(Unpatched.of)
           /\ intermediate_code' = [intermediate_code EXCEPT ![at].imm = PatchOffset, ![at].resolved = TRUE]
  <2> DEFINE u == [Unpatched EXCEPT !.imm = PatchOffset, !.resolved = TRUE]
  <2>1. u \in UnitSet /\ u.op = Unpatched.op /\ u.of = Unpatched.of /\ u.line = Unpatched.line
    BY <1>1, <1>2, <1>5 DEF UnitSet
  <2>2. intermediate_code' = [intermediate_code EXCEPT ![at] = u]
    BY <1>1, <1>5
  <2> QED BY <1>4, <2>1, <2>2
<1>6. CASE intermediate_code' = [intermediate_code EXCEPT ![at].resolved = TRUE]
  <2> DEFINE u == [Unpatched EXCEPT !.resolved = TRUE]
  <2>1. u \in UnitSet /\ u.op = Unpatched.op /\ u.of = Unpatched.of /\ u.line = Unpatched.line
    BY <1>1 DEF UnitSet
  <2>2. intermediate_code' = [intermediate_code EXCEPT ![at] = u]
    BY <1>1, <1>6
  <2> QED BY <1>4, <2>1, <2>2
<1> QED BY <1>3, <1>5, <1>6, Patching

LEMMA LastKeeps ==
    ASSUME LastActions
    PROVE /\ UNCHANGED <<tokens, symbol_table, data_index, data_buffer, back_patch>>
          /\ phase \in LastPhase /\ phase' \in LastPhase
          /\ Patch \/ UNCHANGED <<pos, intermediate_code, errors>>
          /\ LoadDatum \/ UNCHANGED loader
BY DEF LastActions, Patch, Assembled, LoadDatum, Loaded, text, loader, LastPhase

LEMMA PlaceTyped ==
    ASSUME Tables, LoadDatum
    PROVE placed' \in Seq(Nat) /\ Len(placed') <= Len(data_buffer) /\ data_counter' \in Nat
<1> DEFINE datum == data_buffer[Len(placed) + 1]
           at == Align(data_counter, datum.size)
<1>1. /\ Len(placed) < Len(data_buffer)
      /\ placed' = Append(placed, at) /\ data_counter' = at + datum.size * datum.count
  BY DEF LoadDatum
<1>2. data_buffer \in Seq(Data) /\ placed \in Seq(Nat) /\ data_counter \in Nat
  BY DEF Tables
<1>3. datum \in Data
  BY <1>1, <1>2
<1>4. datum.size \in {1, 2, 4, 8} /\ datum.count \in Nat
  BY <1>3, EndTyped
<1>5. at \in Nat
  BY <1>2, <1>4, AlignTyped
<1> HIDE DEF datum, at
<1> QED BY <1>1, <1>2, <1>4, <1>5

LEMMA LastTyped == ASSUME LastActions, TypeInv PROVE TypeInv'
<1>1. /\ UNCHANGED <<tokens, symbol_table, data_index, data_buffer, back_patch>>
      /\ phase \in LastPhase /\ phase' \in LastPhase
      /\ Patch \/ UNCHANGED <<pos, intermediate_code, errors>>
      /\ LoadDatum \/ UNCHANGED loader
  BY LastKeeps
<1>2. phase' \notin FirstPhase /\ phase' \notin SecondPhase
  BY <1>1 DEF FirstPhase, SecondPhase, LastPhase, DataDirectives, Size
<1>3. intermediate_code' \in Seq(UnitSet) /\ Len(intermediate_code') = Len(intermediate_code)
  BY <1>1, PatchTyped DEF TypeInv, Tables
<1>4. placed' \in Seq(Nat) /\ Len(placed') <= Len(data_buffer) /\ data_counter' \in Nat
  BY <1>1, PlaceTyped DEF TypeInv, Tables, loader
<1>5. Tables'
  BY <1>1, <1>3, <1>4 DEF TypeInv, Tables
<1>6. pos' \in Nat \ {0} /\ pos' <= Len(back_patch) + 1
  <2>1. pos \in Nat \ {0} /\ pos <= Len(back_patch) + 1 /\ Len(back_patch) \in Nat
    BY <1>1 DEF TypeInv, Places, Tables
  <2>2. pos' = pos \/ (pos' = pos + 1 /\ pos <= Len(back_patch))
    BY <1>1 DEF Patch
  <2> QED BY <2>1, <2>2
<1>7. Places'
  BY <1>1, <1>2, <1>6 DEF TypeInv, Places
<1>8. Patches'
  BY <1>1, <1>3 DEF TypeInv, Patches
<1> QED BY <1>5, <1>7, <1>8 DEF TypeInv

LEMMA ActionsAreThese == Next <=> FirstActions \/ SecondActions \/ LastActions
BY DEF Next, FirstActions, SecondActions, LastActions

LEMMA TypeStays == TypeInv /\ UNCHANGED vars => TypeInv'
BY DEF vars, TypeInv, Tables, Places, Patches

LEMMA TypeStarts == Init => TypeInv
<1> SUFFICES ASSUME Init PROVE TypeInv
  OBVIOUS
<1>1. tokens \in Seq(Token) /\ \A p \in 1 .. Len(tokens) : tokens[p].type # "EOF_"
  BY AssemblerAssumption DEF Init
<1>2. /\ pos = 1 /\ phase = "first" /\ data_index = 0 /\ data_counter = 0
      /\ symbol_table = <<>> /\ data_buffer = <<>> /\ intermediate_code = <<>>
      /\ back_patch = <<>> /\ placed = <<>>
  BY DEF Init
<1>3. DOMAIN symbol_table = {} /\ Len(<<>>) = 0
  BY <1>2
<1>4. Tables
  BY <1>1, <1>2, <1>3 DEF Tables, FirstPhase
<1>5. Places
  BY <1>1, <1>2 DEF Places, FirstPhase, SecondPhase, LastPhase
<1>6. Patches
  BY <1>2, <1>3 DEF Patches
<1> QED BY <1>4, <1>5, <1>6 DEF TypeInv

LEMMA TypeHolds == Spec => []TypeInv
<1>1. TypeInv /\ [Next]_vars => TypeInv'
  BY ActionsAreThese, FirstTyped, SecondTyped, LastTyped, TypeStays
<1> QED BY <1>1, TypeStarts, PTL DEF Spec

(***************************************************************************)
(* The tables are consistent: no pass reads past the source, and what is   *)
(* to be patched are instructions of the code, in order, each once.        *)
(***************************************************************************)
THEOREM AssemblerTyped == Spec => []TypeOK
<1>1. TypeInv => TypeOK
  <2> SUFFICES ASSUME TypeInv PROVE TypeOK
    OBVIOUS
  <2>1. pos \in 1 .. Len(tokens) + 1
    <3>1. pos \in Nat \ {0} /\ Len(tokens) \in Nat /\ Len(back_patch) \in Nat
      BY DEF TypeInv, Tables, Places
    <3>2. pos <= Len(tokens) + 1
      BY <3>1 DEF TypeInv, Places
    <3> QED BY <3>1, <3>2
  <2>2. \A label \in DOMAIN symbol_table : symbol_table[label].address \in Nat
    BY DEF TypeInv, Tables, Entry
  <2>3. \A k \in DOMAIN intermediate_code :
          /\ intermediate_code[k].imm \in Int /\ intermediate_code[k].resolved \in BOOLEAN
          /\ intermediate_code[k].line \in Nat
    <3>1. \A k \in DOMAIN intermediate_code : intermediate_code[k] \in UnitSet
      BY DEF TypeInv, Tables
    <3> QED BY <3>1 DEF UnitSet
  <2>4. /\ DOMAIN back_patch = 1 .. Len(back_patch) /\ Len(intermediate_code) \in Nat
        /\ \A k \in DOMAIN back_patch : back_patch[k] \in Nat
    BY DEF TypeInv, Tables
  <2>5. \A k \in DOMAIN back_patch : back_patch[k] \in 0 .. Len(intermediate_code) - 1
    BY <2>4 DEF TypeInv, Patches
  <2>6. \A k \in DOMAIN back_patch, j \in DOMAIN back_patch : k < j => back_patch[k] < back_patch[j]
    BY <2>4 DEF TypeInv, Patches
  <2> QED BY <2>1, <2>2, <2>3, <2>5, <2>6 DEF TypeOK, TypeInv, Tables
<1> QED BY <1>1, TypeHolds, PTL

-----------------------------------------------------------------------------
(***************************************************************************)
(* References to data.  The two units of each compute the address of its   *)
(* label, which nothing changes any more, and no patch touches them.       *)
(***************************************************************************)
Refers(k) ==
    /\ k > 1 /\ intermediate_code[k - 1].op = "auipc"
    /\ HasSymbol(intermediate_code[k].of) /\ symbol_table[intermediate_code[k].of].isData
    /\ -2048 <= intermediate_code[k].imm /\ intermediate_code[k].imm <= 2047
    /\ 4 * (k - 2) + intermediate_code[k - 1].imm * 4096 + intermediate_code[k].imm
         = DataSectionStart + symbol_table[intermediate_code[k].of].address

References ==
    /\ phase \in FirstPhase => intermediate_code = <<>>
    /\ \A k \in 1 .. Len(back_patch) :
         intermediate_code[back_patch[k] + 1].op \in Branches \union Jumps
    /\ \A k \in 1 .. Len(intermediate_code) :
         intermediate_code[k].op \in DataReferences => Refers(k)

\* Behind the first pass a symbol stays what it is.
LEMMA SymbolsStay ==
    ASSUME SecondActions \/ LastActions
    PROVE \A label \in DOMAIN symbol_table :
              label \in DOMAIN symbol_table' /\ symbol_table'[label] = symbol_table[label]
<1>1. CASE TextLabel
  <2>1. \/ UNCHANGED symbol_table
        \/ /\ ~HasSymbol(Current.value)
           /\ \E entry : Define(Current.value, entry)
    BY <1>1 DEF TextLabel
  <2> QED BY <2>1 DEF HasSymbol, Define
<1>2. CASE ~TextLabel
  BY <1>2, SecondKeeps, LastKeeps
<1> QED BY <1>1, <1>2

\* The units an instruction adds.
LEMMA Adds ==
    ASSUME Tables, pos \in Nat \ {0}, Instruction
    PROVE LET n == Len(intermediate_code)
          IN /\ EmitsDirect => /\ Len(intermediate_code') = n + 1
                               /\ intermediate_code'[n + 1] = Unit(Current.value, Named, Offset, TRUE)
             /\ EmitsForward => /\ Len(intermediate_code') = n + 1
                                /\ intermediate_code'[n + 1] = Unit(Current.value, Named, 0, FALSE)
             /\ EmitsPlain => /\ Len(intermediate_code') = n + 1
                              /\ intermediate_code'[n + 1] = Unit(Current.value, "", 0, TRUE)
             /\ EmitsReference => 
                  /\ Len(intermediate_code') = n + 2
                  /\ intermediate_code'[n + 1] = Unit("auipc", Named, Upper(Distance), TRUE)
                  /\ intermediate_code'[n + 2] = Unit(Current.value, Named, Lower(Distance), TRUE)
<1>1. intermediate_code \in Seq(UnitSet)
  BY DEF Tables
<1>2. ASSUME NEW u, Emit(<<u>>)
      PROVE /\ Len(intermediate_code') = Len(intermediate_code) + 1
            /\ intermediate_code'[Len(intermediate_code) + 1] = u
  BY <1>1, <1>2 DEF Emit
<1>3. ASSUME NEW u, NEW v, Emit(<<u, v>>)
      PROVE /\ Len(intermediate_code') = Len(intermediate_code) + 2
            /\ intermediate_code'[Len(intermediate_code) + 1] = u
            /\ intermediate_code'[Len(intermediate_code) + 2] = v
  BY <1>1, <1>3 DEF Emit
<1> QED BY <1>2, <1>3 DEF EmitsDirect, EmitsForward, EmitsPlain, EmitsReference

LEMMA ReferencesStart == Init => References
BY DEF Init, References, FirstPhase

LEMMA ReferencesFirst ==
    ASSUME FirstActions, TypeInv, References PROVE References'
<1>1. UNCHANGED <<intermediate_code, back_patch>> /\ phase \in FirstPhase
  BY FirstKeeps, FirstPhases DEF TypeInv
<1>2. intermediate_code = <<>> /\ back_patch = <<>>
  BY <1>1 DEF References, TypeInv, Places
<1>3. intermediate_code' = <<>> /\ Len(intermediate_code') = 0 /\ Len(back_patch') = 0
  BY <1>1, <1>2
<1> QED BY <1>3 DEF References

\* What an instruction adds computes the address of the label it names.
LEMMA ReferenceAdded ==
    ASSUME TypeInv, Instruction, pos \in Nat \ {0},
           NEW k \in Len(intermediate_code) + 1 .. Len(intermediate_code'),
           intermediate_code'[k].op \in DataReferences
    PROVE Refers(k)'
<1> DEFINE n == Len(intermediate_code)
<1>1. Tables /\ n \in Nat /\ k \in n + 1 .. Len(intermediate_code')
  BY DEF TypeInv, Tables
<1>2. ~EmitsDirect /\ ~EmitsForward /\ ~EmitsPlain /\ ~EmitsError
  <2>1. ~(EmitsDirect \/ EmitsForward \/ EmitsPlain)
    <3> SUFFICES ASSUME EmitsDirect \/ EmitsForward \/ EmitsPlain PROVE FALSE
      OBVIOUS
    <3>1. Len(intermediate_code') = n + 1 /\ intermediate_code'[n + 1].op = Current.value
      <4>1. /\ Len(intermediate_code') = n + 1
            /\ \/ intermediate_code'[n + 1] = Unit(Current.value, Named, Offset, TRUE)
               \/ intermediate_code'[n + 1] = Unit(Current.value, Named, 0, FALSE)
               \/ intermediate_code'[n + 1] = Unit(Current.value, "", 0, TRUE)
        BY <1>1, Adds
      <4>2. /\ Unit(Current.value, Named, Offset, TRUE).op = Current.value
            /\ Unit(Current.value, Named, 0, FALSE).op = Current.value
            /\ Unit(Current.value, "", 0, TRUE).op = Current.value
        BY Zenon DEF Unit
      <4> HIDE DEF n
      <4> QED BY <4>1, <4>2
    <3>2. k = n + 1
      <4> HIDE DEF n
      <4> QED BY <1>1, <3>1
    <3> QED BY <3>1, <3>2 DEF EmitsDirect, EmitsForward, EmitsPlain, DataReferences, Branches, Jumps
  <2>2. ~EmitsError
    BY <1>1 DEF EmitsError
  <2> QED BY <2>1, <2>2
<1>3. EmitsReference
  BY <1>2, Emits
<1>4. /\ Len(intermediate_code') = n + 2
      /\ intermediate_code'[n + 1] = Unit("auipc", Named, Upper(Distance), TRUE)
      /\ intermediate_code'[n + 2] = Unit(Current.value, Named, Lower(Distance), TRUE)
  BY <1>1, <1>3, Adds
<1>5. k = n + 2
  <2>1. intermediate_code'[n + 1].op = "auipc"
    BY <1>4 DEF Unit
  <2>2. intermediate_code'[n + 1].op \notin DataReferences
    BY <2>1 DEF DataReferences
  <2>3. k # n + 1
    BY <2>2
  <2> HIDE DEF n
  <2> QED BY <1>1, <1>4, <2>3
<1>6. HasSymbol(Named) /\ symbol_table[Named].isData /\ symbol_table[Named].address \in Nat
  BY <1>1, <1>3 DEF EmitsReference, Tables, HasSymbol, Entry
<1>7. /\ Distance \in Int /\ Distance = DataSectionStart + (symbol_table[Named].address - 4 * n)
      /\ DataSectionStart \in Nat
  BY <1>1, <1>6, OffsetTyped, AssemblerAssumption DEF Distance, Offset, Displacement, instruction_index
<1>8. /\ Upper(Distance) \in Int /\ Lower(Distance) \in Int
      /\ -2048 <= Lower(Distance) /\ Lower(Distance) <= 2047
      /\ Upper(Distance) * 4096 + Lower(Distance) = Distance
  BY <1>7, PartsTyped
<1>9. UNCHANGED symbol_table
  BY DEF Instruction
<1>10. /\ k > 1 /\ k - 1 = n + 1 /\ k - 2 = n
  BY <1>1, <1>5
<1>11. /\ intermediate_code'[k - 1].op = "auipc" /\ intermediate_code'[k - 1].imm = Upper(Distance)
       /\ intermediate_code'[k].of = Named /\ intermediate_code'[k].imm = Lower(Distance)
  BY <1>4, <1>5, <1>10 DEF Unit
<1> HIDE DEF n
<1>12. 4 * n + Upper(Distance) * 4096 + Lower(Distance) = DataSectionStart + symbol_table[Named].address
  <2> DEFINE u == Upper(Distance)
             l == Lower(Distance)
             a == symbol_table[Named].address
  <2>1. /\ u \in Int /\ l \in Int /\ a \in Nat /\ n \in Nat /\ DataSectionStart \in Nat
        /\ u * 4096 + l = DataSectionStart + (a - 4 * n)
    BY <1>1, <1>6, <1>7, <1>8
  <2> HIDE DEF u, l, a
  <2>2. 4 * n + u * 4096 + l = DataSectionStart + a
    BY <2>1
  <2> QED BY <2>2 DEF u, l, a
<1> QED BY <1>6, <1>8, <1>9, <1>10, <1>11, <1>12 DEF Refers, HasSymbol

LEMMA ReferencesSecond ==
    ASSUME SecondActions, TypeInv, References PROVE References'
<1> DEFINE n == Len(intermediate_code)
<1>1. /\ phase' \notin FirstPhase /\ pos \in Nat \ {0} /\ Tables /\ n \in Nat
      /\ Len(back_patch) \in Nat
      /\ \A k \in 1 .. Len(back_patch) : back_patch[k] \in Nat /\ back_patch[k] < n
  <2>1. phase' \notin FirstPhase
    BY SecondPhases DEF FirstPhase, SecondPhase, DataDirectives, Size
  <2>2. Tables /\ pos \in Nat \ {0} /\ n \in Nat /\ Len(back_patch) \in Nat
    BY DEF TypeInv, Places, Tables
  <2> QED BY <2>1, <2>2, PatchesInside
<1>2. /\ Len(intermediate_code') \in Nat /\ Len(intermediate_code') >= n
      /\ \A k \in 1 .. n : intermediate_code'[k] = intermediate_code[k]
  BY <1>1, SecondKeeps, EmitTyped DEF Tables
<1>3. \A k \in 1 .. Len(back_patch') :
        intermediate_code'[back_patch'[k] + 1].op \in Branches \union Jumps
  <2>1. \A k \in 1 .. Len(back_patch) :
          intermediate_code'[back_patch[k] + 1].op \in Branches \union Jumps
    <3> TAKE k \in 1 .. Len(back_patch)
    <3>1. back_patch[k] + 1 \in 1 .. n
      BY <1>1
    <3>2. intermediate_code[back_patch[k] + 1].op \in Branches \union Jumps
      BY DEF References
    <3> QED BY <1>2, <3>1, <3>2
  <2>2. CASE UNCHANGED back_patch
    BY <2>1, <2>2
  <2>3. CASE ~UNCHANGED back_patch
    <3>1. /\ Instruction /\ Len(back_patch') = Len(back_patch) + 1
          /\ \A k \in 1 .. Len(back_patch) : back_patch'[k] = back_patch[k]
          /\ back_patch'[Len(back_patch) + 1] = n
      BY <1>1, <2>3, PatchGrows DEF instruction_index
    <3>2. EmitsForward
      BY <2>3, <3>1, Emits DEF EmitsDirect, EmitsReference, EmitsPlain, EmitsError
    <3>3. intermediate_code'[n + 1].op \in Branches \union Jumps
      <4>1. intermediate_code'[n + 1] = Unit(Current.value, Named, 0, FALSE)
        BY <1>1, <3>1, <3>2, Adds
      <4> QED BY <3>2, <4>1 DEF Unit, EmitsForward
    <3> HIDE DEF n
    <3> QED BY <1>1, <2>1, <3>1, <3>3
  <2> QED BY <2>2, <2>3
<1>4. \A k \in 1 .. Len(intermediate_code') :
        intermediate_code'[k].op \in DataReferences => Refers(k)'
  <2> SUFFICES ASSUME NEW k \in 1 .. Len(intermediate_code'),
                      intermediate_code'[k].op \in DataReferences
               PROVE Refers(k)'
    OBVIOUS
  <2>1. CASE k \in 1 .. n
    <3>1. intermediate_code'[k] = intermediate_code[k]
      BY <1>2, <2>1
    <3>2. Refers(k)
      BY <2>1, <3>1 DEF References
    <3>3. k - 1 \in 1 .. n
      <4>1. k > 1
        BY <3>2 DEF Refers
      <4> QED BY <1>1, <2>1, <4>1
    <3>4. intermediate_code'[k - 1] = intermediate_code[k - 1]
      BY <1>2, <3>3
    <3>5. /\ intermediate_code[k].of \in DOMAIN symbol_table'
          /\ symbol_table'[intermediate_code[k].of] = symbol_table[intermediate_code[k].of]
      BY <3>2, SymbolsStay DEF Refers, HasSymbol
    <3> QED BY <3>1, <3>2, <3>4, <3>5 DEF Refers, HasSymbol
  <2>2. CASE k \notin 1 .. n
    <3>1. Instruction
      BY <1>1, <2>2, SecondKeeps
    <3>2. k \in n + 1 .. Len(intermediate_code')
      BY <1>1, <1>2, <2>2
    <3> QED BY <1>1, <3>1, <3>2, ReferenceAdded
  <2> QED BY <2>1, <2>2
<1> QED BY <1>1, <1>3, <1>4 DEF References

LEMMA ReferencesLast ==
    ASSUME LastActions, TypeInv, References PROVE References'
<1>1. UNCHANGED <<symbol_table, back_patch>> /\ phase' \in LastPhase
  BY LastKeeps
<1>2. phase' \notin FirstPhase
  BY <1>1 DEF FirstPhase, LastPhase, DataDirectives, Size
<1>3. CASE Patch
  <2> DEFINE n == Len(intermediate_code)
             at == back_patch[pos] + 1
  <2>1. /\ Len(intermediate_code') = n
        /\ \A k \in 1 .. n : /\ intermediate_code'[k].op = intermediate_code[k].op
                             /\ k # at => intermediate_code'[k] = intermediate_code[k]
    BY <1>3, PatchTyped
  <2>2. /\ pos \in 1 .. Len(back_patch) /\ n \in Nat /\ Len(back_patch) \in Nat
        /\ \A k \in 1 .. Len(back_patch) : back_patch[k] + 1 \in 1 .. n
    <3>1. /\ pos \in 1 .. Len(back_patch) /\ n \in Nat /\ Len(back_patch) \in Nat
          /\ \A k \in 1 .. Len(back_patch) : back_patch[k] \in Nat /\ back_patch[k] < n
      <4>1. n \in Nat /\ Len(back_patch) \in Nat
        BY DEF TypeInv, Tables
      <4> QED BY <1>3, <4>1, PatchPlace, PatchesInside
    <3> HIDE DEF n
    <3> QED BY <3>1
  <2>3. intermediate_code[at].op \in Branches \union Jumps
    BY <2>2 DEF References
  <2>4. \A k \in 1 .. Len(back_patch) : intermediate_code'[back_patch[k] + 1].op \in Branches \union Jumps
    <3> TAKE k \in 1 .. Len(back_patch)
    <3>1. intermediate_code[back_patch[k] + 1].op \in Branches \union Jumps
      BY DEF References
    <3> QED BY <2>1, <2>2, <3>1
  <2>5. \A k \in 1 .. n : intermediate_code'[k].op \in DataReferences => Refers(k)'
    <3> SUFFICES ASSUME NEW k \in 1 .. n, intermediate_code'[k].op \in DataReferences
                 PROVE Refers(k)'
      OBVIOUS
    <3>1. intermediate_code[k].op \in DataReferences /\ Refers(k)
      BY <2>1 DEF References
    <3>2. k - 1 \in 1 .. n /\ intermediate_code[k - 1].op = "auipc"
      BY <2>2, <3>1 DEF Refers
    <3>3. k # at /\ k - 1 # at
      BY <2>3, <3>1, <3>2 DEF Branches, Jumps, DataReferences
    <3>4. intermediate_code'[k] = intermediate_code[k] /\ intermediate_code'[k - 1] = intermediate_code[k - 1]
      BY <2>1, <3>2, <3>3
    <3> QED BY <1>1, <3>1, <3>4 DEF Refers, HasSymbol
  <2> QED BY <1>1, <1>2, <2>1, <2>4, <2>5 DEF References
<1>4. CASE ~Patch
  BY <1>1, <1>2, <1>4, LastKeeps DEF References, Refers, HasSymbol
<1> QED BY <1>3, <1>4

LEMMA ReferencesHold == Spec => []References
<1>1. TypeInv /\ References /\ [Next]_vars => References'
  <2>1. References /\ UNCHANGED vars => References'
    BY DEF vars, References, Refers, HasSymbol
  <2> QED BY <2>1, ActionsAreThese, ReferencesFirst, ReferencesSecond, ReferencesLast
<1> QED BY <1>1, ReferencesStart, TypeHolds, PTL DEF Spec

-----------------------------------------------------------------------------
(***************************************************************************)
(* The data.  Each datum lies behind the one before it, aligned; a label   *)
(* has the place of its datum, or the one the directive behind it is about *)
(* to give the next datum.                                                 *)
(***************************************************************************)
EndOf(k) == IF k = 0 THEN 0 ELSE data_buffer[k].at + data_buffer[k].size * data_buffer[k].count

Waiting(d) ==
    /\ data_index = Align(EndOf(Len(data_buffer)), Size[d])
    /\ \/ phase = "data" /\ IsDirective(Current, d)
       \/ phase = d /\ Current.type = Takes(d)
Awaited == \E d \in DataDirectives : Waiting(d)

Entered(entry) ==
    entry.names \in 1 .. Len(data_buffer) /\ entry.address = data_buffer[entry.names].at
Expected(entry) ==
    entry.names = Len(data_buffer) + 1 /\ entry.address = data_index /\ Awaited

Regular == errors = {} /\ ~EmptyDirective /\ ~DirectiveSpelled

Laid ==
    Regular =>
      /\ \A k \in 1 .. Len(data_buffer) :
           data_buffer[k].at = Align(EndOf(k - 1), data_buffer[k].size)
      /\ phase \in FirstPhase => data_index = EndOf(Len(data_buffer)) \/ Awaited
      /\ \A label \in DOMAIN symbol_table : symbol_table[label].isData =>
           Entered(symbol_table[label]) \/ Expected(symbol_table[label])

LEMMA ErrorsStay == ASSUME [Next]_vars PROVE errors \subseteq errors' /\ UNCHANGED tokens
<1>1. \A what : Error(what) => errors \subseteq errors'
  BY DEF Error
<1>2. Patch => errors \subseteq errors'
  BY DEF Patch, Resolve
<1>3. FirstActions => errors \subseteq errors'
  BY <1>1 DEF FirstActions, FirstPass, DataEnds, DataLabel, DataDirective, DataElement,
              InvalidDirective
<1>4. SecondActions => errors \subseteq errors'
  <2>1. Instruction => errors \subseteq errors'
    <3> SUFFICES ASSUME Instruction, ~(errors \subseteq errors') PROVE FALSE
      OBVIOUS
    <3>1. ~UNCHANGED errors /\ \A what : ~Error(what)
      BY <1>1
    <3> QED BY <3>1 DEF Instruction
  <2> QED BY <1>1, <2>1 DEF SecondActions, SecondPass, TextEnds, TextLabel, InvalidInstruction
<1>5. LastActions => errors \subseteq errors'
  BY <1>2, LastKeeps
<1>6. UNCHANGED vars => UNCHANGED <<errors, tokens>>
  BY DEF vars
<1> QED BY <1>3, <1>4, <1>5, <1>6, ActionsAreThese, FirstKeeps, SecondKeeps, LastKeeps

LEMMA RegularStays == ASSUME [Next]_vars, Regular' PROVE Regular
<1>1. UNCHANGED tokens /\ errors = {}
  BY ErrorsStay DEF Regular
<1>2. EmptyDirective' <=> EmptyDirective
  BY <1>1 DEF EmptyDirective, Positions, TokenAt
<1>3. DirectiveSpelled' <=> DirectiveSpelled
  BY <1>1 DEF DirectiveSpelled, Spelled, Positions
<1> QED BY <1>1, <1>2, <1>3 DEF Regular

\* Nothing is awaited: what leaves the data alone keeps it laid.
LEMMA LaidStays ==
    ASSUME [Next]_vars, Laid, UNCHANGED <<data_index, data_buffer>>, ~Awaited,
           phase \in FirstPhase \/ phase' \notin FirstPhase,
           \A label \in DOMAIN symbol_table' :
             \/ ~symbol_table'[label].isData
             \/ label \in DOMAIN symbol_table /\ symbol_table'[label] = symbol_table[label]
    PROVE Laid'
<1> SUFFICES ASSUME Regular'
             PROVE /\ \A k \in 1 .. Len(data_buffer') :
                        data_buffer'[k].at = Align(EndOf(k - 1)', data_buffer'[k].size)
                   /\ phase' \in FirstPhase => data_index' = EndOf(Len(data_buffer))' \/ Awaited'
                   /\ \A label \in DOMAIN symbol_table' : symbol_table'[label].isData =>
                        Entered(symbol_table[label])' \/ Expected(symbol_table[label])'
  BY DEF Laid
<1>1. Regular
  BY RegularStays
<1> QED BY <1>1 DEF Laid, Entered, Expected, EndOf

\* What awaits its datum: a directive that was read, or is to be read next.
LEMMA AwaitedWhere ==
    ASSUME Awaited
    PROVE /\ phase \in FirstPhase /\ phase # "first"
          /\ phase = "data" => InData /\ Current.type = "DIRECTIVE"
          /\ phase \in DataDirectives => Current.type = Takes(phase) /\ Waiting(phase)
<1>1. PICK d \in DataDirectives : Waiting(d)
  BY DEF Awaited
<1>2. d # "data" /\ d # "first" /\ d \notin SectionNames /\ "data" \notin DataDirectives
  BY DEF DataDirectives, Size, SectionNames
<1> QED BY <1>1, <1>2 DEF Waiting, FirstPhase, IsDirective, InData

LEMMA LaidFirstPass ==
    ASSUME [Next]_vars, Laid, FirstPass \/ DataEnds PROVE Laid'
<1>1. ~Awaited
  <2>1. "first" \notin DataDirectives
    BY DEF DataDirectives, Size
  <2> QED BY <2>1, AwaitedWhere DEF FirstPass, DataEnds
<1>2. phase \in FirstPhase /\ UNCHANGED <<data_index, data_buffer, symbol_table>>
  BY DEF FirstPass, DataEnds, FirstPhase
<1> QED BY <1>1, <1>2, LaidStays

\* A label takes the place its directive aligns the data to.
LEMMA LaidLabel ==
    ASSUME [Next]_vars, TypeInv, Laid, DataLabel PROVE Laid'
<1> SUFFICES ASSUME Regular' PROVE Laid'
  BY DEF Laid
<1>1. Regular
  BY RegularStays
<1>2. /\ phase = "data" /\ phase' = "data" /\ Current.type = "LABEL"
      /\ pos \in Nat \ {0} /\ pos' = pos + 1
      /\ UNCHANGED <<tokens, data_buffer>>
  BY DEF DataLabel, InData, TypeInv, Places
<1>3. ~Awaited
  BY <1>2, AwaitedWhere
<1>4. data_index = EndOf(Len(data_buffer)) /\ EndOf(Len(data_buffer))' = EndOf(Len(data_buffer))
  BY <1>1, <1>2, <1>3 DEF Laid, FirstPhase, EndOf
<1>5. PICK d \in DataDirectives : d = Peek(1).value
  <2>1. ~Error("invalid directive")
    BY ErrorShows DEF Regular
  <2> QED BY <2>1 DEF DataLabel
<1>6. data_index' = Align(data_index, Size[d])
  BY <1>5 DEF DataLabel, LabelIndex
<1>7. Current' = Peek(1)
  BY <1>2 DEF Current, Peek, TokenAt
<1>8. Peek(1).type = "DIRECTIVE"
  <2>1. pos + 1 \in Positions /\ Peek(1) = tokens[pos + 1]
    <3>1. Eof.value \notin DataDirectives
      BY DEF Eof, DataDirectives, Size
    <3>2. pos + 1 <= Len(tokens)
      BY <1>5, <3>1 DEF Peek, TokenAt
    <3>3. Len(tokens) \in Nat /\ DOMAIN tokens = 1 .. Len(tokens)
      BY DEF TypeInv, Tables
    <3> QED BY <1>2, <3>2, <3>3 DEF Peek, TokenAt, Positions
  <2>2. ~DirectiveSpelled
    BY <1>1 DEF Regular
  <2> QED BY <1>5, <2>1, <2>2 DEF DirectiveSpelled, Spelled
<1>9. Waiting(d)'
  <2>1. Current'.type = "DIRECTIVE" /\ Current'.value = d
    BY <1>5, <1>7, <1>8
  <2> QED BY <1>2, <1>4, <1>5, <1>6, <2>1 DEF Waiting, IsDirective
<1>10. Awaited'
  BY <1>5, <1>9 DEF Awaited
<1>11. \A k \in 1 .. Len(data_buffer) :
         data_buffer[k].at = Align(EndOf(k - 1)', data_buffer[k].size)
  BY <1>1, <1>2 DEF Laid, EndOf
<1>12. \A label \in DOMAIN symbol_table' : symbol_table'[label].isData =>
         Entered(symbol_table[label])' \/ Expected(symbol_table[label])'
  <2> TAKE label \in DOMAIN symbol_table'
  <2>1. CASE label = Current.value
    <3>1. symbol_table'[label] = [address |-> data_index', isData |-> TRUE, names |-> Len(data_buffer) + 1]
      BY <2>1 DEF DataLabel, Define
    <3>2. symbol_table'[label].names = Len(data_buffer) + 1 /\ symbol_table'[label].address = data_index'
      BY <3>1
    <3> QED BY <1>2, <1>10, <3>2 DEF Expected
  <2>2. CASE label # Current.value
    <3>1. label \in DOMAIN symbol_table /\ symbol_table'[label] = symbol_table[label]
      BY <2>2 DEF DataLabel, Define
    <3> QED BY <1>1, <1>2, <1>3, <3>1 DEF Laid, Entered, Expected
  <2> QED BY <2>1, <2>2
<1> QED BY <1>2, <1>10, <1>11, <1>12 DEF Laid

\* Behind a directive is what it takes.
LEMMA LaidDirective ==
    ASSUME [Next]_vars, TypeInv, Laid, DataDirective PROVE Laid'
<1> SUFFICES ASSUME Regular' PROVE Laid'
  BY DEF Laid
<1>1. Regular
  BY RegularStays
<1>2. /\ phase = "data" /\ phase' = Current.value /\ Current.value \in DataDirectives
      /\ Current.type # "EOF_" /\ pos \in Nat \ {0} /\ pos' = pos + 1
      /\ UNCHANGED <<tokens, data_buffer, data_index, symbol_table>>
  BY DEF DataDirective, InData, TypeInv, Places
<1>3. pos \in Positions /\ Current = tokens[pos]
  <2>1. pos <= Len(tokens) /\ Current = tokens[pos]
    BY <1>2, CurrentTyped DEF TypeInv
  <2>2. Len(tokens) \in Nat /\ DOMAIN tokens = 1 .. Len(tokens)
    BY DEF TypeInv, Tables
  <2> QED BY <1>2, <2>1, <2>2 DEF Positions
<1>4. Current.type = "DIRECTIVE"
  BY <1>1, <1>2, <1>3 DEF Regular, DirectiveSpelled, Spelled
<1>5. TokenAt(pos + 1).type = Takes(Current.value)
  BY <1>1, <1>2, <1>3, <1>4 DEF Regular, EmptyDirective
<1>6. Current'.type = Takes(Current.value)
  BY <1>2, <1>5 DEF Current, TokenAt
<1>7. Awaited => Awaited'
  <2> SUFFICES ASSUME NEW d \in DataDirectives, Waiting(d) PROVE Waiting(d)'
    BY DEF Awaited
  <2>1. d = Current.value
    BY <1>2 DEF Waiting, IsDirective, DataDirectives, Size
  <2> QED BY <1>2, <1>6, <2>1 DEF Waiting, EndOf
<1> QED BY <1>1, <1>2, <1>7 DEF Laid, FirstPhase, Entered, Expected, EndOf

\* The next datum lies behind the last, where a label expects it.
LEMMA LaidElement ==
    ASSUME [Next]_vars, TypeInv, Laid, DataElement PROVE Laid'
<1> SUFFICES ASSUME Regular' PROVE Laid'
  BY DEF Laid
<1> DEFINE n == Len(data_buffer)
           datum == Datum(phase, Current)
<1>1. Regular
  BY RegularStays
<1>2. phase \in DataDirectives /\ phase # "data" /\ UNCHANGED <<tokens, symbol_table>>
  BY DEF DataElement, DataDirectives, Size
<1>3. CASE Current.type # Takes(phase)
  BY <1>2, <1>3, AwaitedWhere, LaidStays DEF DataElement, FirstPhase
<1>4. CASE Current.type = Takes(phase)
  <2>1. /\ phase' = phase /\ data_buffer' = Append(data_buffer, datum)
        /\ data_index' = datum.at + datum.size * datum.count
    <3>1. ~Error("invalid zero directive")
      BY ErrorShows DEF Regular
    <3> QED BY <1>4, <3>1 DEF DataElement
  <2>2. /\ data_buffer \in Seq(Data) /\ n \in Nat /\ datum \in Data
        /\ data_index \in Nat /\ Size[phase] \in {1, 2, 4, 8}
    BY <1>2, DatumTyped, SizeTyped DEF TypeInv, Places, Tables
  <2>3. /\ Len(data_buffer') = n + 1 /\ data_buffer'[n + 1] = datum
        /\ \A k \in 1 .. n : data_buffer'[k] = data_buffer[k]
    BY <2>1, <2>2, AppendTyped
  <2>4. \A k \in 0 .. n : EndOf(k)' = EndOf(k)
    BY <2>2, <2>3 DEF EndOf
  <2>5. EndOf(n) \in Nat
    <3>1. n # 0 => data_buffer[n] \in Data
      BY <2>2
    <3> QED BY <3>1, EndTyped DEF EndOf
  <2>6. /\ datum.at = Align(EndOf(n), Size[phase]) /\ datum.size = Size[phase]
        /\ Awaited => datum.at = data_index
    <3>1. datum.at = Align(data_index, Size[phase]) /\ datum.size = Size[phase]
      BY DEF Datum
    <3>2. CASE Awaited
      <4>1. data_index = Align(EndOf(n), Size[phase])
        BY <1>2, <3>2, AwaitedWhere DEF Waiting
      <4> QED BY <2>2, <2>5, <3>1, <4>1, AlignTyped
    <3>3. CASE ~Awaited
      <4>1. data_index = EndOf(n)
        BY <1>1, <1>2, <3>3 DEF Laid, FirstPhase
      <4> QED BY <3>1, <3>3, <4>1
    <3> QED BY <3>2, <3>3
  <2> HIDE DEF datum, n
  <2>7. \A k \in 1 .. n + 1 : data_buffer'[k].at = Align(EndOf(k - 1)', data_buffer'[k].size)
    <3> TAKE k \in 1 .. n + 1
    <3>1. EndOf(k - 1)' = EndOf(k - 1)
      BY <2>2, <2>4
    <3>2. CASE k = n + 1
      BY <2>2, <2>3, <2>6, <3>1, <3>2
    <3>3. CASE k \in 1 .. n
      BY <1>1, <2>3, <3>1, <3>3 DEF Laid, n
    <3> QED BY <2>2, <3>2, <3>3
  <2>8. \A label \in DOMAIN symbol_table : symbol_table[label].isData =>
          symbol_table[label].names \in 1 .. n + 1 /\
          symbol_table[label].address = data_buffer'[symbol_table[label].names].at
    <3> SUFFICES ASSUME NEW label \in DOMAIN symbol_table, symbol_table[label].isData
                 PROVE /\ symbol_table[label].names \in 1 .. n + 1
                       /\ symbol_table[label].address = data_buffer'[symbol_table[label].names].at
      OBVIOUS
    <3>1. CASE Entered(symbol_table[label])
      BY <2>2, <2>3, <3>1 DEF Entered, n
    <3>2. CASE Expected(symbol_table[label])
      BY <2>2, <2>3, <2>6, <3>2 DEF Expected, n
    <3> QED BY <1>1, <3>1, <3>2 DEF Laid
  <2>9. data_index' = EndOf(Len(data_buffer))'
    BY <2>1, <2>2, <2>3 DEF EndOf
  <2> QED BY <1>2, <2>3, <2>7, <2>8, <2>9 DEF Laid, Entered
<1> QED BY <1>3, <1>4

\* Behind the first pass nothing is awaited and the labels of the data stay.
LEMMA LaidLater ==
    ASSUME [Next]_vars, Laid, SecondActions \/ LastActions PROVE Laid'
<1>1. phase \notin FirstPhase /\ phase' \notin FirstPhase
  BY SecondPhases, LastKeeps DEF FirstPhase, SecondPhase, LastPhase, DataDirectives, Size
<1>2. ~Awaited
  BY <1>1, AwaitedWhere
<1>3. UNCHANGED <<data_index, data_buffer>>
  BY SecondKeeps, LastKeeps
<1>4. \A label \in DOMAIN symbol_table' :
        \/ ~symbol_table'[label].isData
        \/ label \in DOMAIN symbol_table /\ symbol_table'[label] = symbol_table[label]
  <2>1. CASE TextLabel
    <3>1. \/ UNCHANGED symbol_table
          \/ \E entry : ~entry.isData /\ Define(Current.value, entry)
      BY <2>1 DEF TextLabel
    <3> QED BY <3>1 DEF Define
  <2>2. CASE ~TextLabel
    BY <2>2, SecondKeeps, LastKeeps
  <2> QED BY <2>1, <2>2
<1> QED BY <1>1, <1>2, <1>3, <1>4, LaidStays

LEMMA LaidHolds == Spec => []Laid
<1>1. Init => Laid
  BY DEF Init, Laid, EndOf
<1>2. TypeInv /\ Laid /\ [Next]_vars => Laid'
  <2> SUFFICES ASSUME TypeInv, Laid, [Next]_vars PROVE Laid'
    OBVIOUS
  <2>1. CASE InvalidDirective
    <3>1. ~Regular'
      BY <2>1, ErrorShows DEF InvalidDirective, Regular
    <3> QED BY <3>1 DEF Laid
  <2>2. CASE UNCHANGED vars
    BY <2>2 DEF vars, Laid, Regular, EmptyDirective, DirectiveSpelled, Spelled, Positions, EndOf,
                Awaited, Waiting, Entered, Expected, Current, TokenAt
  <2> QED BY <2>1, <2>2, ActionsAreThese, LaidFirstPass, LaidLabel, LaidDirective, LaidElement,
             LaidLater DEF FirstActions
<1> QED BY <1>1, <1>2, TypeHolds, PTL DEF Spec

\* LoadProgram places each datum where the assembler counted it.
Placed ==
    /\ phase \in {"load", "loaded"} => errors = {}
    /\ phase \notin {"load", "loaded"} => placed = <<>> /\ data_counter = 0
    /\ phase = "loaded" => Len(placed) = Len(data_buffer)
    /\ Regular => /\ data_counter = EndOf(Len(placed))
                  /\ \A k \in 1 .. Len(placed) : placed[k] = data_buffer[k].at

LEMMA PlacedDatum ==
    ASSUME TypeInv, Laid, Placed, LoadDatum PROVE Placed'
<1> DEFINE n == Len(placed)
           datum == data_buffer[n + 1]
           at == Align(data_counter, datum.size)
<1>1. /\ phase = "load" /\ n < Len(data_buffer)
      /\ placed' = Append(placed, at) /\ data_counter' = at + datum.size * datum.count
      /\ UNCHANGED <<tokens, phase, data_buffer, errors>>
  BY DEF LoadDatum
<1>2. placed \in Seq(Nat) /\ data_buffer \in Seq(Data) /\ n \in Nat /\ data_counter \in Nat
  BY DEF TypeInv, Tables
<1>3. datum \in Data /\ n + 1 \in 1 .. Len(data_buffer)
  BY <1>1, <1>2
<1>4. at \in Nat
  BY <1>2, <1>3, EndTyped, AlignTyped
<1>5. /\ Len(placed') = n + 1 /\ placed'[n + 1] = at
      /\ \A k \in 1 .. n : placed'[k] = placed[k]
  BY <1>1, <1>2, <1>4, AppendTyped
<1>6. Regular' => Regular
  BY <1>1 DEF Regular, EmptyDirective, DirectiveSpelled, Spelled, Positions, TokenAt
<1>7. Regular => at = datum.at
  <2> SUFFICES ASSUME Regular PROVE at = datum.at
    OBVIOUS
  <2>1. data_counter = EndOf(n) /\ n + 1 - 1 = n
    BY <1>2 DEF Placed
  <2>2. datum.at = Align(EndOf(n + 1 - 1), datum.size)
    BY <1>3 DEF Laid
  <2> QED BY <2>1, <2>2
<1>8. Regular => data_counter' = EndOf(Len(placed))'
  <2> SUFFICES ASSUME Regular PROVE data_counter' = EndOf(Len(placed))'
    OBVIOUS
  <2>1. n + 1 # 0
    BY <1>2
  <2> QED BY <1>1, <1>5, <1>7, <2>1 DEF EndOf
<1>9. Regular => \A k \in 1 .. Len(placed') : placed'[k] = data_buffer'[k].at
  <2> SUFFICES ASSUME Regular, NEW k \in 1 .. n + 1 PROVE placed'[k] = data_buffer'[k].at
    BY <1>5
  <2>1. CASE k = n + 1
    BY <1>1, <1>5, <1>7, <2>1
  <2>2. CASE k # n + 1
    <3>1. k \in 1 .. n
      BY <1>2, <2>2
    <3> QED BY <1>1, <1>5, <3>1 DEF Placed
  <2> QED BY <2>1, <2>2
<1> QED BY <1>1, <1>6, <1>8, <1>9 DEF Placed

LEMMA PlacedHolds == Spec => []Placed
<1>1. Init => Placed
  BY DEF Init, Placed, EndOf
<1>2. TypeInv /\ Laid /\ Placed /\ [Next]_vars => Placed'
  <2> SUFFICES ASSUME TypeInv, Laid, Placed, [Next]_vars PROVE Placed'
    OBVIOUS
  <2>1. CASE FirstActions \/ SecondActions
    <3>1. phase \notin {"load", "loaded"} /\ phase' \notin {"load", "loaded"}
      BY <2>1, FirstPhases, SecondPhases DEF TypeInv, FirstPhase, SecondPhase, DataDirectives, Size
    <3>2. UNCHANGED <<placed, data_counter>>
      BY <2>1, FirstKeeps, SecondKeeps
    <3>3. placed = <<>> /\ data_counter = 0
      BY <3>1 DEF Placed
    <3> QED BY <3>1, <3>2, <3>3 DEF Placed, EndOf
  <2>2. CASE Patch \/ Assembled \/ Loaded
    <3>1. /\ UNCHANGED <<placed, data_counter, data_buffer>>
          /\ phase' \in {"load", "loaded"} => errors' = {}
          /\ phase' \notin {"load", "loaded"} => phase \notin {"load", "loaded"}
          /\ phase' = "loaded" => Len(placed) = Len(data_buffer)
      BY <2>2 DEF Patch, Assembled, Loaded, Placed, loader
    <3>2. Regular' => Regular
      BY RegularStays
    <3> QED BY <3>1, <3>2 DEF Placed, EndOf
  <2>3. CASE UNCHANGED vars
    BY <2>3 DEF vars, Placed, Regular, EmptyDirective, DirectiveSpelled, Spelled, Positions, TokenAt,
                EndOf
  <2> QED BY <2>1, <2>2, <2>3, PlacedDatum, ActionsAreThese DEF LastActions
<1> QED BY <1>1, <1>2, TypeHolds, LaidHolds, PTL DEF Spec

(***************************************************************************)
(* The two places that lay the data out, the assembler's first pass and    *)
(* LoadProgram, agree, however the data and the labels follow each other:  *)
(* the two instructions of every reference to data compute the address at  *)
(* which the first datum behind its label was put.                         *)
(***************************************************************************)
THEOREM DataReferencesCorrect == Spec => []DataReferencesReach
<1>1. TypeInv /\ References /\ Laid /\ Placed => DataReferencesReach
  <2> SUFFICES ASSUME TypeInv, References, Laid, Placed, phase = "loaded",
                      ~EmptyDirective, ~DirectiveSpelled,
                      NEW k \in DOMAIN intermediate_code,
                      intermediate_code[k].op \in DataReferences
               PROVE LET upper == intermediate_code[k - 1]
                         lower == intermediate_code[k]
                         label == symbol_table[lower.of]
                     IN /\ upper.op = "auipc"
                        /\ -2048 <= lower.imm /\ lower.imm <= 2047
                        /\ label.names <= Len(placed)
                        /\ 4 * (k - 2) + upper.imm * 4096 + lower.imm
                             = DataSectionStart + placed[label.names]
    BY DEF DataReferencesReach
  <2> DEFINE label == symbol_table[intermediate_code[k].of]
  <2>1. Refers(k)
    BY DEF References, TypeInv, Tables
  <2>2. Regular /\ Len(placed) = Len(data_buffer) /\ Len(placed) \in Nat
    BY DEF Placed, Regular, TypeInv, Tables
  <2>3. ~Awaited
    BY AwaitedWhere DEF FirstPhase, DataDirectives, Size
  <2>4. Entered(label)
    BY <2>1, <2>2, <2>3 DEF Refers, HasSymbol, Laid, Expected
  <2>5. label.names \in 1 .. Len(placed) /\ placed[label.names] = label.address
    BY <2>2, <2>4 DEF Entered, Placed
  <2> QED BY <2>1, <2>2, <2>5 DEF Refers
<1> QED BY <1>1, TypeHolds, ReferencesHold, LaidHolds, PlacedHolds, PTL

-----------------------------------------------------------------------------
(***************************************************************************)
(* The mapping from lines to instructions, by induction over the code.     *)
(***************************************************************************)
\* A mapping of the first n instructions.
Mapping(f, n) ==
    f = [k \in 0 .. n |-> IF k = 0 THEN <<>> ELSE f[k - 1] \o LinesUpTo(f[k - 1], k)]

LEMMA MappingExists == \A n \in Nat : \E f : Mapping(f, n)
<1> DEFINE T == {n \in Nat : \E f : Mapping(f, n)}
<1>1. 0 \in T
  <2>1. Mapping([k \in 0 .. 0 |-> <<>>], 0)
    <3>1. \A k \in 0 .. 0 : k = 0
      OBVIOUS
    <3> QED BY <3>1 DEF Mapping
  <2> QED BY <2>1
<1>2. \A n \in Nat : n \in T => n + 1 \in T
  <2> SUFFICES ASSUME NEW n \in Nat, NEW f, Mapping(f, n) PROVE \E g : Mapping(g, n + 1)
    OBVIOUS
  <2> DEFINE last == f[n] \o LinesUpTo(f[n], n + 1)
             g == [k \in 0 .. n + 1 |-> IF k = n + 1 THEN last ELSE f[k]]
  <2>1. \A k \in 0 .. n + 1 : g[k] = IF k = n + 1 THEN last ELSE f[k]
    OBVIOUS
  <2>2. \A k \in 0 .. n : g[k] = f[k]
    BY <2>1
  <2>3. \A k \in 0 .. n : f[k] = IF k = 0 THEN <<>> ELSE f[k - 1] \o LinesUpTo(f[k - 1], k)
    BY DEF Mapping
  <2> HIDE DEF g
  <2>4. \A k \in 0 .. n + 1 :
          g[k] = IF k = 0 THEN <<>> ELSE g[k - 1] \o LinesUpTo(g[k - 1], k)
    <3> TAKE k \in 0 .. n + 1
    <3>1. CASE k = n + 1
      <4>1. k # 0 /\ k - 1 = n /\ n \in 0 .. n
        BY <3>1
      <4>2. g[k - 1] = f[n]
        BY <2>2, <4>1
      <4>3. g[k] = last
        BY <2>1, <3>1
      <4>4. last = g[k - 1] \o LinesUpTo(g[k - 1], k)
        BY <3>1, <4>2
      <4> HIDE DEF last
      <4> QED BY <4>1, <4>3, <4>4
    <3>2. CASE k \in 1 .. n
      <4>1. g[k] = f[k] /\ g[k - 1] = f[k - 1] /\ k # 0
        BY <2>2, <3>2
      <4>2. f[k] = IF k = 0 THEN <<>> ELSE f[k - 1] \o LinesUpTo(f[k - 1], k)
        <5>1. k \in 0 .. n
          BY <3>2
        <5> QED BY <2>3, <5>1, Zenon
      <4> QED BY <4>1, <4>2, Zenon
    <3>3. CASE k = 0
      BY <2>2, <2>3, <3>3
    <3> QED BY <3>1, <3>2, <3>3
  <2>5. g = [k \in 0 .. n + 1 |-> g[k]]
    BY DEF g
  <2>6. Mapping(g, n + 1)
    BY <2>4, <2>5 DEF Mapping
  <2> QED BY <2>6
<1> HIDE DEF T
<1>3. Nat \subseteq T
  BY <1>1, <1>2, Counting
<1> QED BY <1>3 DEF T

LEMMA LinesMapped ==
    ASSUME Tables
    PROVE \E f : Mapping(f, Len(intermediate_code)) /\ LineMapping = f[Len(intermediate_code)]
<1>1. Len(intermediate_code) \in Nat
  BY DEF Tables
<1>2. \E f : Mapping(f, Len(intermediate_code))
  BY <1>1, MappingExists
<1> QED BY <1>2 DEF LineMapping, Mapping

\* Of the first k instructions, the lines lead to the first behind them.
Leads(lines, k) ==
    /\ lines \in Seq(Nat)
    /\ \A j \in 1 .. k : intermediate_code[j].line <= Len(lines)
    /\ \A line \in 1 .. Len(lines) :
         /\ lines[line] + 1 \in 1 .. k
         /\ intermediate_code[lines[line] + 1].line >= line
         /\ \A j \in 1 .. lines[line] : intermediate_code[j].line < line

LEMMA LinesLead ==
    ASSUME Tables, NEW k \in 1 .. Len(intermediate_code), NEW lines, Leads(lines, k - 1)
    PROVE Leads(lines \o LinesUpTo(lines, k), k)
<1> DEFINE more == LinesUpTo(lines, k)
           new == lines \o more
           last == intermediate_code[k].line
<1>1. /\ lines \in Seq(Nat) /\ Len(lines) \in Nat /\ k \in Nat \ {0} /\ last \in Nat
      /\ \A j \in 1 .. Len(intermediate_code) : intermediate_code[j].line \in Nat
  <2>1. Len(intermediate_code) \in Nat
        /\ \A j \in 1 .. Len(intermediate_code) : intermediate_code[j] \in UnitSet
    BY DEF Tables
  <2>2. \A j \in 1 .. Len(intermediate_code) : intermediate_code[j].line \in Nat
    BY <2>1 DEF UnitSet
  <2> QED BY <2>1, <2>2 DEF Leads
<1>2. CASE last <= Len(lines)
  <2>1. more = <<>>
    <3>1. 1 .. last - Len(lines) = {}
      BY <1>1, <1>2
    <3> QED BY <3>1 DEF LinesUpTo
  <2>2. new = lines
    BY <1>1, <2>1
  <2>3. \A j \in 1 .. k : intermediate_code[j].line <= Len(lines)
    BY <1>1, <1>2 DEF Leads
  <2>4. \A line \in 1 .. Len(lines) : lines[line] + 1 \in 1 .. k
    BY <1>1 DEF Leads
  <2> QED BY <2>2, <2>3, <2>4 DEF Leads
<1>3. CASE last > Len(lines)
  <2>1. more \in Seq(Nat) /\ Len(more) = last - Len(lines)
        /\ \A i \in 1 .. last - Len(lines) : more[i] = k - 1
    <3>1. k - 1 \in Nat /\ last - Len(lines) \in Nat
      BY <1>1, <1>3
    <3> QED BY <3>1 DEF LinesUpTo
  <2> HIDE DEF more
  <2>2. /\ new \in Seq(Nat) /\ Len(new) = last
        /\ \A line \in 1 .. last : new[line] = IF line <= Len(lines) THEN lines[line] ELSE k - 1
    <3>1. /\ new \in Seq(Nat) /\ Len(new) = Len(lines) + Len(more)
          /\ \A line \in 1 .. Len(lines) + Len(more) :
               new[line] = IF line <= Len(lines) THEN lines[line] ELSE more[line - Len(lines)]
      BY <1>1, <2>1, ConcatProperties
    <3> HIDE DEF new, last
    <3>2. Len(lines) + Len(more) = last
      BY <1>1, <1>3, <2>1
    <3>3. \A line \in 1 .. last : line > Len(lines) => line - Len(lines) \in 1 .. last - Len(lines)
      BY <1>1, <1>3
    <3>4. \A line \in 1 .. last : new[line] = IF line <= Len(lines) THEN lines[line] ELSE k - 1
      <4> TAKE line \in 1 .. last
      <4>1. line \in Nat /\ new[line] = IF line <= Len(lines) THEN lines[line] ELSE more[line - Len(lines)]
        BY <1>1, <3>1, <3>2
      <4>2. line > Len(lines) => more[line - Len(lines)] = k - 1
        BY <2>1, <3>3
      <4> QED BY <1>1, <4>1, <4>2
    <3> QED BY <3>1, <3>2, <3>4
  <2> HIDE DEF new
  <2>3. \A j \in 1 .. k - 1 : intermediate_code[j].line \in Nat /\ intermediate_code[j].line <= Len(lines)
    <3>1. \A j \in 1 .. k - 1 : j \in 1 .. Len(intermediate_code)
      OBVIOUS
    <3> QED BY <1>1, <3>1 DEF Leads
  <2>4. \A j \in 1 .. k : intermediate_code[j].line <= Len(new)
    <3> TAKE j \in 1 .. k
    <3>1. CASE j = k
      BY <1>1, <2>2, <3>1
    <3>2. CASE j \in 1 .. k - 1
      BY <1>1, <1>3, <2>2, <2>3, <3>2
    <3> QED BY <1>1, <3>1, <3>2
  <2>5. \A line \in 1 .. Len(new) :
          /\ new[line] + 1 \in 1 .. k
          /\ intermediate_code[new[line] + 1].line >= line
          /\ \A j \in 1 .. new[line] : intermediate_code[j].line < line
    <3> TAKE line \in 1 .. Len(new)
    <3>1. CASE line <= Len(lines)
      <4>1. line \in 1 .. Len(lines) /\ new[line] = lines[line]
        BY <1>1, <2>2, <3>1
      <4>2. lines[line] + 1 \in 1 .. k - 1 /\ k \in Nat
        BY <1>1, <4>1 DEF Leads
      <4>3. /\ intermediate_code[lines[line] + 1].line >= line
            /\ \A j \in 1 .. lines[line] : intermediate_code[j].line < line
        BY <1>1, <4>1 DEF Leads
      <4> QED BY <4>1, <4>2, <4>3
    <3>2. CASE line > Len(lines)
      <4>1. new[line] = k - 1 /\ line \in Nat /\ line <= last
        BY <1>1, <2>2, <3>2
      <4>2. new[line] + 1 = k
        BY <1>1, <4>1
      <4>3. \A j \in 1 .. k - 1 : intermediate_code[j].line < line
        BY <1>1, <2>3, <3>2
      <4> QED BY <1>1, <4>1, <4>2, <4>3
    <3> QED BY <1>1, <2>2, <3>1, <3>2
  <2>6. Leads(new, k)
    BY <2>2, <2>4, <2>5 DEF Leads
  <2> QED BY <2>6 DEF new, more
<1> QED BY <1>1, <1>2, <1>3

(***************************************************************************)
(* A breakpoint at a line goes to the first instruction on it or behind    *)
(* it, whatever lines the instructions are on.                             *)
(***************************************************************************)
THEOREM BreakpointsCorrect == Spec => []BreakpointsFindTheirLine
<1>1. TypeInv => BreakpointsFindTheirLine
  <2> SUFFICES ASSUME Tables PROVE Leads(LineMapping, Len(intermediate_code))
    <3>1. TypeInv => Tables
      BY DEF TypeInv
    <3>2. ASSUME NEW k, Leads(LineMapping, k) PROVE BreakpointsFindTheirLine
      <4>1. \A line \in DOMAIN LineMapping :
              /\ LineMapping[line] \in Nat
              /\ intermediate_code[LineMapping[line] + 1].line >= line
              /\ \A j \in 1 .. LineMapping[line] : intermediate_code[j].line < line
        BY <3>2 DEF Leads
      <4>2. \A n \in Nat : (n + 1) - 1 = n
        OBVIOUS
      <4> QED BY <4>1, <4>2 DEF BreakpointsFindTheirLine
    <3> QED BY <3>1, <3>2
  <2> DEFINE n == Len(intermediate_code)
  <2>1. n \in Nat
    BY DEF Tables
  <2>2. PICK f : Mapping(f, n) /\ LineMapping = f[n]
    BY LinesMapped
  <2> DEFINE T == {k \in Nat : k <= n => Leads(f[k], k)}
  <2>3. 0 \in T
    <3>1. f[0] = <<>>
      BY <2>1, <2>2 DEF Mapping
    <3>2. <<>> \in Seq(Nat) /\ Len(<<>>) = 0
      OBVIOUS
    <3>3. Leads(<<>>, 0)
      BY <3>2 DEF Leads
    <3> QED BY <3>1, <3>3
  <2>4. \A k \in Nat : k \in T => k + 1 \in T
    <3> SUFFICES ASSUME NEW k \in Nat, k \in T, k + 1 <= n PROVE Leads(f[k + 1], k + 1)
      OBVIOUS
    <3>1. k + 1 \in 1 .. n /\ k + 1 - 1 = k /\ k + 1 # 0
      BY <2>1
    <3>2. Leads(f[k], k)
      BY <2>1, <3>1
    <3>3. f[k + 1] = f[k] \o LinesUpTo(f[k], k + 1)
      BY <2>2, <3>1 DEF Mapping
    <3> QED BY <3>1, <3>2, <3>3, LinesLead
  <2> HIDE DEF T
  <2>5. n \in T
    BY <2>1, <2>3, <2>4, Counting
  <2> QED BY <2>1, <2>2, <2>5 DEF T
<1> QED BY <1>1, TypeHolds, PTL

-----------------------------------------------------------------------------
(***************************************************************************)
(* The sections of a source, and what is counted in them.                  *)
(***************************************************************************)
LEMMA Latest ==
    ASSUME NEW n \in Nat, NEW Q, Q \subseteq 1 .. n, Q # {}
    PROVE LET m == CHOOSE q \in Q : \A r \in Q : r <= q
          IN m \in Q /\ \A r \in Q : r <= m
<1> DEFINE T == {n - q : q \in Q}
<1>1. T \subseteq Nat /\ T # {}
  <2>1. \A q \in Q : n - q \in Nat
    OBVIOUS
  <2>2. PICK q \in Q : TRUE
    OBVIOUS
  <2> QED BY <2>1, <2>2
<1>2. PICK t \in T : \A r \in T : t <= r
  <2> HIDE DEF T
  <2> QED BY <1>1, Least
<1>3. PICK q \in Q : t = n - q
  OBVIOUS
<1>4. \A r \in Q : r <= q
  <2> TAKE r \in Q
  <2>1. n - r \in T
    OBVIOUS
  <2>2. n - q <= n - r
    BY <1>2, <1>3, <2>1
  <2> QED BY <2>2
<1> HIDE DEF T
<1> QED BY <1>4

Sections == {"text", "data", "bss"}
Begins(p) == \E name \in Sections : IsDirective(tokens[p], name)
Begun(p) == {q \in 1 .. p - 1 : Begins(q)}
Given(p) == {q \in 1 .. p - 1 : tokens[q].type = "DIRECTIVE"}

\* A section lasts until another begins.
LEMMA SectionLasts ==
    ASSUME NEW S, NEW from \in Nat \ {0}, NEW p \in Nat, from <= p, SectionAt(from) \in S,
           \A q \in from .. p - 1 : Begins(q) => tokens[q].value \in S
    PROVE SectionAt(p) \in S
<1> DEFINE last(Q) == CHOOSE q \in Q : \A r \in Q : r <= q
<1>1. \A q \in Nat : SectionAt(q) = IF Begun(q) = {} THEN "text" ELSE tokens[last(Begun(q))].value
  BY DEF SectionAt, Begun, Begins, Sections
<1>2. Begun(from) = {q \in Begun(p) : q < from}
  BY DEF Begun
<1>3. CASE Begun(p) = {}
  BY <1>1, <1>2, <1>3
<1>4. CASE Begun(p) # {}
  <2>1. last(Begun(p)) \in Begun(p) /\ \A r \in Begun(p) : r <= last(Begun(p))
    <3>1. p \in Nat /\ Begun(p) \subseteq 1 .. p
      BY DEF Begun
    <3> QED BY <1>4, <3>1, Latest
  <2>2. PICK m \in Begun(p) : m = last(Begun(p)) /\ \A r \in Begun(p) : r <= m
    BY <2>1
  <2>3. m \in 1 .. p - 1 /\ Begins(m)
    BY DEF Begun
  <2>4. SectionAt(p) = tokens[m].value
    BY <1>1, <1>4, <2>2
  <2>5. CASE m >= from
    <3>1. m \in from .. p - 1
      BY <2>3, <2>5
    <3> QED BY <2>3, <2>4, <3>1
  <2>6. CASE m < from
    <3>1. Begun(from) = Begun(p)
      BY <1>2, <2>2, <2>3, <2>6 DEF Begun
    <3> QED BY <1>1, <3>1
  <2> QED BY <2>3, <2>5, <2>6
<1> QED BY <1>3, <1>4

LEMMA SectionBegins ==
    ASSUME NEW p \in Nat \ {0}, Begins(p)
    PROVE SectionAt(p + 1) = tokens[p].value
<1>1. Begun(p + 1) = {q \in 1 .. p : Begins(q)}
  BY DEF Begun
<1>2. p \in Begun(p + 1) /\ \A r \in Begun(p + 1) : r <= p
  BY <1>1
<1>3. p = CHOOSE q \in Begun(p + 1) : \A r \in Begun(p + 1) : r <= q
  <2>1. \A q \in Begun(p + 1) : q \in Nat
    BY <1>1
  <2> QED BY <1>2, <2>1
<1> QED BY <1>2, <1>3 DEF SectionAt, Begun, Begins, Sections

LEMMA SectionFirst == SectionAt(1) = "text"
<1>1. Begun(1) = {}
  BY DEF Begun
<1> QED BY <1>1 DEF SectionAt, Begun, Begins, Sections

LEMMA DirectiveNext ==
    ASSUME NEW p \in Nat \ {0}
    PROVE /\ tokens[p].type = "DIRECTIVE" => DirectiveAt(p + 1) = tokens[p].value
          /\ tokens[p].type # "DIRECTIVE" => DirectiveAt(p + 1) = DirectiveAt(p)
<1>1. Given(p + 1) = {q \in 1 .. p : tokens[q].type = "DIRECTIVE"}
  BY DEF Given
<1>2. CASE tokens[p].type = "DIRECTIVE"
  <2>1. p \in Given(p + 1) /\ \A r \in Given(p + 1) : r <= p
    BY <1>1, <1>2
  <2>2. p = CHOOSE q \in Given(p + 1) : \A r \in Given(p + 1) : r <= q
    <3>1. \A q \in Given(p + 1) : q \in Nat
      BY <1>1
    <3> QED BY <2>1, <3>1
  <2>3. DirectiveAt(p + 1) = tokens[p].value
    BY <2>1, <2>2 DEF DirectiveAt, Given
  <2> QED BY <1>2, <2>3
<1>3. CASE tokens[p].type # "DIRECTIVE"
  <2>1. Given(p + 1) = Given(p)
    BY <1>3 DEF Given
  <2>2. \A r \in Nat : DirectiveAt(r) =
          IF Given(r) = {} THEN "none"
          ELSE tokens[CHOOSE q \in Given(r) : \A o \in Given(r) : o <= q].value
    BY DEF DirectiveAt, Given
  <2> QED BY <1>3, <2>1, <2>2
<1> QED BY <1>2, <1>3

Opcodes(p) == {q \in 1 .. p - 1 : tokens[q].type = "OPCODE" /\ SectionAt(q) = "text"}

\* What is counted before a place is what was before an earlier one, and
\* the instructions between them.
LEMMA InstructionsNext ==
    ASSUME NEW p \in Nat \ {0}, NEW q \in Nat, p < q,
           \A r \in p + 1 .. q - 1 : ~(tokens[r].type = "OPCODE" /\ SectionAt(r) = "text")
    PROVE /\ InstructionsBefore(p) \in Nat
          /\ InstructionsBefore(q) = InstructionsBefore(p) +
               IF tokens[p].type = "OPCODE" /\ SectionAt(p) = "text"
               THEN IF tokens[p].value \in DataReferences THEN 2 ELSE 1
               ELSE 0
<1> DEFINE R(r) == OpcodesBefore(r, DataReferences)
<1>1. \A r \in Nat : InstructionsBefore(r) = Cardinality(Opcodes(r)) + Cardinality(R(r))
  BY DEF InstructionsBefore, Opcodes
<1>2. /\ IsFiniteSet(Opcodes(p)) /\ IsFiniteSet(R(p))
      /\ Cardinality(Opcodes(p)) \in Nat /\ Cardinality(R(p)) \in Nat
  <2>1. IsFiniteSet(1 .. p - 1)
    BY FS_Interval
  <2>2. Opcodes(p) \subseteq 1 .. p - 1 /\ R(p) \subseteq 1 .. p - 1
    BY DEF Opcodes, OpcodesBefore
  <2>3. IsFiniteSet(Opcodes(p)) /\ IsFiniteSet(R(p))
    BY <2>1, <2>2, FS_Subset
  <2> QED BY <2>3, FS_CardinalityType
<1>3. p \notin Opcodes(p) /\ p \notin R(p)
  BY DEF Opcodes, OpcodesBefore
<1>4. Opcodes(q) = IF tokens[p].type = "OPCODE" /\ SectionAt(p) = "text"
                   THEN Opcodes(p) \union {p} ELSE Opcodes(p)
  BY DEF Opcodes
<1>5. R(q) = IF tokens[p].type = "OPCODE" /\ SectionAt(p) = "text" /\ tokens[p].value \in DataReferences
             THEN R(p) \union {p} ELSE R(p)
  BY DEF OpcodesBefore
<1>6. /\ Cardinality(Opcodes(p) \union {p}) = Cardinality(Opcodes(p)) + 1
      /\ Cardinality(R(p) \union {p}) = Cardinality(R(p)) + 1
  BY <1>2, <1>3, FS_AddElement
<1>7. /\ InstructionsBefore(p) = Cardinality(Opcodes(p)) + Cardinality(R(p))
      /\ InstructionsBefore(q) = Cardinality(Opcodes(q)) + Cardinality(R(q))
  BY <1>1
<1> HIDE DEF R
<1>8. CASE tokens[p].type = "OPCODE" /\ SectionAt(p) = "text"
  <2>1. Cardinality(Opcodes(q)) = Cardinality(Opcodes(p)) + 1
    BY <1>4, <1>6, <1>8
  <2>2. CASE tokens[p].value \in DataReferences
    <3>1. Cardinality(R(q)) = Cardinality(R(p)) + 1
      BY <1>5, <1>6, <1>8, <2>2
    <3> QED BY <1>2, <1>7, <1>8, <2>1, <2>2, <3>1
  <2>3. CASE tokens[p].value \notin DataReferences
    <3>1. Cardinality(R(q)) = Cardinality(R(p))
      BY <1>5, <2>3
    <3> QED BY <1>2, <1>7, <1>8, <2>1, <2>3, <3>1
  <2> QED BY <2>2, <2>3
<1>9. CASE ~(tokens[p].type = "OPCODE" /\ SectionAt(p) = "text")
  <2>1. Cardinality(Opcodes(q)) = Cardinality(Opcodes(p)) /\ Cardinality(R(q)) = Cardinality(R(p))
    BY <1>4, <1>5, <1>9
  <2> QED BY <1>2, <1>7, <1>9, <2>1
<1> QED BY <1>8, <1>9

LEMMA InstructionsFirst == InstructionsBefore(1) = 0
<1>1. Opcodes(1) = {} /\ OpcodesBefore(1, DataReferences) = {}
  BY DEF Opcodes, OpcodesBefore
<1>2. InstructionsBefore(1) = Cardinality(Opcodes(1)) + Cardinality(OpcodesBefore(1, DataReferences))
  BY DEF InstructionsBefore, Opcodes
<1> QED BY <1>1, <1>2, FS_EmptySet

-----------------------------------------------------------------------------
(***************************************************************************)
(* The second pass has made of what it read the instructions that are      *)
(* counted there, and stops only in the text or before it.                 *)
(***************************************************************************)
Sound == errors = {} /\ ~SectionSpelled

Counted ==
    Sound =>
      /\ phase \in SecondPhase => Len(intermediate_code) = InstructionsBefore(pos)
      /\ phase = "second" => \/ SectionAt(pos) = "text" \/ pos = Len(tokens) + 1
                             \/ IsDirective(Current, "text")
      /\ phase = "text" => SectionAt(pos) = "text"
      /\ phase \in LastPhase => Len(intermediate_code) = InstructionsBefore(Len(tokens) + 1)

LEMMA SourceStays ==
    ASSUME UNCHANGED tokens
    PROVE /\ \A p : /\ SectionAt(p)' = SectionAt(p) /\ DirectiveAt(p)' = DirectiveAt(p)
                    /\ InstructionsBefore(p)' = InstructionsBefore(p)
          /\ DataElements' = DataElements
          /\ SectionSpelled' <=> SectionSpelled
          /\ DirectiveSpelled' <=> DirectiveSpelled
          /\ BareSection' <=> BareSection
<1>1. \A p : SectionAt(p)' = SectionAt(p) /\ DirectiveAt(p)' = DirectiveAt(p)
  BY DEF SectionAt, DirectiveAt, IsDirective
<1>2. \A p, opcodes : OpcodesBefore(p, opcodes)' = OpcodesBefore(p, opcodes)
  BY <1>1 DEF OpcodesBefore
<1>3. \A p : InstructionsBefore(p)' = InstructionsBefore(p)
  <2> TAKE p
  <2>1. {q \in 1 .. p - 1 : tokens'[q].type = "OPCODE" /\ SectionAt(q)' = "text"}
          = {q \in 1 .. p - 1 : tokens[q].type = "OPCODE" /\ SectionAt(q) = "text"}
    BY <1>1
  <2>2. OpcodesBefore(p, DataReferences)' = OpcodesBefore(p, DataReferences)
    BY <1>1 DEF OpcodesBefore
  <2> QED BY <2>1, <2>2 DEF InstructionsBefore
<1>4. DataElements' = DataElements
  BY <1>1 DEF DataElements, Positions
<1> QED BY <1>1, <1>3, <1>4 DEF SectionSpelled, DirectiveSpelled, Spelled, BareSection, Positions,
                              IsDirective, TokenAt

\* Without names spelled like sections, a section's name is its directive.
LEMMA NamesSections ==
    ASSUME Tables, ~SectionSpelled, NEW p \in 1 .. Len(tokens), tokens[p].value \in SectionNames
    PROVE tokens[p].type = "DIRECTIVE" /\ (tokens[p].value # "section" => Begins(p))
<1>1. tokens[p].type = "DIRECTIVE"
  BY DEF SectionSpelled, Spelled, Positions, Tables
<1> QED BY <1>1 DEF Begins, Sections, IsDirective, SectionNames

LEMMA BeginsNames ==
    ASSUME NEW p, Begins(p)
    PROVE /\ tokens[p].type = "DIRECTIVE" /\ tokens[p].value \in {"text", "data", "bss"}
          /\ tokens[p].value \in SectionNames
BY DEF Begins, Sections, IsDirective, SectionNames

LEMMA CountedStarts ==
    ASSUME Counted, References, TypeInv, FirstActions PROVE Counted'
<1>1. UNCHANGED <<tokens, intermediate_code>> /\ phase \in FirstPhase
  BY FirstKeeps, FirstPhases DEF TypeInv
<1>2. CASE phase' \in FirstPhase
  BY <1>2 DEF Counted, FirstPhase, SecondPhase, LastPhase, DataDirectives, Size
<1>3. CASE phase' = "second" /\ pos' = 1
  <2>1. Len(intermediate_code') = 0
    BY <1>1 DEF References
  <2>2. InstructionsBefore(pos)' = 0 /\ SectionAt(pos)' = "text"
    <3>1. InstructionsBefore(1)' = InstructionsBefore(1) /\ SectionAt(1)' = SectionAt(1)
      BY <1>1, SourceStays
    <3>2. InstructionsBefore(1)' = 0 /\ SectionAt(1)' = "text"
      BY <3>1, InstructionsFirst, SectionFirst
    <3> QED BY <1>3, <3>2 DEF InstructionsBefore, OpcodesBefore, SectionAt
  <2>3. phase' # "text" /\ phase' \notin LastPhase
    BY <1>3 DEF LastPhase
  <2> QED BY <2>1, <2>2, <2>3 DEF Counted
<1> QED BY <1>2, <1>3, FirstPhases DEF TypeInv

\* One token is read that is neither an instruction nor a section.
LEMMA CountedToken ==
    ASSUME Tables, pos \in 1 .. Len(tokens), Current.type # "OPCODE",
           SectionAt(pos) = "text", ~Begins(pos)
    PROVE /\ InstructionsBefore(pos + 1) = InstructionsBefore(pos)
          /\ SectionAt(pos + 1) = "text"
<1>1. Len(tokens) \in Nat /\ pos \in Nat \ {0} /\ Current = tokens[pos]
  BY CurrentTyped DEF Tables
<1>2. InstructionsBefore(pos) \in Nat /\ InstructionsBefore(pos + 1) = InstructionsBefore(pos)
  <2>1. pos + 1 \in Nat /\ pos < pos + 1 /\ pos + 1 .. (pos + 1) - 1 = {}
    BY <1>1
  <2>2. PICK p \in Nat \ {0} : p = pos
    BY <1>1
  <2>3. /\ InstructionsBefore(p) \in Nat
        /\ InstructionsBefore(p + 1) = InstructionsBefore(p) + 0
    BY <1>1, <2>1, <2>2, InstructionsNext
  <2> QED BY <2>2, <2>3
<1>3. SectionAt(pos + 1) \in {"text"}
  <2>1. \A q \in pos .. (pos + 1) - 1 : q = pos
    BY <1>1
  <2>2. /\ pos + 1 \in Nat /\ pos <= pos + 1 /\ SectionAt(pos) \in {"text"}
        /\ \A q \in pos .. (pos + 1) - 1 : Begins(q) => tokens[q].value \in {"text"}
    BY <1>1, <2>1
  <2> QED BY <1>1, <2>2, SectionLasts
<1> QED BY <1>2, <1>3

\* A data or a bss section is skipped up to the text behind it, and no
\* instruction is counted in it.
LEMMA SectionSkipped ==
    ASSUME Tables, ~SectionSpelled, pos \in 1 .. Len(tokens),
           IsDirective(Current, "data") \/ IsDirective(Current, "bss"),
           NEW q, q = SkipTo(pos, {"text"})
    PROVE /\ InstructionsBefore(q) = InstructionsBefore(pos)
          /\ q = Len(tokens) + 1 \/ IsDirective(TokenAt(q), "text")
<1>1. Len(tokens) \in Nat /\ pos \in Nat \ {0} /\ Current = tokens[pos]
  BY CurrentTyped DEF Tables
<1>2. /\ q \in pos .. Len(tokens) + 1
      /\ q <= Len(tokens) => tokens[q].value \in {"text"}
      /\ \A p \in pos .. q - 1 : tokens[p].value \notin {"text"}
  <2>1. tokens \in Seq(Token) /\ pos \in Nat /\ pos <= Len(tokens) + 1
    BY <1>1 DEF Tables
  <2> QED BY <2>1, SkipLands
<1>3. q # pos /\ Begins(pos) /\ tokens[pos].value \in {"data", "bss"} /\ tokens[pos].type = "DIRECTIVE"
  BY <1>1, <1>2 DEF IsDirective, Begins, Sections
<1>4. q \in Nat /\ pos < q
  BY <1>1, <1>2, <1>3
<1>5. \A r \in pos + 1 .. q - 1 : SectionAt(r) \in {"data", "bss"}
  <2> TAKE r \in pos + 1 .. q - 1
  <2>1. SectionAt(pos + 1) \in {"data", "bss"}
    BY <1>1, <1>3, SectionBegins
  <2>2. \A p \in pos + 1 .. r - 1 : Begins(p) => tokens[p].value \in {"data", "bss"}
    <3> TAKE p \in pos + 1 .. r - 1
    <3>1. p \in pos .. q - 1
      BY <1>1, <1>4
    <3> QED BY <1>2, <3>1, BeginsNames
  <2>3. pos + 1 \in Nat \ {0} /\ r \in Nat /\ pos + 1 <= r
    BY <1>1, <1>4
  <2> QED BY <2>1, <2>2, <2>3, SectionLasts
<1>6. InstructionsBefore(q) = InstructionsBefore(pos)
  <2>1. \A r \in pos + 1 .. q - 1 : ~(tokens[r].type = "OPCODE" /\ SectionAt(r) = "text")
    BY <1>5
  <2>2. PICK p \in Nat \ {0} : p = pos
    BY <1>1
  <2>3. InstructionsBefore(p) \in Nat /\ InstructionsBefore(q) = InstructionsBefore(p) + 0
    BY <1>3, <1>4, <2>1, <2>2, InstructionsNext
  <2> QED BY <2>2, <2>3
<1>7. CASE q <= Len(tokens)
  <2>1. q \in 1 .. Len(tokens) /\ tokens[q].value = "text"
    BY <1>1, <1>2, <1>4, <1>7
  <2>2. tokens[q].type = "DIRECTIVE"
    BY <2>1, NamesSections DEF SectionNames
  <2> QED BY <1>6, <1>7, <2>1, <2>2 DEF TokenAt, IsDirective
<1>8. CASE q > Len(tokens)
  BY <1>1, <1>2, <1>6, <1>8
<1> QED BY <1>2, <1>7, <1>8, <1>1, <1>4

LEMMA SoundStays == ASSUME [Next]_vars, Sound' PROVE Sound
BY ErrorsStay, SourceStays DEF Sound

LEMMA CountedSection ==
    ASSUME [Next]_vars, Counted, TypeInv, SecondPass PROVE Counted'
<1> SUFFICES ASSUME Sound' PROVE Counted'
  BY DEF Counted
<1>1. Sound /\ errors' = {}
  BY SoundStays DEF Sound
<1>2. /\ phase = "second" /\ UNCHANGED <<tokens, intermediate_code>>
      /\ Tables /\ pos \in Nat \ {0} /\ pos <= Len(tokens) + 1 /\ Len(tokens) \in Nat
      /\ Len(intermediate_code) = InstructionsBefore(pos)
      /\ \A what : ~Error(what)
  <2>1. phase = "second" /\ UNCHANGED <<tokens, intermediate_code>>
    BY DEF SecondPass, text
  <2>2. Tables /\ pos \in Nat \ {0} /\ pos <= Len(tokens) + 1 /\ Len(tokens) \in Nat
    BY <2>1 DEF TypeInv, Tables, Places, LastPhase
  <2>3. Len(intermediate_code) = InstructionsBefore(pos)
    BY <1>1, <2>1 DEF Counted, SecondPhase
  <2>4. \A what : ~Error(what)
    BY <1>1, ErrorShows
  <2> QED BY <2>1, <2>2, <2>3, <2>4
<1>3. SectionAt(pos) = "text" \/ pos = Len(tokens) + 1 \/ IsDirective(Current, "text")
  BY <1>1, <1>2 DEF Counted
<1>4. \A p : SectionAt(p)' = SectionAt(p) /\ InstructionsBefore(p)' = InstructionsBefore(p)
  BY <1>2, SourceStays
<1>5. ASSUME NEW p, pos' = p
      PROVE SectionAt(pos)' = SectionAt(p) /\ InstructionsBefore(pos)' = InstructionsBefore(p)
  <2>1. SectionAt(pos)' = SectionAt(p)'
    BY <1>5 DEF SectionAt
  <2>2. InstructionsBefore(pos)' = InstructionsBefore(p)'
    BY <1>5 DEF InstructionsBefore, OpcodesBefore
  <2> QED BY <1>4, <2>1, <2>2
<1>6. CASE Current.type = "EOF_"
  <2>1. pos = Len(tokens) + 1 /\ phase' = "patch"
    <3>1. pos > Len(tokens)
      BY <1>2, <1>6, CurrentTyped
    <3>2. phase' = "patch"
      BY <1>6 DEF SecondPass, IsDirective
    <3> QED BY <1>2, <3>1, <3>2
  <2>2. InstructionsBefore(Len(tokens) + 1)' = InstructionsBefore(Len(tokens) + 1)
    <3>1. InstructionsBefore(Len(tokens) + 1)' = InstructionsBefore(Len(tokens') + 1)
      BY <1>2, SourceStays
    <3> QED BY <1>2, <3>1
  <2> QED BY <1>2, <2>1, <2>2 DEF Counted, SecondPhase
<1>7. CASE Current.type # "EOF_"
  <2>1. pos \in 1 .. Len(tokens) /\ Current = tokens[pos] /\ phase' \notin LastPhase
    <3>1. pos <= Len(tokens) /\ Current = tokens[pos]
      BY <1>2, <1>7, CurrentTyped
    <3>2. phase' \in SecondPhase
      BY <1>7, SecondPhases DEF SecondActions
    <3> QED BY <1>2, <3>1, <3>2 DEF SecondPhase, LastPhase
  <2>2. CASE IsDirective(Current, "section")
    <3>1. pos' = pos + 1 /\ phase' = "second"
      BY <1>2, <1>7, <2>2 DEF SecondPass, IsDirective
    <3>2. ~Begins(pos) /\ Current.type # "OPCODE" /\ ~IsDirective(Current, "text")
      BY <2>1, <2>2 DEF Begins, Sections, IsDirective
    <3>3. SectionAt(pos) = "text"
      BY <1>2, <1>3, <2>1, <3>2
    <3>4. SectionAt(pos)' = "text" /\ InstructionsBefore(pos)' = InstructionsBefore(pos)
      BY <1>2, <1>5, <2>1, <3>1, <3>2, <3>3, CountedToken
    <3> QED BY <1>2, <2>1, <3>1, <3>4 DEF Counted
  <2>3. CASE IsDirective(Current, "data") \/ IsDirective(Current, "bss")
    <3>1. pos' = SkipTo(pos, {"text"}) /\ phase' = "second"
      BY <1>2, <1>7, <2>3 DEF SecondPass, IsDirective
    <3>2. PICK q : q = SkipTo(pos, {"text"})
      OBVIOUS
    <3>3. /\ InstructionsBefore(q) = InstructionsBefore(pos)
          /\ q = Len(tokens) + 1 \/ IsDirective(TokenAt(q), "text")
      BY <1>1, <1>2, <2>1, <2>3, <3>2, SectionSkipped DEF Sound
    <3>4. InstructionsBefore(pos)' = InstructionsBefore(pos)
      BY <1>5, <3>1, <3>2, <3>3
    <3>5. pos' = Len(tokens') + 1 \/ IsDirective(Current', "text")
      BY <1>2, <3>1, <3>2, <3>3 DEF Current, TokenAt
    <3>6. pos' = Len(tokens') + 1 \/ IsDirective(Current, "text")'
      BY <3>5 DEF IsDirective
    <3> QED BY <1>2, <2>1, <3>1, <3>4, <3>6 DEF Counted
  <2>4. CASE IsDirective(Current, "text")
    <3>1. pos' = pos + 1 /\ phase' = "text"
      BY <1>2, <1>7, <2>4 DEF SecondPass, IsDirective
    <3>2. Begins(pos) /\ tokens[pos].type = "DIRECTIVE" /\ tokens[pos].value = "text"
      BY <2>1, <2>4 DEF Begins, Sections, IsDirective
    <3>3. SectionAt(pos + 1) = "text"
      BY <1>2, <3>2, SectionBegins
    <3>4. InstructionsBefore(pos + 1) = InstructionsBefore(pos)
      <4>1. PICK p \in Nat \ {0} : p = pos
        BY <1>2
      <4>2. p + 1 \in Nat /\ p < p + 1 /\ p + 1 .. (p + 1) - 1 = {}
        OBVIOUS
      <4>3. InstructionsBefore(p) \in Nat /\ InstructionsBefore(p + 1) = InstructionsBefore(p) + 0
        BY <3>2, <4>1, <4>2, InstructionsNext
      <4> QED BY <4>1, <4>3
    <3>5. SectionAt(pos)' = "text" /\ InstructionsBefore(pos)' = InstructionsBefore(pos)
      BY <1>5, <3>1, <3>3, <3>4
    <3> QED BY <1>2, <2>1, <3>1, <3>5 DEF Counted
  <2>5. CASE Current.type \in {"LABEL", "OPCODE"}
    <3>1. pos' = pos /\ phase' = "text"
      BY <1>2, <1>7, <2>5 DEF SecondPass, IsDirective
    <3>2. SectionAt(pos) = "text"
      BY <1>2, <1>3, <2>1, <2>5 DEF IsDirective
    <3>3. SectionAt(pos)' = "text" /\ InstructionsBefore(pos)' = InstructionsBefore(pos)
      BY <1>5, <3>1, <3>2
    <3> QED BY <1>2, <2>1, <3>1, <3>3 DEF Counted
  <2> QED BY <1>2, <1>7, <2>2, <2>3, <2>4, <2>5 DEF SecondPass
<1> QED BY <1>6, <1>7

\* An instruction takes its line: itself and the label it refers to.
LEMMA InstructionLine ==
    ASSUME Tables, pos \in 1 .. Len(tokens), ValidSyntax
    PROVE /\ NextLine \in {pos + 1, pos + 2}
          /\ NextLine = pos + 2 => pos + 1 \in 1 .. Len(tokens) /\ tokens[pos + 1].type = "LABEL_REF"
          /\ Current.value \in Branches \union Jumps \union DataReferences =>
               pos + 1 \in 1 .. Len(tokens) /\ tokens[pos + 1].type = "LABEL_REF"
<1>1. /\ Len(tokens) \in Nat /\ pos \in Nat \ {0} /\ pos <= Len(tokens) /\ Current = tokens[pos]
      /\ \A p \in 1 .. Len(tokens) : tokens[p].type # "EOF_"
  BY CurrentTyped DEF Tables
<1>2. /\ NextLine \in pos + 1 .. Len(tokens) + 1
      /\ NextLine <= Len(tokens) => tokens[NextLine].line # Current.line
      /\ \A p \in pos .. NextLine - 1 : tokens[p].line = Current.line
  BY <1>1, NextLineLands
<1>3. \A k \in {1, 2} : pos + k <= Len(tokens) => Peek(k) = tokens[pos + k] /\ pos + k \in 1 .. Len(tokens)
  BY <1>1 DEF Peek, TokenAt
<1>4. \A k \in {1, 2} : NextLine > pos + k => OnLine(k)
  <2> SUFFICES ASSUME NEW k \in {1, 2}, NextLine > pos + k PROVE OnLine(k)
    OBVIOUS
  <2>1. pos + k <= Len(tokens) /\ pos + k \in pos .. NextLine - 1
    BY <1>1, <1>2
  <2> QED BY <1>1, <1>2, <1>3, <2>1 DEF OnLine
<1>5. OnLine(1) => pos + 1 \in 1 .. Len(tokens) /\ Peek(1) = tokens[pos + 1]
  <2>1. pos + 1 > Len(tokens) => Peek(1).type = "EOF_"
    BY <1>1 DEF Peek, TokenAt, Eof
  <2> QED BY <1>1, <1>3, <2>1 DEF OnLine
<1>6. CASE Current.value \in Branches \union Jumps \union DataReferences
  <2>1. OnLine(1) /\ Peek(1).type = "LABEL_REF" /\ ~OnLine(2)
    BY <1>6 DEF ValidSyntax
  <2>2. ~(NextLine > pos + 2)
    BY <1>4, <2>1
  <2>3. NextLine \in {pos + 1, pos + 2}
    BY <1>1, <1>2, <2>2
  <2> QED BY <1>5, <2>1, <2>3
<1>7. CASE Current.value \notin Branches \union Jumps \union DataReferences
  <2>1. ~OnLine(1)
    BY <1>7 DEF ValidSyntax
  <2>2. ~(NextLine > pos + 1)
    BY <1>4, <2>1
  <2>3. NextLine = pos + 1
    BY <1>1, <1>2, <2>2
  <2> QED BY <1>1, <1>7, <2>3
<1> QED BY <1>6, <1>7

LEMMA CountedInstruction ==
    ASSUME [Next]_vars, Counted, TypeInv, Instruction, Sound'
    PROVE Len(intermediate_code') = InstructionsBefore(NextLine) /\ SectionAt(NextLine) = "text"
<1>1. /\ Sound /\ phase = "text" /\ Current.type = "OPCODE" /\ ValidSyntax
      /\ Tables /\ pos \in Nat \ {0}
  BY SoundStays DEF Instruction, InText, TypeInv, Places
<1>2. /\ pos \in 1 .. Len(tokens) /\ Current = tokens[pos] /\ Len(tokens) \in Nat
      /\ Len(intermediate_code) \in Nat
  <2>1. pos <= Len(tokens) /\ Current = tokens[pos] /\ Len(tokens) \in Nat /\ Len(intermediate_code) \in Nat
    <3>1. Current.type # "EOF_"
      BY <1>1
    <3>2. pos <= Len(tokens) /\ Current = tokens[pos]
      BY <1>1, <3>1, CurrentTyped
    <3> QED BY <1>1, <3>2 DEF Tables
  <2> QED BY <1>1, <2>1
<1>3. Len(intermediate_code) = InstructionsBefore(pos) /\ SectionAt(pos) = "text"
  BY <1>1 DEF Counted, SecondPhase
<1>4. PICK q : q = NextLine
  OBVIOUS
<1>5. /\ q \in {pos + 1, pos + 2}
      /\ q = pos + 2 => pos + 1 \in 1 .. Len(tokens) /\ tokens[pos + 1].type = "LABEL_REF"
  BY <1>1, <1>2, <1>4, InstructionLine
<1>6. \A r \in pos + 1 .. q - 1 : tokens[r].type = "LABEL_REF"
  BY <1>1, <1>5
<1>7. q \in Nat /\ pos < q
  BY <1>1, <1>5
<1>8. SectionAt(q) \in {"text"}
  <2>1. \A r \in pos .. q - 1 : ~Begins(r)
    <3> SUFFICES ASSUME NEW r \in pos .. q - 1, Begins(r) PROVE FALSE
      OBVIOUS
    <3>1. tokens[r].type = "DIRECTIVE"
      BY BeginsNames
    <3>2. r # pos
      BY <1>1, <1>2, <3>1
    <3>3. r \in pos + 1 .. q - 1
      BY <1>1, <1>7, <3>2
    <3> QED BY <1>6, <3>1, <3>3
  <2>2. /\ pos <= q /\ SectionAt(pos) \in {"text"}
        /\ \A r \in pos .. q - 1 : Begins(r) => tokens[r].value \in {"text"}
    BY <1>1, <1>3, <1>7, <2>1
  <2> QED BY <1>1, <1>7, <2>2, SectionLasts
<1>9. InstructionsBefore(q) = InstructionsBefore(pos)
                               + IF Current.value \in DataReferences THEN 2 ELSE 1
  <2>1. \A r \in pos + 1 .. q - 1 : ~(tokens[r].type = "OPCODE" /\ SectionAt(r) = "text")
    BY <1>6
  <2>2. PICK p \in Nat \ {0} : p = pos
    BY <1>1
  <2> QED BY <1>1, <1>2, <1>3, <1>7, <2>1, <2>2, InstructionsNext
<1>10. Len(intermediate_code') = Len(intermediate_code)
                                 + IF Current.value \in DataReferences THEN 2 ELSE 1
  <2>1. ~EmitsError
    BY DEF EmitsError, Sound
  <2>2. EmitsDirect \/ EmitsForward \/ EmitsPlain \/ EmitsReference
    BY <2>1, Emits
  <2>3. EmitsReference => Current.value \in DataReferences
    BY DEF EmitsReference
  <2>4. EmitsDirect \/ EmitsForward \/ EmitsPlain => Current.value \notin DataReferences
    BY DEF EmitsDirect, EmitsForward, EmitsPlain, DataReferences, Branches, Jumps
  <2>5. /\ EmitsDirect \/ EmitsForward \/ EmitsPlain =>
             Len(intermediate_code') = Len(intermediate_code) + 1
        /\ EmitsReference => Len(intermediate_code') = Len(intermediate_code) + 2
    BY <1>1, Adds
  <2> QED BY <2>2, <2>3, <2>4, <2>5
<1> QED BY <1>2, <1>3, <1>4, <1>8, <1>9, <1>10

LEMMA CountedText ==
    ASSUME [Next]_vars, Counted, TypeInv,
           TextEnds \/ TextLabel \/ Instruction \/ InvalidInstruction
    PROVE Counted'
<1> SUFFICES ASSUME Sound' PROVE Counted'
  BY DEF Counted
<1>1. Sound /\ errors' = {}
  BY SoundStays DEF Sound
<1>2. phase = "text" /\ UNCHANGED tokens
  BY SecondKeeps DEF SecondActions, TextEnds, TextLabel, Instruction, InvalidInstruction, InText
<1>3. /\ Tables /\ pos \in Nat \ {0} /\ pos <= Len(tokens) + 1 /\ Len(tokens) \in Nat
      /\ Len(intermediate_code) = InstructionsBefore(pos) /\ SectionAt(pos) = "text"
  BY <1>1, <1>2 DEF TypeInv, Tables, Places, LastPhase, Counted, SecondPhase
<1>4. ASSUME NEW p, pos' = p
      PROVE SectionAt(pos)' = SectionAt(p) /\ InstructionsBefore(pos)' = InstructionsBefore(p)
  <2>1. SectionAt(pos)' = SectionAt(p)'
    BY <1>4 DEF SectionAt
  <2>2. InstructionsBefore(pos)' = InstructionsBefore(p)'
    BY <1>4 DEF InstructionsBefore, OpcodesBefore
  <2> QED BY <1>2, <2>1, <2>2, SourceStays
<1>5. \A what : ~Error(what)
  BY <1>1, ErrorShows
<1>6. CASE TextEnds
  <2>1. pos' = pos /\ phase' = "second" /\ UNCHANGED intermediate_code
    BY <1>6 DEF TextEnds, text
  <2>2. SectionAt(pos)' = "text" /\ InstructionsBefore(pos)' = InstructionsBefore(pos)
    BY <1>3, <1>4, <2>1
  <2> QED BY <1>3, <2>1, <2>2 DEF Counted, LastPhase
<1>7. CASE TextLabel
  <2>1. pos' = pos + 1 /\ phase' = "text" /\ UNCHANGED intermediate_code /\ Current.type = "LABEL"
    BY <1>2, <1>7 DEF TextLabel, text
  <2>2. pos \in 1 .. Len(tokens) /\ Current = tokens[pos]
    <3>1. pos <= Len(tokens) /\ Current = tokens[pos]
      BY <1>3, <2>1, CurrentTyped
    <3> QED BY <1>3, <3>1
  <2>3. ~Begins(pos)
    BY <2>1, <2>2, BeginsNames
  <2>4. SectionAt(pos + 1) = "text" /\ InstructionsBefore(pos + 1) = InstructionsBefore(pos)
    BY <1>3, <2>1, <2>2, <2>3, CountedToken
  <2>5. SectionAt(pos)' = "text" /\ InstructionsBefore(pos)' = InstructionsBefore(pos)
    BY <1>4, <2>1, <2>4
  <2> QED BY <1>3, <2>1, <2>5 DEF Counted, LastPhase
<1>8. CASE Instruction
  <2>1. pos' = NextLine /\ phase' = "text"
    BY <1>2, <1>8 DEF Instruction
  <2>2. Len(intermediate_code') = InstructionsBefore(NextLine) /\ SectionAt(NextLine) = "text"
    BY <1>8, CountedInstruction
  <2>3. PICK q : q = NextLine
    OBVIOUS
  <2>4. SectionAt(pos)' = "text" /\ InstructionsBefore(pos)' = Len(intermediate_code')
    BY <1>4, <2>1, <2>2, <2>3
  <2> QED BY <2>1, <2>4 DEF Counted, LastPhase
<1>9. CASE InvalidInstruction
  BY <1>5, <1>9 DEF InvalidInstruction
<1> QED BY <1>6, <1>7, <1>8, <1>9

LEMMA CountedHolds == Spec => []Counted
<1>1. Init => Counted
  BY DEF Init, Counted, SecondPhase, LastPhase
<1>2. TypeInv /\ References /\ Counted /\ [Next]_vars => Counted'
  <2> SUFFICES ASSUME TypeInv, References, Counted, [Next]_vars PROVE Counted'
    OBVIOUS
  <2>1. CASE LastActions
    <3>1. UNCHANGED tokens /\ phase \in LastPhase /\ phase' \in LastPhase
      BY <2>1, LastKeeps
    <3>2. Len(intermediate_code') = Len(intermediate_code)
      BY <2>1, LastKeeps, PatchTyped
    <3>3. InstructionsBefore(Len(tokens) + 1)' = InstructionsBefore(Len(tokens) + 1)
      <4>1. InstructionsBefore(Len(tokens) + 1)' = InstructionsBefore(Len(tokens') + 1)
        BY <3>1, SourceStays
      <4> QED BY <3>1, <4>1
    <3> QED BY <3>1, <3>2, <3>3, SoundStays DEF Counted, SecondPhase, LastPhase
  <2>2. CASE UNCHANGED vars
    <3>1. UNCHANGED <<tokens, pos, phase, intermediate_code, errors>>
      BY <2>2 DEF vars
    <3>2. /\ InstructionsBefore(pos)' = InstructionsBefore(pos) /\ SectionAt(pos)' = SectionAt(pos)
          /\ InstructionsBefore(Len(tokens) + 1)' = InstructionsBefore(Len(tokens) + 1)
      <4>1. /\ InstructionsBefore(pos)' = InstructionsBefore(pos')
            /\ SectionAt(pos)' = SectionAt(pos')
            /\ InstructionsBefore(Len(tokens) + 1)' = InstructionsBefore(Len(tokens') + 1)
        BY <3>1, SourceStays
      <4> QED BY <3>1, <4>1
    <3>3. Current' = Current
      BY <3>1 DEF Current, TokenAt
    <3> QED BY <3>1, <3>2, <3>3, SoundStays DEF Counted, IsDirective
  <2> QED BY <2>1, <2>2, ActionsAreThese, CountedStarts, CountedSection, CountedText DEF SecondActions
<1> QED BY <1>1, <1>2, TypeHolds, ReferencesHold, PTL DEF Spec

-----------------------------------------------------------------------------
(***************************************************************************)
(* References to the text.  A label of the text has the number of the      *)
(* instructions before it; a unit that names one is bound to it, or waits  *)
(* to be patched, and the patches behind the current one are still to be   *)
(* made.                                                                   *)
(***************************************************************************)
Stands(label, p) ==
    /\ tokens[p].type = "LABEL" /\ tokens[p].value = label /\ SectionAt(p) = "text"
    /\ symbol_table[label].address = 4 * InstructionsBefore(p)

Labels ==
    /\ phase \in FirstPhase => \A label \in DOMAIN symbol_table : symbol_table[label].isData
    /\ Sound => \A label \in DOMAIN symbol_table :
         ~symbol_table[label].isData => \E p \in 1 .. Len(tokens) : Stands(label, p)

LEMMA LabelsHold == Spec => []Labels
<1>1. Init => Labels
  BY DEF Init, Labels
<1>2. TypeInv /\ Counted /\ Labels /\ [Next]_vars => Labels'
  <2> SUFFICES ASSUME TypeInv, Counted, Labels, [Next]_vars PROVE Labels'
    OBVIOUS
  <2>1. CASE FirstActions
    <3>1. phase \in FirstPhase
      BY <2>1, FirstPhases DEF TypeInv
    <3>2. \A label \in DOMAIN symbol_table' : symbol_table'[label].isData
      <4>1. CASE DataLabel
        <5>1. Define(Current.value, [address |-> data_index', isData |-> TRUE,
                                     names |-> Len(data_buffer) + 1])
          BY <4>1 DEF DataLabel
        <5> QED BY <3>1, <5>1 DEF Define, Labels
      <4>2. CASE ~DataLabel
        BY <2>1, <3>1, <4>2 DEF FirstActions, FirstPass, DataEnds, DataDirective, DataElement,
                                InvalidDirective, Labels
      <4> QED BY <4>1, <4>2
    <3> QED BY <3>2 DEF Labels
  <2>2. CASE ~FirstActions
    <3>1. phase' \notin FirstPhase \/ UNCHANGED phase
      BY <2>2, ActionsAreThese, SecondPhases, LastKeeps
         DEF vars, FirstPhase, SecondPhase, LastPhase, DataDirectives, Size
    <3>2. UNCHANGED tokens /\ (Sound' => Sound)
      BY ErrorsStay, SoundStays
    <3>3. \A label, p : symbol_table'[label] = symbol_table[label] /\ Stands(label, p) => Stands(label, p)'
      BY <3>2, SourceStays DEF Stands
    <3>4. CASE ~TextLabel
      <4>1. UNCHANGED symbol_table
        BY <2>2, <3>4, ActionsAreThese, SecondKeeps, LastKeeps DEF vars
      <4> QED BY <3>1, <3>2, <3>3, <4>1 DEF Labels
    <3>5. CASE TextLabel
      <4>1. phase' \notin FirstPhase /\ phase = "text" /\ Current.type = "LABEL"
        BY <3>5 DEF TextLabel, InText, FirstPhase, DataDirectives, Size
      <4> SUFFICES ASSUME Sound', NEW label \in DOMAIN symbol_table', ~symbol_table'[label].isData
                   PROVE \E p \in 1 .. Len(tokens) : Stands(label, p)'
        BY <3>2, <4>1 DEF Labels
      <4>2. CASE label \in DOMAIN symbol_table /\ symbol_table'[label] = symbol_table[label]
        BY <3>2, <3>3, <4>2 DEF Labels
      <4>3. CASE ~(label \in DOMAIN symbol_table /\ symbol_table'[label] = symbol_table[label])
        <5>1. label = Current.value /\ symbol_table'[label].address = 4 * instruction_index
          <6> DEFINE entry == [address |-> 4 * instruction_index, isData |-> FALSE,
                               names |-> instruction_index + 1]
          <6>1. entry.address = 4 * instruction_index
            OBVIOUS
          <6>2. Define(Current.value, entry) \/ UNCHANGED symbol_table
            BY <3>5 DEF TextLabel
          <6> HIDE DEF entry
          <6>3. ~UNCHANGED symbol_table
            BY <4>3
          <6>4. Define(Current.value, entry)
            BY <6>2, <6>3
          <6>5. label = Current.value /\ symbol_table'[label] = entry
            BY <4>3, <6>4 DEF Define
          <6> QED BY <6>1, <6>5
        <5>2. pos \in 1 .. Len(tokens) /\ Current = tokens[pos]
          <6>1. pos \in Nat \ {0} /\ Len(tokens) \in Nat
            BY DEF TypeInv, Places, Tables
          <6>2. pos <= Len(tokens) /\ Current = tokens[pos]
            BY <4>1, <6>1, CurrentTyped DEF TypeInv
          <6> QED BY <6>1, <6>2
        <5>3. instruction_index = InstructionsBefore(pos) /\ SectionAt(pos) = "text"
          BY <3>2, <4>1 DEF Counted, SecondPhase, instruction_index
        <5>4. PICK p \in 1 .. Len(tokens) : p = pos
          BY <5>2
        <5>5. Stands(label, p)'
          BY <3>2, <4>1, <5>1, <5>2, <5>3, <5>4, SourceStays DEF Stands
        <5> QED BY <5>5
      <4> QED BY <4>2, <4>3
    <3> QED BY <3>4, <3>5
  <2> QED BY <2>1, <2>2
<1> QED BY <1>1, <1>2, TypeHolds, CountedHolds, PTL DEF Spec

\* A unit that is resolved goes to its label; the others are on the list of
\* patches.
Bound(k) ==
    /\ intermediate_code[k].resolved
    /\ intermediate_code[k].op \in Branches \union Jumps =>
         /\ HasSymbol(intermediate_code[k].of)
         /\ intermediate_code[k].imm = symbol_table[intermediate_code[k].of].address - 4 * (k - 1)
Noted(k) ==
    \E i \in 1 .. Len(back_patch) : back_patch[i] = k - 1 /\ (phase \in LastPhase => i >= pos)

Bindings ==
    /\ errors = {} => \A k \in 1 .. Len(intermediate_code) : Bound(k) \/ Noted(k)
    /\ phase \in {"load", "loaded"} => pos = Len(back_patch) + 1

LEMMA BindingsAdded ==
    ASSUME TypeInv, Instruction, errors' = {},
           NEW k \in Len(intermediate_code) + 1 .. Len(intermediate_code')
    PROVE Bound(k)' \/ Noted(k)'
<1> DEFINE n == Len(intermediate_code)
<1>1. Tables /\ n \in Nat /\ k \in n + 1 .. Len(intermediate_code') /\ pos \in Nat \ {0}
      /\ Len(back_patch) \in Nat
      /\ instruction_index = n
  <2>1. Tables /\ pos \in Nat \ {0}
    BY DEF TypeInv, Places
  <2>2. n \in Nat /\ Len(back_patch) \in Nat
    BY <2>1 DEF Tables
  <2> QED BY <2>1, <2>2 DEF instruction_index
<1>2. UNCHANGED symbol_table /\ phase' \notin LastPhase
  BY DEF Instruction, InText, LastPhase
<1>3. CASE EmitsDirect
  <2>1. Len(intermediate_code') = n + 1 /\ intermediate_code'[n + 1] = Unit(Current.value, Named, Offset, TRUE)
    BY <1>1, <1>3, Adds
  <2>2. /\ Unit(Current.value, Named, Offset, TRUE).of = Named
        /\ Unit(Current.value, Named, Offset, TRUE).imm = Offset
        /\ Unit(Current.value, Named, Offset, TRUE).resolved
    BY Zenon DEF Unit
  <2>3. HasSymbol(Named) /\ Offset = symbol_table[Named].address - 4 * n
    BY <1>1, <1>3 DEF EmitsDirect, Offset, Displacement
  <2> HIDE DEF n
  <2>4. k = n + 1 /\ k - 1 = n
    BY <1>1, <2>1
  <2>5. intermediate_code'[k].of = Named /\ intermediate_code'[k].imm = Offset /\ intermediate_code'[k].resolved
    BY <2>1, <2>2, <2>4
  <2> QED BY <1>2, <2>3, <2>4, <2>5 DEF Bound, HasSymbol
<1>4. CASE EmitsForward
  <2>1. Len(intermediate_code') = n + 1
    BY <1>1, <1>4, Adds
  <2>2. back_patch' = Append(back_patch, n) /\ back_patch \in Seq(Nat)
    BY <1>1, <1>4 DEF EmitsForward, Tables
  <2> HIDE DEF n
  <2>3. k - 1 = n
    BY <1>1, <2>1
  <2>4. Len(back_patch') = Len(back_patch) + 1 /\ back_patch'[Len(back_patch) + 1] = n
    BY <1>1, <2>2, AppendTyped
  <2> QED BY <1>1, <1>2, <2>3, <2>4 DEF Noted
<1>5. CASE EmitsReference
  <2>1. /\ Len(intermediate_code') = n + 2
        /\ intermediate_code'[n + 1] = Unit("auipc", Named, Upper(Distance), TRUE)
        /\ intermediate_code'[n + 2] = Unit(Current.value, Named, Lower(Distance), TRUE)
    BY <1>1, <1>5, Adds
  <2>2. /\ Unit("auipc", Named, Upper(Distance), TRUE).op = "auipc"
        /\ Unit("auipc", Named, Upper(Distance), TRUE).resolved
        /\ Unit(Current.value, Named, Lower(Distance), TRUE).op = Current.value
        /\ Unit(Current.value, Named, Lower(Distance), TRUE).resolved
    BY Zenon DEF Unit
  <2>3. Current.value \notin Branches \union Jumps /\ "auipc" \notin Branches \union Jumps
    BY <1>5 DEF EmitsReference, Branches, Jumps, DataReferences
  <2> HIDE DEF n
  <2>4. k \in {n + 1, n + 2}
    BY <1>1, <2>1
  <2>5. intermediate_code'[k].resolved /\ intermediate_code'[k].op \notin Branches \union Jumps
    BY <2>1, <2>2, <2>3, <2>4
  <2> QED BY <2>5 DEF Bound
<1>6. CASE EmitsPlain
  <2>1. Len(intermediate_code') = n + 1 /\ intermediate_code'[n + 1] = Unit(Current.value, "", 0, TRUE)
    BY <1>1, <1>6, Adds
  <2>2. /\ Unit(Current.value, "", 0, TRUE).op = Current.value
        /\ Unit(Current.value, "", 0, TRUE).resolved
    BY Zenon DEF Unit
  <2>3. Current.value \notin Branches \union Jumps
    BY <1>6 DEF EmitsPlain
  <2> HIDE DEF n
  <2>4. k = n + 1
    <3>1. Len(intermediate_code') = n + 1
      BY <2>1
    <3> QED BY <1>1, <3>1
  <2>5. intermediate_code'[k].resolved /\ intermediate_code'[k].op \notin Branches \union Jumps
    BY <2>1, <2>2, <2>3, <2>4
  <2> QED BY <2>5 DEF Bound
<1> QED BY <1>3, <1>4, <1>5, <1>6, Emits DEF EmitsError

\* The next patch binds its unit, and the others keep theirs.
LEMMA BindingsPatched ==
    ASSUME TypeInv, Bindings, Patch, errors = {}, errors' = {},
           NEW k \in 1 .. Len(intermediate_code)
    PROVE Bound(k)' \/ Noted(k)'
<1> DEFINE at == back_patch[pos] + 1
<1>1. /\ pos \in 1 .. Len(back_patch) /\ back_patch[pos] \in Nat /\ Len(back_patch) \in Nat
      /\ at \in 1 .. Len(intermediate_code) /\ Unpatched \in UnitSet
      /\ Unpatched = intermediate_code[at] /\ intermediate_code \in Seq(UnitSet)
  BY PatchPlace DEF Unpatched, TypeInv, Tables
<1>2. UNCHANGED <<symbol_table, back_patch>> /\ pos' = pos + 1
  BY LastKeeps DEF LastActions, Patch
<1>3. CASE k = at
  <2>1. /\ HasSymbol(Unpatched.of)
        /\ intermediate_code' = [intermediate_code EXCEPT ![at].imm = PatchOffset, ![at].resolved = TRUE]
    BY Patching
  <2>2. intermediate_code'[at] = [Unpatched EXCEPT !.imm = PatchOffset, !.resolved = TRUE]
    <3> DEFINE u == [Unpatched EXCEPT !.imm = PatchOffset, !.resolved = TRUE]
    <3>1. intermediate_code' = [intermediate_code EXCEPT ![at] = u]
      BY <1>1, <2>1
    <3> HIDE DEF at, u
    <3>2. intermediate_code'[at] = u
      BY <1>1, <3>1
    <3> QED BY <3>2 DEF u
  <2>3. /\ intermediate_code'[at].of = Unpatched.of /\ intermediate_code'[at].imm = PatchOffset
        /\ intermediate_code'[at].resolved
    <3> HIDE DEF at
    <3> QED BY <1>1, <2>2, Zenon DEF UnitSet
  <2>4. PatchOffset = symbol_table[Unpatched.of].address - 4 * (k - 1)
    <3>1. k - 1 = back_patch[pos]
      BY <1>1, <1>3
    <3> QED BY <3>1 DEF PatchOffset, Patched, Displacement
  <2> HIDE DEF at
  <2> QED BY <1>2, <1>3, <2>1, <2>3, <2>4 DEF Bound, HasSymbol
<1>4. CASE k # at
  <2>1. intermediate_code'[k] = intermediate_code[k]
    BY <1>4, PatchTyped
  <2>2. CASE Bound(k)
    BY <1>2, <2>1, <2>2 DEF Bound, HasSymbol
  <2>3. CASE Noted(k)
    <3>1. phase \in LastPhase
      BY DEF Patch, LastPhase
    <3>2. PICK i \in 1 .. Len(back_patch) : back_patch[i] = k - 1 /\ i >= pos
      BY <2>3, <3>1 DEF Noted
    <3>3. i # pos
      BY <1>4, <3>2
    <3>4. i >= pos + 1
      BY <1>1, <3>2, <3>3
    <3> QED BY <1>2, <3>2, <3>4 DEF Noted
  <2> QED BY <2>2, <2>3 DEF Bindings
<1> QED BY <1>3, <1>4

LEMMA BindingsHold == Spec => []Bindings
<1>1. Init => Bindings
  BY DEF Init, Bindings
<1>2. TypeInv /\ References /\ Bindings /\ [Next]_vars => Bindings'
  <2> SUFFICES ASSUME TypeInv, References, Bindings, [Next]_vars PROVE Bindings'
    OBVIOUS
  <2>1. errors' = {} => errors = {}
    BY ErrorsStay
  <2>2. CASE FirstActions
    <3>1. Len(intermediate_code') = 0 /\ phase' \notin {"load", "loaded"}
      BY <2>2, FirstKeeps, FirstPhases DEF TypeInv, References, FirstPhase, DataDirectives, Size
    <3> QED BY <3>1 DEF Bindings
  <2>3. CASE SecondActions
    <3>1. /\ phase' \notin {"load", "loaded"} /\ phase \notin LastPhase
          /\ phase' \in LastPhase => pos' = 1
      BY <2>3, SecondPhases DEF SecondPhase, LastPhase
    <3>2. \A k \in 1 .. Len(intermediate_code) : Noted(k) => Noted(k)'
      <4> SUFFICES ASSUME NEW k \in 1 .. Len(intermediate_code),
                          NEW i \in 1 .. Len(back_patch), back_patch[i] = k - 1
                   PROVE Noted(k)'
        BY DEF Noted
      <4>1. i \in 1 .. Len(back_patch') /\ back_patch'[i] = k - 1
        <5>1. Tables /\ pos \in Nat \ {0} /\ Len(back_patch) \in Nat
          BY DEF TypeInv, Places, Tables
        <5> QED BY <2>3, <5>1, PatchGrows
      <4> QED BY <3>1, <4>1 DEF Noted
    <3>3. /\ Len(intermediate_code) \in Nat /\ Len(intermediate_code') \in Nat
          /\ \A k \in 1 .. Len(intermediate_code) : intermediate_code'[k] = intermediate_code[k]
          /\ Instruction \/ Len(intermediate_code') = Len(intermediate_code)
      <4>1. Tables /\ pos \in Nat \ {0} /\ Len(intermediate_code) \in Nat
        BY DEF TypeInv, Places, Tables
      <4>2. CASE Instruction
        BY <4>1, <4>2, EmitTyped
      <4>3. CASE ~Instruction
        BY <2>3, <4>1, <4>3, SecondKeeps
      <4> QED BY <4>2, <4>3
    <3>4. \A k \in 1 .. Len(intermediate_code) : Bound(k) => Bound(k)'
      BY <2>3, <3>3, SymbolsStay DEF Bound, HasSymbol
    <3>5. ASSUME errors' = {}, NEW k \in 1 .. Len(intermediate_code') PROVE Bound(k)' \/ Noted(k)'
      <4>1. CASE k \in 1 .. Len(intermediate_code)
        BY <2>1, <3>2, <3>4, <3>5, <4>1 DEF Bindings
      <4>2. CASE k \notin 1 .. Len(intermediate_code)
        <5>1. Instruction /\ k \in Len(intermediate_code) + 1 .. Len(intermediate_code')
          BY <3>3, <4>2
        <5> QED BY <3>5, <5>1, BindingsAdded
      <4> QED BY <4>1, <4>2
    <3> QED BY <3>1, <3>5 DEF Bindings
  <2>4. CASE Patch
    <3>1. phase' \notin {"load", "loaded"} /\ Len(intermediate_code') = Len(intermediate_code)
      BY <2>4, PatchTyped DEF Patch
    <3> QED BY <2>1, <2>4, <3>1, BindingsPatched DEF Bindings
  <2>5. CASE Assembled \/ LoadDatum \/ Loaded \/ UNCHANGED vars
    <3>1. /\ UNCHANGED <<symbol_table, back_patch, intermediate_code, pos, errors>>
          /\ phase' \in LastPhase <=> phase \in LastPhase
      BY <2>5 DEF Assembled, LoadDatum, Loaded, text, vars, LastPhase
    <3>2. phase' \in {"load", "loaded"} => pos = Len(back_patch) + 1
      <4>1. pos \in Nat \ {0} /\ Len(back_patch) \in Nat
            /\ (phase = "patch" => pos <= Len(back_patch) + 1)
        BY DEF TypeInv, Places, Tables, LastPhase
      <4>2. Assembled => phase = "patch" /\ pos > Len(back_patch)
        BY DEF Assembled
      <4>3. ~Assembled => (phase' \in {"load", "loaded"} => phase \in {"load", "loaded"})
        BY <2>5 DEF LoadDatum, Loaded, vars
      <4> QED BY <4>1, <4>2, <4>3 DEF Bindings
    <3> QED BY <3>1, <3>2 DEF Bindings, Bound, Noted, HasSymbol
  <2> QED BY <2>2, <2>3, <2>4, <2>5, ActionsAreThese DEF LastActions
<1> QED BY <1>1, <1>2, TypeHolds, ReferencesHold, PTL DEF Spec

(***************************************************************************)
(* A program that assembles is linked: every instruction is resolved, and  *)
(* a branch or a jump to a label of the text, wherever the label stands,   *)
(* goes from its own address to that of the instruction behind the label.  *)
(***************************************************************************)
THEOREM ReferencesCorrect == Spec => []ReferencesResolve
<1>1. TypeInv /\ Placed /\ Labels /\ Bindings => ReferencesResolve
  <2> SUFFICES ASSUME TypeInv, Placed, Labels, Bindings, phase = "loaded", ~SectionSpelled,
                      NEW k \in DOMAIN intermediate_code
               PROVE LET unit == intermediate_code[k]
                     IN /\ unit.resolved
                        /\ unit.op \in Branches \union Jumps /\ ~symbol_table[unit.of].isData =>
                             \E p \in Positions :
                                 /\ tokens[p].type = "LABEL" /\ tokens[p].value = unit.of
                                 /\ SectionAt(p) = "text"
                                 /\ 4 * (k - 1) + unit.imm = 4 * InstructionsBefore(p)
    BY DEF ReferencesResolve
  <2>1. /\ k \in 1 .. Len(intermediate_code) /\ DOMAIN tokens = 1 .. Len(tokens) /\ k \in Nat
        /\ errors = {} /\ Sound
    BY DEF TypeInv, Tables, Placed, Sound
  <2>2. ~Noted(k)
    <3>1. pos = Len(back_patch) + 1 /\ Len(back_patch) \in Nat /\ phase \in LastPhase
      BY DEF Bindings, TypeInv, Tables, LastPhase
    <3> QED BY <3>1 DEF Noted
  <2>3. Bound(k)
    BY <2>1, <2>2 DEF Bindings
  <2>4. ASSUME intermediate_code[k].op \in Branches \union Jumps,
               ~symbol_table[intermediate_code[k].of].isData
        PROVE \E p \in Positions :
                /\ tokens[p].type = "LABEL" /\ tokens[p].value = intermediate_code[k].of
                /\ SectionAt(p) = "text"
                /\ 4 * (k - 1) + intermediate_code[k].imm = 4 * InstructionsBefore(p)
    <3>1. /\ intermediate_code[k].of \in DOMAIN symbol_table
          /\ intermediate_code[k].imm = symbol_table[intermediate_code[k].of].address - 4 * (k - 1)
      BY <2>3, <2>4 DEF Bound, HasSymbol
    <3>2. PICK p \in 1 .. Len(tokens) : Stands(intermediate_code[k].of, p)
      BY <2>1, <2>4, <3>1 DEF Labels
    <3>3. symbol_table[intermediate_code[k].of].address \in Nat
      BY <3>1 DEF TypeInv, Tables, Entry
    <3>4. 4 * (k - 1) + intermediate_code[k].imm = symbol_table[intermediate_code[k].of].address
      BY <2>1, <3>1, <3>3
    <3> QED BY <2>1, <3>2, <3>4 DEF Stands, Positions
  <2> QED BY <2>3, <2>4 DEF Bound
<1> QED BY <1>1, TypeHolds, PlacedHolds, LabelsHold, BindingsHold, PTL

-----------------------------------------------------------------------------
(***************************************************************************)
(* The first pass has put into the buffer the data of the tokens it read:  *)
(* in a data section it is behind the directive whose data it takes, and   *)
(* what it skips is in no data section.                                    *)
(***************************************************************************)
Elements(p) == {q \in DataElements : q < p}

Complete == errors = {} /\ ~BareSection /\ ~SectionSpelled /\ ~DirectiveSpelled

InSections(p) ==
    p = 1 \/ p = Len(tokens) + 1 \/ (tokens[p].type = "DIRECTIVE" /\ tokens[p].value \in SectionNames)

Kept ==
    Complete =>
      /\ phase \in FirstPhase => Len(data_buffer) = Cardinality(Elements(pos))
      /\ phase = "first" => InSections(pos)
      /\ phase \in {"data"} \union DataDirectives => SectionAt(pos) = "data"
      /\ phase = "data" /\ DirectiveAt(pos) \in DataDirectives => Current.type # Takes(DirectiveAt(pos))
      /\ phase \in DataDirectives => DirectiveAt(pos) = phase
      /\ phase \notin FirstPhase => Len(data_buffer) = Cardinality(DataElements)

LEMMA ElementsNext ==
    ASSUME Tables, NEW p \in Nat, NEW q \in Nat, p < q,
           \A r \in p + 1 .. q - 1 : r \notin DataElements
    PROVE /\ Cardinality(Elements(p)) \in Nat
          /\ Cardinality(Elements(q)) = Cardinality(Elements(p)) + IF p \in DataElements THEN 1 ELSE 0
<1>1. DataElements \subseteq 1 .. Len(tokens) /\ Len(tokens) \in Nat
  BY DEF DataElements, Positions, Tables
<1>2. IsFiniteSet(Elements(p))
  <2>1. IsFiniteSet(1 .. Len(tokens))
    BY <1>1, FS_Interval
  <2>2. Elements(p) \subseteq 1 .. Len(tokens)
    BY <1>1 DEF Elements
  <2> QED BY <2>1, <2>2, FS_Subset
<1>3. Elements(q) = IF p \in DataElements THEN Elements(p) \union {p} ELSE Elements(p)
  <2>1. \A r \in DataElements : r \in Nat /\ (r < q <=> r < p \/ r = p)
    <3> TAKE r \in DataElements
    <3>1. r \in Nat /\ r \notin p + 1 .. q - 1
      BY <1>1
    <3> QED BY <3>1
  <2> QED BY <2>1 DEF Elements
<1>4. p \notin Elements(p)
  BY DEF Elements
<1>5. /\ Cardinality(Elements(p)) \in Nat
      /\ Cardinality(Elements(p) \union {p}) = Cardinality(Elements(p)) + 1
  BY <1>2, <1>4, FS_AddElement, FS_CardinalityType
<1>6. CASE p \in DataElements
  BY <1>3, <1>5, <1>6
<1>7. CASE p \notin DataElements
  BY <1>3, <1>5, <1>7
<1> QED BY <1>6, <1>7

LEMMA ElementsTaken ==
    ASSUME NEW p \in DataElements
    PROVE tokens[p].type \in {"NUM", "FLOAT", "STRING"} /\ SectionAt(p) = "data"
BY DEF DataElements, Takes

\* What is read is no datum, what is skipped in no data section.
LEMMA ElementsSkipped ==
    ASSUME Tables, NEW p \in 1 .. Len(tokens), NEW q \in Nat, p < q,
           tokens[p].type \notin {"NUM", "FLOAT", "STRING"},
           \A r \in p + 1 .. q - 1 : SectionAt(r) # "data"
    PROVE Cardinality(Elements(q)) = Cardinality(Elements(p))
<1>1. p \in Nat /\ p \notin DataElements /\ \A r \in p + 1 .. q - 1 : r \notin DataElements
  BY ElementsTaken DEF Tables
<1>2. /\ Cardinality(Elements(p)) \in Nat
      /\ Cardinality(Elements(q)) = Cardinality(Elements(p)) + 0
  BY <1>1, ElementsNext
<1> QED BY <1>2

LEMMA SkipsSections ==
    ASSUME Tables, ~SectionSpelled, NEW from \in Nat \ {0}, from <= Len(tokens) + 1,
           NEW names, names \subseteq SectionNames, NEW q, q = SkipTo(from, names)
    PROVE q \in Nat \ {0} /\ from <= q /\ InSections(q) 
          /\ \A r \in from .. q - 1 : tokens[r].value \notin names
<1>1. Len(tokens) \in Nat /\ tokens \in Seq(Token) /\ from \in Nat
  BY DEF Tables
<1>2. /\ q \in from .. Len(tokens) + 1
      /\ q <= Len(tokens) => tokens[q].value \in names
      /\ \A p \in from .. q - 1 : tokens[p].value \notin names
  BY <1>1, SkipLands
<1>3. q <= Len(tokens) => tokens[q].type = "DIRECTIVE" /\ tokens[q].value \in SectionNames
  <2> SUFFICES ASSUME q <= Len(tokens)
               PROVE tokens[q].type = "DIRECTIVE" /\ tokens[q].value \in SectionNames
    OBVIOUS
  <2>1. q \in 1 .. Len(tokens) /\ tokens[q].value \in SectionNames
    BY <1>1, <1>2
  <2> QED BY <2>1, NamesSections
<1> QED BY <1>1, <1>2, <1>3 DEF InSections

\* In the text, where the first pass reads up to another section.
LEMMA TextSkipped ==
    ASSUME Tables, ~SectionSpelled, NEW p \in 1 .. Len(tokens), InSections(p),
           IsDirective(tokens[p], "text") \/ tokens[p].type \in {"LABEL", "OPCODE"},
           NEW q, q = SkipTo(p, EndsText)
    PROVE /\ q \in Nat \ {0} /\ InSections(q)
          /\ Cardinality(Elements(q)) = Cardinality(Elements(p))
<1>1. p \in Nat \ {0} /\ p <= Len(tokens) + 1 /\ Len(tokens) \in Nat /\ EndsText \subseteq SectionNames
  BY DEF Tables, EndsText, SectionNames
<1>2. /\ q \in Nat \ {0} /\ p <= q /\ InSections(q)
      /\ \A r \in p .. q - 1 : tokens[r].value \notin EndsText
  BY <1>1, SkipsSections
<1>3. tokens[p].value \notin EndsText
  <2>1. CASE IsDirective(tokens[p], "text")
    BY <2>1 DEF IsDirective, EndsText
  <2>2. CASE tokens[p].type \in {"LABEL", "OPCODE"}
    <3>1. tokens[p].value \notin SectionNames
      BY <2>2, NamesSections
    <3> QED BY <1>1, <3>1
  <2> QED BY <2>1, <2>2
<1>4. p < q
  <2>1. CASE q <= Len(tokens)
    <3>1. tokens[q].value \in EndsText
      BY <1>1, <2>1, SkipLands DEF Tables
    <3>2. q # p
      BY <1>3, <3>1
    <3> QED BY <1>1, <1>2, <3>2
  <2>2. CASE q > Len(tokens)
    BY <1>1, <1>2, <2>2
  <2> QED BY <1>1, <1>2, <2>1, <2>2
<1>5. SectionAt(p + 1) \in {"text"}
  <2>1. CASE IsDirective(tokens[p], "text")
    <3>1. Begins(p) /\ tokens[p].value = "text"
      BY <2>1 DEF Begins, Sections, IsDirective
    <3> QED BY <1>1, <3>1, SectionBegins
  <2>2. CASE tokens[p].type \in {"LABEL", "OPCODE"}
    <3>1. p = 1 /\ ~Begins(p)
      BY <1>1, <2>2, BeginsNames DEF InSections
    <3>2. /\ 1 \in Nat \ {0} /\ 2 \in Nat /\ 1 <= 2 /\ SectionAt(1) \in {"text"}
          /\ \A r \in 1 .. 2 - 1 : Begins(r) => tokens[r].value \in {"text"}
      BY <3>1, SectionFirst
    <3>3. SectionAt(2) \in {"text"}
      BY <3>2, SectionLasts
    <3> QED BY <3>1, <3>3
  <2> QED BY <2>1, <2>2
<1>6. \A r \in p + 1 .. q - 1 : SectionAt(r) # "data"
  <2> TAKE r \in p + 1 .. q - 1
  <2>1. \A m \in p + 1 .. r - 1 : Begins(m) => tokens[m].value \in {"text"}
    <3> SUFFICES ASSUME NEW m \in p + 1 .. r - 1, Begins(m) PROVE tokens[m].value = "text"
      OBVIOUS
    <3>1. m \in p .. q - 1
      BY <1>1, <1>2
    <3>2. tokens[m].value \in {"text", "data", "bss"} /\ tokens[m].value \notin EndsText
      BY <1>2, <3>1, BeginsNames
    <3> QED BY <3>2 DEF EndsText
  <2>2. p + 1 \in Nat \ {0} /\ r \in Nat /\ p + 1 <= r
    BY <1>1, <1>2
  <2>3. SectionAt(r) \in {"text"}
    BY <1>5, <2>1, <2>2, SectionLasts
  <2> QED BY <2>3
<1>7. tokens[p].type \notin {"NUM", "FLOAT", "STRING"}
  BY DEF IsDirective
<1> QED BY <1>2, <1>4, <1>6, <1>7, ElementsSkipped

LEMMA BssSkipped ==
    ASSUME Tables, ~SectionSpelled, NEW p \in 1 .. Len(tokens), IsDirective(tokens[p], "bss"),
           NEW q, q = SkipTo(p + 1, SectionNames)
    PROVE /\ q \in Nat \ {0} /\ InSections(q)
          /\ Cardinality(Elements(q)) = Cardinality(Elements(p))
<1>1. p \in Nat \ {0} /\ p + 1 \in Nat \ {0} /\ p + 1 <= Len(tokens) + 1 /\ Len(tokens) \in Nat
  BY DEF Tables
<1>2. /\ q \in Nat \ {0} /\ p + 1 <= q /\ InSections(q)
      /\ \A r \in p + 1 .. q - 1 : tokens[r].value \notin SectionNames
  BY <1>1, SkipsSections
<1>3. Begins(p) /\ tokens[p].value = "bss" /\ tokens[p].type \notin {"NUM", "FLOAT", "STRING"}
  BY DEF Begins, Sections, IsDirective
<1>4. \A r \in p + 1 .. q - 1 : SectionAt(r) # "data"
  <2> TAKE r \in p + 1 .. q - 1
  <2>1. SectionAt(p + 1) \in {"bss"}
    BY <1>1, <1>3, SectionBegins
  <2>2. \A m \in p + 1 .. r - 1 : Begins(m) => tokens[m].value \in {"bss"}
    <3> TAKE m \in p + 1 .. r - 1
    <3>1. m \in p + 1 .. q - 1
      BY <1>1, <1>2
    <3> QED BY <1>2, <3>1, BeginsNames
  <2>3. r \in Nat /\ p + 1 <= r
    BY <1>1, <1>2
  <2>4. SectionAt(r) \in {"bss"}
    BY <1>1, <2>1, <2>2, <2>3, SectionLasts
  <2> QED BY <2>4
<1>5. q \in Nat /\ p < q
  BY <1>1, <1>2
<1> QED BY <1>2, <1>3, <1>4, <1>5, ElementsSkipped

LEMMA CompleteStays == ASSUME [Next]_vars, Complete' PROVE Complete /\ errors' = {}
BY ErrorsStay, SourceStays DEF Complete

\* The invariant at the next place, stated of the source as it is.
LEMMA KeptAt ==
    ASSUME UNCHANGED tokens, NEW p, pos' = p
    PROVE /\ SectionAt(pos)' = SectionAt(p) /\ DirectiveAt(pos)' = DirectiveAt(p)
          /\ Elements(pos)' = Elements(p) /\ Current' = TokenAt(p)
          /\ InSections(pos)' <=> InSections(p)
<1>1. /\ \A r : SectionAt(r)' = SectionAt(r) /\ DirectiveAt(r)' = DirectiveAt(r)
      /\ DataElements' = DataElements
  BY SourceStays
<1>2. SectionAt(pos)' = SectionAt(p)' /\ DirectiveAt(pos)' = DirectiveAt(p)'
  BY DEF SectionAt, DirectiveAt
<1>3. Elements(pos)' = Elements(p)
  BY <1>1 DEF Elements
<1>4. Current' = TokenAt(p) /\ (InSections(pos)' <=> InSections(p))
  BY DEF Current, TokenAt, InSections
<1> QED BY <1>1, <1>2, <1>3, <1>4

LEMMA KeptFirstPass ==
    ASSUME [Next]_vars, TypeInv, Kept, FirstPass PROVE Kept'
<1> SUFFICES ASSUME Complete' PROVE Kept'
  BY DEF Kept
<1>1. /\ Complete /\ errors' = {} /\ phase = "first" /\ UNCHANGED <<tokens, data_buffer>>
      /\ \A what : ~Error(what)
  BY CompleteStays, ErrorShows DEF FirstPass
<1>2. /\ Tables /\ pos \in Nat \ {0} /\ pos <= Len(tokens) + 1 /\ Len(tokens) \in Nat
      /\ "first" \in FirstPhase /\ "second" \notin FirstPhase /\ "second" \notin DataDirectives
      /\ "first" \notin DataDirectives /\ "data" \notin DataDirectives
      /\ "data" \in FirstPhase
  BY <1>1 DEF TypeInv, Tables, Places, LastPhase, FirstPhase, DataDirectives, Size
<1>3. Len(data_buffer) = Cardinality(Elements(pos)) /\ InSections(pos)
  BY <1>1, <1>2 DEF Kept
<1>4. PICK q : q = pos'
  OBVIOUS
<1>5. CASE Current.type = "EOF_"
  <2>1. phase' = "second"
    BY <1>5 DEF FirstPass, IsDirective
  <2>2. pos = Len(tokens) + 1
    <3>1. pos > Len(tokens)
      BY <1>2, <1>5, CurrentTyped
    <3> QED BY <1>2, <3>1
  <2>3. Elements(pos) = DataElements
    BY <1>2, <2>2 DEF Elements, DataElements, Positions, Tables
  <2>4. DataElements' = DataElements
    BY <1>1, SourceStays
  <2> QED BY <1>1, <1>2, <1>3, <2>1, <2>3, <2>4 DEF Kept
<1>6. CASE Current.type # "EOF_"
  <2>1. PICK p \in 1 .. Len(tokens) : p = pos /\ Current = tokens[p]
    <3>1. pos <= Len(tokens) /\ Current = tokens[pos]
      BY <1>2, <1>6, CurrentTyped
    <3> QED BY <1>2, <3>1
  <2>2. p \in Nat /\ p + 1 \in Nat /\ p < p + 1 /\ p + 1 .. (p + 1) - 1 = {}
    BY <1>2
  <2>3. ASSUME phase' = "first", InSections(q), Cardinality(Elements(q)) = Cardinality(Elements(p))
        PROVE Kept'
    BY <1>1, <1>2, <1>3, <1>4, <2>1, <2>3, KeptAt DEF Kept
  <2>4. CASE IsDirective(Current, "section")
    <3>1. q = p + 1 /\ phase' = "first"
      BY <1>1, <1>4, <1>6, <2>1, <2>4 DEF FirstPass, IsDirective
    <3>2. \E name \in {"text", "data", "bss"} : IsDirective(TokenAt(p + 1), name)
      <4>1. p \in Positions
        BY <2>1, <1>2 DEF Positions, Tables
      <4> QED BY <1>1, <2>1, <2>4, <4>1 DEF Complete, BareSection
    <3>3. InSections(p + 1)
      BY <3>2 DEF IsDirective, TokenAt, Eof, InSections, SectionNames
    <3>4. tokens[p].type \notin {"NUM", "FLOAT", "STRING"}
      BY <2>1, <2>4 DEF IsDirective
    <3>5. Cardinality(Elements(p + 1)) = Cardinality(Elements(p))
      BY <1>2, <2>2, <3>4, ElementsSkipped
    <3> QED BY <2>3, <3>1, <3>3, <3>5
  <2>5. CASE IsDirective(Current, "data")
    <3>1. q = p + 1 /\ phase' = "data"
      BY <1>1, <1>4, <1>6, <2>1, <2>5 DEF FirstPass, IsDirective
    <3>2. /\ Begins(p) /\ tokens[p].value = "data" /\ tokens[p].type = "DIRECTIVE"
          /\ p \in Nat \ {0}
      BY <2>1, <2>2, <2>5 DEF Begins, Sections, IsDirective
    <3>3. SectionAt(q) = "data" /\ DirectiveAt(q) = "data"
      BY <3>1, <3>2, SectionBegins, DirectiveNext
    <3>4. tokens[p].type \notin {"NUM", "FLOAT", "STRING"}
      BY <3>2
    <3>5. Cardinality(Elements(q)) = Cardinality(Elements(p))
      BY <1>2, <2>2, <3>1, <3>4, ElementsSkipped
    <3>6. /\ SectionAt(pos)' = "data" /\ DirectiveAt(pos)' = "data"
          /\ Elements(pos)' = Elements(q)
      BY <1>1, <1>4, <3>3, KeptAt
    <3> QED BY <1>1, <1>2, <1>3, <2>1, <3>1, <3>5, <3>6 DEF Kept
  <2>6. CASE IsDirective(Current, "bss")
    <3>1. q = SkipTo(p + 1, SectionNames) /\ phase' = "first"
      BY <1>1, <1>4, <1>6, <2>1, <2>6 DEF FirstPass, IsDirective
    <3>2. InSections(q) /\ Cardinality(Elements(q)) = Cardinality(Elements(p))
      BY <1>1, <1>2, <2>1, <2>6, <3>1, BssSkipped DEF Complete
    <3> QED BY <2>3, <3>1, <3>2
  <2>7. CASE IsDirective(Current, "text") \/ Current.type \in {"LABEL", "OPCODE"}
    <3>1. q = SkipTo(p, EndsText) /\ phase' = "first"
      BY <1>1, <1>4, <1>6, <2>1, <2>7 DEF FirstPass, IsDirective
    <3>2. InSections(q) /\ Cardinality(Elements(q)) = Cardinality(Elements(p))
      BY <1>1, <1>2, <1>3, <2>1, <2>7, <3>1, TextSkipped DEF Complete
    <3> QED BY <2>3, <3>1, <3>2
  <2> QED BY <1>1, <1>6, <2>4, <2>5, <2>6, <2>7 DEF FirstPass
<1> QED BY <1>5, <1>6

\* In a data section.
LEMMA KeptToken ==
    ASSUME Tables, ~SectionSpelled, NEW p \in 1 .. Len(tokens), SectionAt(p) = "data",
           tokens[p].value \notin SectionNames \/ tokens[p].type # "DIRECTIVE"
    PROVE SectionAt(p + 1) = "data"
<1>1. ~Begins(p)
  BY BeginsNames
<1>2. /\ p \in Nat \ {0} /\ p + 1 \in Nat /\ p <= p + 1 /\ SectionAt(p) \in {"data"}
      /\ \A r \in p .. (p + 1) - 1 : Begins(r) => tokens[r].value \in {"data"}
  <2>1. p \in Nat \ {0}
    BY DEF Tables
  <2>2. \A r \in p .. (p + 1) - 1 : r = p
    BY <2>1
  <2> QED BY <1>1, <2>1, <2>2
<1>3. SectionAt(p + 1) \in {"data"}
  BY <1>2, SectionLasts
<1> QED BY <1>3

LEMMA KeptData ==
    ASSUME [Next]_vars, TypeInv, Kept, DataEnds \/ DataLabel \/ DataDirective PROVE Kept'
<1> SUFFICES ASSUME Complete' PROVE Kept'
  BY DEF Kept
<1>1. /\ Complete /\ errors' = {} /\ phase = "data" /\ UNCHANGED <<tokens, data_buffer>>
      /\ \A what : ~Error(what)
  BY CompleteStays, ErrorShows DEF DataEnds, DataLabel, DataDirective, InData
<1>2. /\ Tables /\ pos \in Nat \ {0} /\ pos <= Len(tokens) + 1 /\ Len(tokens) \in Nat
      /\ "first" \notin DataDirectives /\ "data" \notin DataDirectives
      /\ "data" \in FirstPhase /\ "first" \in FirstPhase /\ DataDirectives \subseteq FirstPhase
  BY <1>1 DEF TypeInv, Tables, Places, LastPhase, FirstPhase, DataDirectives, Size
<1>3. Len(data_buffer) = Cardinality(Elements(pos)) /\ SectionAt(pos) = "data"
  BY <1>1, <1>2 DEF Kept
<1>4. Current.type # "EOF_" => /\ pos \in 1 .. Len(tokens) /\ Current = tokens[pos]
  <2>1. Current.type # "EOF_" => pos <= Len(tokens) /\ Current = tokens[pos]
    BY <1>2, CurrentTyped
  <2> QED BY <1>2, <2>1
<1>5. CASE DataEnds
  <2>1. phase' = "first" /\ pos' = pos /\ ~InData
    BY <1>5 DEF DataEnds
  <2>2. InSections(pos)
    <3>1. CASE Current.type = "EOF_"
      <4>1. pos > Len(tokens)
        BY <1>2, <3>1, CurrentTyped
      <4>2. pos = Len(tokens) + 1
        BY <1>2, <4>1
      <4> QED BY <4>2 DEF InSections
    <3>2. CASE Current.type # "EOF_"
      <4>1. pos \in 1 .. Len(tokens) /\ tokens[pos].value \in SectionNames
        BY <1>1, <1>4, <2>1, <3>2 DEF InData
      <4>2. tokens[pos].type = "DIRECTIVE"
        BY <1>1, <1>2, <4>1, NamesSections DEF Complete
      <4> QED BY <4>1, <4>2 DEF InSections
    <3> QED BY <3>1, <3>2
  <2>3. InSections(pos)' /\ Elements(pos)' = Elements(pos)
    BY <1>1, <2>1, <2>2, SourceStays DEF InSections, Elements
  <2> QED BY <1>1, <1>2, <1>3, <2>1, <2>3 DEF Kept
<1>6. CASE DataLabel \/ DataDirective
  <2>1. PICK p \in 1 .. Len(tokens) : p = pos /\ Current = tokens[p]
    <3>1. Current.type # "EOF_"
      BY <1>6 DEF DataLabel, DataDirective, InData
    <3> QED BY <1>4, <3>1
  <2>2. /\ p \in Nat \ {0} /\ p + 1 \in Nat /\ p < p + 1 /\ p + 1 .. (p + 1) - 1 = {}
        /\ pos' = p + 1 /\ tokens[p].value \notin SectionNames
    <3>1. pos' = pos + 1 /\ Current.value \notin SectionNames
      BY <1>6 DEF DataLabel, DataDirective, InData
    <3>2. p \in Nat \ {0}
      BY <1>2
    <3> QED BY <2>1, <3>1, <3>2
  <2>3. SectionAt(p + 1) = "data"
    BY <1>1, <1>2, <1>3, <2>1, <2>2, KeptToken DEF Complete
  <2>4. tokens[p].type \in {"LABEL", "DIRECTIVE"}
    <3>1. CASE DataLabel
      BY <2>1, <3>1 DEF DataLabel
    <3>2. CASE DataDirective
      <4>1. tokens[p].value \in DataDirectives
        BY <2>1, <3>2 DEF DataDirective
      <4>2. p \in Positions
        BY <1>2 DEF Positions, Tables
      <4> QED BY <1>1, <4>1, <4>2 DEF Complete, DirectiveSpelled, Spelled
    <3> QED BY <1>6, <3>1, <3>2
  <2>5. Cardinality(Elements(p + 1)) = Cardinality(Elements(p))
    BY <1>2, <2>2, <2>4, ElementsSkipped
  <2>6. /\ SectionAt(pos)' = "data" /\ DirectiveAt(pos)' = DirectiveAt(p + 1)
        /\ Elements(pos)' = Elements(p + 1) /\ Current' = TokenAt(p + 1)
    BY <1>1, <2>2, <2>3, KeptAt
  <2>7. CASE DataLabel
    <3>1. phase' = "data" /\ Peek(1).value \in DataDirectives
      BY <1>1, <2>7 DEF DataLabel, InData
    <3>2. TokenAt(p + 1).type = "DIRECTIVE"
      <4>1. TokenAt(p + 1).value \in DataDirectives /\ Eof.value \notin DataDirectives
        BY <2>1, <3>1 DEF Peek, Eof, DataDirectives, Size
      <4>2. p + 1 <= Len(tokens) /\ TokenAt(p + 1) = tokens[p + 1]
        BY <4>1 DEF TokenAt
      <4>3. p + 1 \in Positions
        BY <1>2, <2>2, <4>2 DEF Positions, Tables
      <4> QED BY <1>1, <4>1, <4>2, <4>3 DEF Complete, DirectiveSpelled, Spelled
    <3>3. \A name : Takes(name) # "DIRECTIVE"
      BY DEF Takes
    <3> QED BY <1>1, <1>2, <1>3, <2>1, <2>5, <2>6, <3>1, <3>2, <3>3 DEF Kept
  <2>8. CASE DataDirective
    <3>1. phase' = tokens[p].value /\ phase' \in DataDirectives /\ tokens[p].type = "DIRECTIVE"
      BY <2>1, <2>4, <2>8 DEF DataDirective
    <3>2. DirectiveAt(p + 1) = phase'
      BY <2>2, <3>1, DirectiveNext
    <3> QED BY <1>1, <1>2, <1>3, <2>1, <2>5, <2>6, <3>1, <3>2 DEF Kept
  <2> QED BY <1>6, <2>7, <2>8
<1> QED BY <1>5, <1>6

LEMMA KeptElement ==
    ASSUME [Next]_vars, TypeInv, Kept, DataElement PROVE Kept'
<1> SUFFICES ASSUME Complete' PROVE Kept'
  BY DEF Kept
<1>1. /\ Complete /\ errors' = {} /\ phase \in DataDirectives /\ UNCHANGED tokens
      /\ \A what : ~Error(what)
  BY CompleteStays, ErrorShows DEF DataElement
<1>2. /\ Tables /\ pos \in Nat \ {0} /\ pos <= Len(tokens) + 1 /\ Len(tokens) \in Nat
      /\ "first" \notin DataDirectives /\ "data" \notin DataDirectives
      /\ "data" \in FirstPhase /\ DataDirectives \subseteq FirstPhase
  BY <1>1 DEF TypeInv, Tables, Places, LastPhase, FirstPhase, DataDirectives, Size
<1>3. /\ Len(data_buffer) = Cardinality(Elements(pos)) /\ SectionAt(pos) = "data"
      /\ DirectiveAt(pos) = phase
  BY <1>1, <1>2 DEF Kept
<1>4. CASE Current.type # Takes(phase)
  <2>1. phase' = "data" /\ pos' = pos /\ UNCHANGED data_buffer
    BY <1>4 DEF DataElement
  <2>2. PICK q : q = pos
    OBVIOUS
  <2>3. /\ SectionAt(pos)' = "data" /\ DirectiveAt(pos)' = phase /\ Elements(pos)' = Elements(pos)
        /\ Current' = Current
    BY <1>1, <1>3, <2>1, <2>2, KeptAt DEF Current
  <2> QED BY <1>1, <1>2, <1>3, <1>4, <2>1, <2>3 DEF Kept
<1>5. CASE Current.type = Takes(phase)
  <2>1. Current.type \in {"NUM", "FLOAT", "STRING"}
    BY <1>5 DEF Takes
  <2>2. PICK p \in 1 .. Len(tokens) : p = pos /\ Current = tokens[p]
    <3>1. pos <= Len(tokens) /\ Current = tokens[pos]
      BY <1>2, <2>1, CurrentTyped
    <3> QED BY <1>2, <3>1
  <2>3. p \in Nat \ {0} /\ p + 1 \in Nat /\ p < p + 1 /\ p + 1 .. (p + 1) - 1 = {} /\ p \in Positions
    BY <1>2 DEF Positions, Tables
  <2>4. pos' = p + 1 /\ phase' = phase /\ data_buffer' = Append(data_buffer, Datum(phase, Current))
    BY <1>1, <1>5, <2>2 DEF DataElement
  <2>5. Len(data_buffer') = Len(data_buffer) + 1 /\ Len(data_buffer) \in Nat
    <3>1. data_buffer \in Seq(Data) /\ Datum(phase, Current) \in Data
      BY <1>1, <1>2, DatumTyped DEF Tables
    <3> QED BY <2>4, <3>1, AppendTyped
  <2>6. p \in DataElements
    BY <1>1, <1>3, <1>5, <2>2, <2>3 DEF DataElements
  <2>7. Cardinality(Elements(p + 1)) = Cardinality(Elements(p)) + 1
    BY <1>2, <2>3, <2>6, ElementsNext
  <2>8. SectionAt(p + 1) = "data" /\ DirectiveAt(p + 1) = phase
    <3>1. tokens[p].type # "DIRECTIVE"
      BY <2>1, <2>2
    <3> QED BY <1>1, <1>2, <1>3, <2>2, <2>3, <3>1, KeptToken, DirectiveNext DEF Complete
  <2>9. /\ SectionAt(pos)' = "data" /\ DirectiveAt(pos)' = phase
        /\ Elements(pos)' = Elements(p + 1)
    BY <1>1, <2>4, <2>8, KeptAt
  <2> QED BY <1>1, <1>2, <1>3, <2>2, <2>4, <2>5, <2>7, <2>9 DEF Kept
<1> QED BY <1>4, <1>5

LEMMA KeptHolds == Spec => []Kept
<1>1. Init => Kept
  <2> SUFFICES ASSUME Init PROVE Kept
    OBVIOUS
  <2>1. pos = 1 /\ phase = "first" /\ Len(data_buffer) = 0
    BY DEF Init
  <2>2. Elements(pos) = {}
    <3>1. DataElements \subseteq 1 .. Len(tokens)
      BY TypeStarts DEF DataElements, Positions, TypeInv, Tables
    <3>2. \A q \in DataElements : ~(q < 1)
      BY <3>1
    <3> QED BY <2>1, <3>2 DEF Elements
  <2>3. "first" \notin DataDirectives /\ "first" \in FirstPhase
    BY DEF DataDirectives, Size, FirstPhase
  <2> QED BY <2>1, <2>2, <2>3, FS_EmptySet DEF Kept, InSections
<1>2. TypeInv /\ Kept /\ [Next]_vars => Kept'
  <2> SUFFICES ASSUME TypeInv, Kept, [Next]_vars PROVE Kept'
    OBVIOUS
  <2>1. CASE InvalidDirective
    BY <2>1, CompleteStays, ErrorShows DEF Kept, InvalidDirective
  <2>2. CASE SecondActions \/ LastActions
    <3>1. phase \notin FirstPhase /\ phase' \notin FirstPhase
      BY <2>2, SecondPhases, LastKeeps DEF FirstPhase, SecondPhase, LastPhase, DataDirectives, Size
    <3>2. UNCHANGED <<tokens, data_buffer>>
      BY <2>2, SecondKeeps, LastKeeps
    <3>3. DataElements' = DataElements
      BY <3>2, SourceStays
    <3> QED BY <3>1, <3>2, <3>3, CompleteStays DEF Kept, FirstPhase
  <2>3. CASE UNCHANGED vars
    <3>1. UNCHANGED <<tokens, pos, phase, data_buffer>>
      BY <2>3 DEF vars
    <3>2. PICK q : q = pos
      OBVIOUS
    <3>3. /\ SectionAt(pos)' = SectionAt(pos) /\ DirectiveAt(pos)' = DirectiveAt(pos)
          /\ Elements(pos)' = Elements(pos) /\ Current' = Current
          /\ InSections(pos)' <=> InSections(pos)
          /\ DataElements' = DataElements
      BY <3>1, <3>2, KeptAt, SourceStays DEF Current
    <3> QED BY <3>1, <3>3, CompleteStays DEF Kept
  <2> QED BY <2>1, <2>2, <2>3, ActionsAreThese, KeptFirstPass, KeptData, KeptElement DEF FirstActions
<1> QED BY <1>1, <1>2, TypeHolds, PTL DEF Spec

(***************************************************************************)
(* Nothing of the source is lost between the passes: the code has each     *)
(* instruction written in a text section, a reference to data twice, and   *)
(* the buffer each datum written behind a directive in a data section.     *)
(***************************************************************************)
THEOREM NothingDropped == Spec => []NothingIsDropped
<1>1. TypeInv /\ Placed /\ Counted /\ Kept => NothingIsDropped
  <2> SUFFICES ASSUME Placed, Counted, Kept, phase = "loaded",
                      ~BareSection, ~SectionSpelled, ~DirectiveSpelled
               PROVE /\ Len(intermediate_code) = InstructionsBefore(Len(tokens) + 1)
                     /\ Len(data_buffer) = Cardinality(DataElements)
    BY DEF NothingIsDropped
  <2>1. Sound /\ Complete
    BY DEF Placed, Sound, Complete
  <2>2. phase \in LastPhase /\ phase \notin FirstPhase
    BY DEF LastPhase, FirstPhase, DataDirectives, Size
  <2> QED BY <2>1, <2>2 DEF Counted, Kept
<1> QED BY <1>1, TypeHolds, PlacedHolds, CountedHolds, KeptHolds, PTL
=============================================================================
