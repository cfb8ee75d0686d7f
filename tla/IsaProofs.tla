----------------------------- MODULE IsaProofs -----------------------------
(***************************************************************************)
(* Operators on words, registers and instructions: what both machines      *)
(* build on.                                                               *)
(***************************************************************************)
EXTENDS Isa, TLAPS

\* Wrapping any integer gives a register value.
LEMMA WrapInWord == ASSUME NEW x \in Int PROVE Wrap(x) \in Word
BY IsaAssumption DEF Wrap, Word

\* A statistics counter wraps around within its range.
LEMMA BumpInCounter == ASSUME NEW c \in Counter PROVE Bump(c) \in Counter
BY IsaAssumption DEF Bump, Counter

\* Four cells of a memory make an instruction word.
LEMMA FetchedWord ==
    ASSUME NEW memory \in [Word -> Word], NEW at \in Word
    PROVE [k \in 0 .. 3 |-> memory[Wrap(at + k)]] \in InstrWord
<1>1. \A k \in 0 .. 3 : at + k \in Int
  BY IsaAssumption DEF Word
<1>2. \A k \in 0 .. 3 : Wrap(at + k) \in Word
  BY <1>1, WrapInWord
<1> QED BY <1>2 DEF InstrWord

\* What the fetch reads is something a word encodes.
LEMMA ReadInstrInCode ==
    ASSUME NEW Code, \A word \in InstrWord : Decode(word) \in Code,
           NEW memory \in [Word -> Word], NEW at \in Word
    PROVE ReadInstr(memory, at) \in Code
BY FetchedWord DEF ReadInstr

\* From a memory of zeros the fetch reads the instruction of a zero word.
LEMMA ZeroMemoryReads ==
    /\ ZeroMemory \in [Word -> Word]
    /\ \A at \in Word : ReadInstr(ZeroMemory, at) = ZeroInstr
<1>1. ZeroMemory \in [Word -> Word]
  BY IsaAssumption DEF ZeroMemory, Word
<1>2. ASSUME NEW at \in Word PROVE ReadInstr(ZeroMemory, at) = ZeroInstr
  <2>1. \A k \in 0 .. 3 : at + k \in Int
    BY IsaAssumption DEF Word
  <2>2. \A k \in 0 .. 3 : Wrap(at + k) \in Word
    BY <2>1, WrapInWord
  <2>3. [k \in 0 .. 3 |-> ZeroMemory[Wrap(at + k)]] = [k \in 0 .. 3 |-> 0]
    BY <2>2 DEF ZeroMemory
  <2> QED BY <2>3, IsaAssumption DEF ReadInstr
<1> QED BY <1>1, <1>2

\* A program of words, with data that are words, leaves a memory of words.
LEMMA LoadProgramTyped ==
    ASSUME NEW memory \in [Word -> Word], NEW image,
           image.text \in Seq(InstrWord),
           \A a \in DOMAIN image.data : a \in Word /\ image.data[a] \in Word
    PROVE LoadProgram(memory, image) \in [Word -> Word]
<1> SUFFICES ASSUME NEW a \in Word PROVE LoadProgram(memory, image)[a] \in Word
  BY DEF LoadProgram
<1>1. ASSUME a < ProgramSize(image) PROVE image.text[(a \div 4) + 1][a % 4] \in Word
  <2>0. a \in Nat /\ Len(image.text) \in Nat /\ a < 4 * Len(image.text)
    BY <1>1, IsaAssumption DEF ProgramSize, Word
  <2>1. (a \div 4) + 1 \in 1 .. Len(image.text) /\ a % 4 \in 0 .. 3
    BY <2>0
  <2>2. image.text[(a \div 4) + 1] \in InstrWord
    BY <2>1
  <2> QED BY <2>1, <2>2 DEF InstrWord
<1> QED BY <1>1 DEF LoadProgram

\* A field shifted in an int32_t and extended is a register value.
LEMMA SignExtendInWord == ASSUME NEW x \in Int PROVE SignExtend32(x) \in Word
<1>1. x % HalfMod \in 0 .. HalfMod - 1
  BY IsaAssumption
<1> QED BY <1>1, IsaAssumption DEF SignExtend32, Word

\* x0 reads as zero, and writing it changes nothing.
LEMMA GprType ==
    ASSUME NEW bank \in [Reg -> Word], bank[0] = 0, NEW r \in Reg, NEW v \in Word
    PROVE /\ ReadGpr(bank, r) \in Word /\ ReadGpr(bank, r) = bank[r]
          /\ WriteGpr(bank, r, v) \in [Reg -> Word] /\ WriteGpr(bank, r, v)[0] = 0
          /\ \A q \in Reg : q # r => WriteGpr(bank, r, v)[q] = bank[q]
BY IsaAssumption DEF ReadGpr, WriteGpr, Word, Reg

\* The ALU computes a register value whatever it is asked.
LEMMA AluInWord ==
    ASSUME NEW aluOp, NEW a \in Word, NEW b \in Word
    PROVE Alu(aluOp, a, b) \in Word
<1>1. a + b \in Int /\ a - b \in Int /\ a * b \in Int
  BY IsaAssumption DEF Word
<1>2. Wrap(a + b) \in Word /\ Wrap(a - b) \in Word /\ Wrap(a * b) \in Word
  BY <1>1, WrapInWord
<1>3. 0 \in Word /\ 1 \in Word
  BY IsaAssumption DEF Word
<1> QED BY <1>2, <1>3 DEF Alu
-----------------------------------------------------------------------------
\* Integer division: what the address arithmetic of the predictors needs.
LEMMA DivMod ==
    ASSUME NEW n \in Nat, NEW d \in Nat \ {0}
    PROVE n \div d \in Nat /\ n % d \in 0 .. d - 1 /\ n = d * (n \div d) + (n % d)
<1>1. n % d \in 0 .. d - 1
  OBVIOUS
<1>2. n \div d \in Nat
  OBVIOUS
<1>3. n = d * (n \div d) + (n % d)
  OBVIOUS
<1> QED BY <1>1, <1>2, <1>3

LEMMA TimesMinus ==
    ASSUME NEW d \in Int, NEW m \in Int, NEW n \in Int PROVE d * (m - n) = d * m - d * n
OBVIOUS

LEMMA TimesPositive ==
    ASSUME NEW d \in Nat, NEW m \in Int, m >= 1 PROVE d * m >= d
OBVIOUS

\* The remainder is the only one.
LEMMA RemainderOf ==
    ASSUME NEW d \in Nat \ {0}, NEW k \in Int, NEW r \in 0 .. d - 1, NEW n \in Int, n = d * k + r
    PROVE n % d = r
<1>1. PICK q \in Int, s \in 0 .. d - 1 : n = d * q + s /\ n % d = s
  <2>1. n \div d \in Int /\ n % d \in 0 .. d - 1
    OBVIOUS
  <2>2. n = d * (n \div d) + (n % d)
    OBVIOUS
  <2> QED BY <2>1, <2>2
<1>2. d * q \in Int /\ d * k \in Int
  OBVIOUS
<1>3. d * q - d * k = r - s /\ d * k - d * q = s - r
  BY <1>1, <1>2
<1>4. ~(q - k >= 1)
  BY <1>3, TimesMinus, TimesPositive
<1>5. ~(k - q >= 1)
  BY <1>3, TimesMinus, TimesPositive
<1> QED BY <1>1, <1>2, <1>3, <1>4, <1>5

\* Wrapping a term before the sum changes nothing.
LEMMA WrapOfSum ==
    ASSUME NEW a \in Int, NEW x \in Int PROVE Wrap(a + Wrap(x)) = Wrap(a + x)
<1> DEFINE M == Mod
<1>1. M \in Nat \ {0}
  BY IsaAssumption
<1> SUFFICES (a + (x % M)) % M = (a + x) % M
  BY DEF Wrap
<1> HIDE DEF M
<1>2. PICK k \in Int, r \in 0 .. M - 1 : x = M * k + r /\ x % M = r
  <2>1. x \div M \in Int /\ x % M \in 0 .. M - 1
    BY <1>1
  <2>2. x = M * (x \div M) + (x % M)
    BY <1>1
  <2> QED BY <2>1, <2>2
<1>3. PICK l \in Int, s \in 0 .. M - 1 : a + r = M * l + s /\ (a + r) % M = s
  <2> DEFINE y == a + r
  <2>0. y \in Int
    BY <1>2
  <2> HIDE DEF y
  <2>1. y \div M \in Int /\ y % M \in 0 .. M - 1
    BY <1>1, <2>0
  <2>2. y = M * (y \div M) + (y % M)
    BY <1>1, <2>0
  <2> QED BY <2>1, <2>2 DEF y
<1>4. a + x = M * (l - (0 - k)) + s
  <2>1. M * l \in Int /\ M * k \in Int
    BY <1>1, <1>2, <1>3
  <2>2. M * (l - (0 - k)) = M * l - M * (0 - k) /\ M * (0 - k) = M * 0 - M * k
    BY <1>1, <1>2, <1>3, TimesMinus
  <2>3. a + x = M * k + (a + r)
    BY <1>2, <2>1
  <2> QED BY <1>1, <1>2, <1>3, <2>1, <2>2, <2>3
<1>5. (a + x) % M = s
  <2>1. l - (0 - k) \in Int /\ a + x \in Int
    BY <1>2, <1>3
  <2>2. ASSUME NEW c \in Int, NEW n \in Int, n = M * c + s PROVE n % M = s
    BY <1>1, <1>3, <2>2, RemainderOf
  <2> QED BY <1>4, <2>1, <2>2
<1> QED BY <1>2, <1>3, <1>5

\* Where the number of values is a multiple of four, so are the sums of
\* multiples of four.
LEMMA AlignedSum ==
    ASSUME Mod % 4 = 0, NEW a \in Nat, NEW b \in Nat, a % 4 = 0, b % 4 = 0
    PROVE Wrap(a + b) % 4 = 0
<1> DEFINE M == Mod
           y == a + b
<1>1. M \in Nat \ {0} /\ M % 4 = 0 /\ y \in Nat /\ y % 4 = 0
  BY IsaAssumption
<1> SUFFICES (y % M) % 4 = 0
  BY DEF Wrap
<1> HIDE DEF M, y
<1>2. PICK m \in Nat : M = 4 * m
  <2>1. M \div 4 \in Nat /\ M = 4 * (M \div 4)
    BY <1>1
  <2> QED BY <2>1
<1>3. PICK q \in Nat, r \in 0 .. M - 1 : y = M * q + r /\ y % M = r
  BY <1>1, DivMod
<1>4. PICK p \in Nat : M * q = 4 * p
  <2>1. m * q \in Nat /\ M * q = 4 * (m * q)
    BY <1>2, <1>3
  <2> QED BY <2>1
<1>5. r \in Nat /\ y = 4 * p + r
  BY <1>1, <1>3, <1>4
<1> QED BY <1>1, <1>3, <1>4, <1>5
=============================================================================
