------------------------------- MODULE Memory -------------------------------
(***************************************************************************)
(* The simulated machine's memory: blocks made on the first write to them, *)
(* accesses of one, two or more bytes made byte by byte, and the block     *)
(* size, which the memory and each of its blocks take from the             *)
(* configuration at different times.  Two threads use it and no lock: the  *)
(* launched one and the command loop.                                      *)
(***************************************************************************)
EXTENDS Integers, FiniteSets

CONSTANTS
    Clients,           \* "thread" and "loop"
    MemorySize,        \* memory_size_
    BlockSizes,        \* what the user sets memory_block_size to
    ByteMod,           \* 256 in the code
    Widths,            \* bytes of an access: 1, 2, 4, 8
    Values,            \* what is written: numbers, narrowed to the width
    MaxOperations

VARIABLES
    blocks,            \* block index -> its bytes
    block_size,        \* block_size_, taken when the machine was made
    config_block_size, \* memory_block_size of the configuration
    access,            \* what each client is doing
    undefined,         \* a byte outside its block was touched, or the map raced
    operations_left,
    shrunk, raced      \* history: what can have made it undefined

vars == <<blocks, block_size, config_block_size, access, undefined, operations_left, shrunk, raced>>

Byte == 0 .. ByteMod - 1
Address == 0 .. MemorySize - 1

GetBlockIndex(address) == address \div block_size
\* Mutant: the offset is taken by the configuration, the index is not.
OffsetByConfig(address) == address % config_block_size
GetBlockOffset(address) == address % block_size
IsBlockPresent(index) == index \in DOMAIN blocks

\* A block is as large as the configuration says when it is made.
\* Mutant: the block's last byte is missing.
ShortBlock == [offset \in 0 .. config_block_size - 2 |-> 0]
NewBlock == [offset \in 0 .. config_block_size - 1 |-> 0]

\* A block made anew; as a mutant, on every write.
MakeBlock(index) ==
    [i \in DOMAIN blocks \union {index} |-> IF i = index THEN NewBlock ELSE blocks[i]]
EnsureBlockExists(index) == IF IsBlockPresent(index) THEN blocks ELSE MakeBlock(index)

\* The byte a program would read: what stands in the block, 0 without one.
Contents == [a \in Address |->
    IF IsBlockPresent(GetBlockIndex(a)) /\ GetBlockOffset(a) \in DOMAIN blocks[GetBlockIndex(a)]
    THEN blocks[GetBlockIndex(a)][GetBlockOffset(a)]
    ELSE 0]

-----------------------------------------------------------------------------
(***************************************************************************)
(* An access: its address is checked for its width first, then each byte's *)
(* by itself.  start holds, for the properties, the memory it began with,  *)
(* and alone whether nobody else's write shared bytes with it.             *)
(***************************************************************************)
Idle == [kind |-> "none", at |-> 0, width |-> 1, value |-> 0, done |-> 1,
         start |-> [a \in Address |-> 0], alone |-> TRUE]

InProgress(client) == access[client].kind # "none" /\ access[client].done < access[client].width

\* 64 bits wide: where the memory is smaller than the width the difference
\* wraps around, and every address is admitted.
\* Mutant: only the first byte is checked.
AdmitsFirst(address, width) == address < MemorySize
Admits(address, width) == MemorySize < width - 1 \/ address < MemorySize - (width - 1)

Touched(a) == a.at .. a.at + a.width - 1
Share(a, b) == Touched(a) \intersect Touched(b) # {} /\ "write" \in {a.kind, b.kind}

\* Behind what is undefined nothing is modelled.
Operation == ~undefined /\ operations_left > 0 /\ operations_left' = operations_left - 1
Proceeds(client) == ~undefined /\ InProgress(client)

\* Mutants: the byte is not cut off; a byte read is not shifted.
ByteUncut(value, k) == value \div (ByteMod ^ k)
ByteOf(value, k) == (value \div (ByteMod ^ k)) % ByteMod
Unshifted(byte, k) == byte
Shifted(byte, k) == byte * (ByteMod ^ k)
Narrowed(value, width) == value % (ByteMod ^ width)

Others(client) == {c \in Clients \ {client} : InProgress(c)}

Begin(client, kind, at, width, value) ==
    /\ ~InProgress(client)
    /\ Operation
    /\ Admits(at, width)
    /\ LET new == [kind |-> kind, at |-> at, width |-> width, value |-> value, done |-> 0,
                   start |-> Contents, alone |-> TRUE]
           sharing == {c \in Others(client) : Share(new, access[c])}
       IN access' = [c \in Clients |->
              CASE c = client -> [new EXCEPT !.alone = (sharing = {})]
                [] c \in sharing -> [access[c] EXCEPT !.alone = FALSE]
                [] OTHER -> access[c]]
    /\ raced' = (raced \/ Others(client) # {})
    /\ UNCHANGED <<blocks, block_size, config_block_size, undefined, shrunk>>

ReadAccess(client) ==
    \E at \in Address, width \in Widths : Begin(client, "read", at, width, 0)
WriteAccess(client) ==
    \E at \in Address, width \in Widths, v \in Values :
        Begin(client, "write", at, width, Narrowed(v, width))

\* A byte beyond the end throws, in the middle of the access.
Throw(client) ==
    /\ Proceeds(client)
    /\ access[client].at + access[client].done >= MemorySize
    /\ access' = [access EXCEPT ![client] = Idle]
    /\ UNCHANGED <<blocks, block_size, config_block_size, undefined, operations_left, shrunk, raced>>

NextByte(client) == access[client].at + access[client].done

\* The access with one byte more, and its value; behind the last it is over.
After(client, value) ==
    IF access[client].done + 1 = access[client].width
    THEN [access EXCEPT ![client] = Idle]
    ELSE [access EXCEPT ![client].done = @ + 1, ![client].value = value]

ReadSoFar(client) ==
    access[client].value + Shifted(Contents[NextByte(client)], access[client].done)

\* Write: outside its block nothing is known of what is hit; making a
\* block while the other thread is in the map may break the map.
Write(client) ==
    LET a == access[client]
        address == NextByte(client)
        index == GetBlockIndex(address)
        offset == GetBlockOffset(address)
        ensured == EnsureBlockExists(index)
    IN /\ Proceeds(client) /\ a.kind = "write" /\ address < MemorySize
       /\ IF offset \in DOMAIN ensured[index]
          THEN /\ blocks' = [ensured EXCEPT ![index][offset] = ByteOf(a.value, a.done)]
               /\ \/ UNCHANGED undefined
                  \/ Others(client) # {} /\ ~IsBlockPresent(index) /\ undefined' = TRUE
          ELSE blocks' = ensured /\ undefined' = TRUE
       /\ access' = After(client, a.value)
       /\ UNCHANGED <<block_size, config_block_size, operations_left, shrunk, raced>>

\* Read: a block that is not there reads as zero and is not made.
Read(client) ==
    LET a == access[client]
        address == NextByte(client)
        index == GetBlockIndex(address)
        offset == GetBlockOffset(address)
    IN /\ Proceeds(client) /\ a.kind = "read" /\ address < MemorySize
       /\ undefined' = (IsBlockPresent(index) /\ offset \notin DOMAIN blocks[index])
       /\ access' = After(client, ReadSoFar(client))
       /\ UNCHANGED <<blocks, block_size, config_block_size, operations_left, shrunk, raced>>

-----------------------------------------------------------------------------
(***************************************************************************)
(* Commands: RESET clears the blocks, a change of pipeline_mode makes a    *)
(* new machine; neither comes while a thread runs.  MODIFY_CONFIG does.    *)
(***************************************************************************)
Quiet == \A c \in Clients : ~InProgress(c)

Reset ==
    /\ Quiet /\ Operation
    /\ blocks' = <<>>
    /\ access' = [c \in Clients |-> Idle]
    /\ UNCHANGED <<block_size, config_block_size, undefined, shrunk, raced>>

MakeMachine ==
    /\ Quiet /\ Operation
    /\ blocks' = <<>>
    /\ block_size' = config_block_size
    /\ access' = [c \in Clients |-> Idle]
    /\ shrunk' = FALSE /\ raced' = FALSE
    /\ UNCHANGED <<config_block_size, undefined>>

ModifyConfig ==
    /\ Operation
    /\ \E size \in BlockSizes :
         /\ config_block_size' = size
         /\ shrunk' = (shrunk \/ size < block_size)
    /\ UNCHANGED <<blocks, block_size, access, undefined, raced>>

Init ==
    /\ config_block_size \in BlockSizes
    /\ block_size = config_block_size
    /\ blocks = <<>>
    /\ access = [c \in Clients |-> Idle]
    /\ undefined = FALSE /\ shrunk = FALSE /\ raced = FALSE
    /\ operations_left = MaxOperations

Next ==
    \/ \E c \in Clients : ReadAccess(c) \/ WriteAccess(c) \/ Read(c) \/ Write(c) \/ Throw(c)
    \/ Reset \/ MakeMachine \/ ModifyConfig

Spec == Init /\ [][Next]_vars

ASSUME MemoryAssumption ==
    /\ MemorySize \in Nat \ {0} /\ ByteMod \in Nat \ {0}
    /\ BlockSizes \subseteq Nat \ {0}
    /\ Widths \subseteq Nat \ {0} /\ Values \subseteq Nat
    /\ MaxOperations \in Nat
    /\ \A width \in Widths : \A k \in 0 .. width : ByteMod ^ k \in Nat \ {0}

\* What raising to a power is, of which the provers know nothing.
ASSUME PowerAssumption ==
    /\ ByteMod ^ 0 = 1 /\ ByteMod ^ 1 = ByteMod
    /\ \A width \in Widths : \A k \in 0 .. width : \A j \in 0 .. k :
         ByteMod ^ k = (ByteMod ^ j) * (ByteMod ^ (k - j))

-----------------------------------------------------------------------------
\* Blocks hold bytes, an access lies where it was admitted.
TypeOK ==
    /\ block_size \in BlockSizes /\ config_block_size \in BlockSizes
    /\ \A index \in DOMAIN blocks : \E size \in BlockSizes :
         blocks[index] \in [0 .. size - 1 -> Byte]
    /\ \A c \in Clients : /\ access[c].at \in Address /\ access[c].value \in Nat
                          /\ access[c].done \in 0 .. access[c].width

(***************************************************************************)
(* Blocks, however they are cut and whenever they are made, are a map of   *)
(* bytes: a byte written is that byte and no other.                        *)
(***************************************************************************)
Bytes == INSTANCE ByteMap WITH
    Addresses <- Address, ZeroByte <- 0, contents <- Contents, defined <- ~undefined
ImplementsByteMap == Bytes!Spec

(***************************************************************************)
(* An access that was admitted is made to its last byte: none is left half *)
(* done by a byte behind the end of memory.                                *)
(***************************************************************************)
AdmittedAccessesComplete ==
    \A c \in Clients : InProgress(c) /\ access[c].width <= MemorySize + 1
                          => NextByte(c) < MemorySize

(***************************************************************************)
(* Where nobody else writes the same bytes meanwhile, a read gives what    *)
(* was there when it began and a write leaves all of its value.            *)
(***************************************************************************)
LastByte(client) ==
    InProgress(client) /\ access[client].done + 1 = access[client].width
UndisturbedAccessesAreExact ==
    [][\A c \in Clients : (Read(c) \/ Write(c)) /\ LastByte(c) /\ access[c].alone /\ ~undefined' =>
          LET reads == access[c].kind = "read"
              there == IF reads THEN access[c].start ELSE Contents'
              value == IF reads THEN ReadSoFar(c) ELSE access[c].value
          IN \A k \in 0 .. access[c].width - 1 : there[access[c].at + k] = ByteOf(value, k)]_vars

(***************************************************************************)
(* No access leaves its block, and no two meet in the map of blocks, unless*)
(* memory_block_size was lowered under a machine that exists, or the two   *)
(* threads used the memory at the same time.                               *)
(***************************************************************************)
UndefinedHasACause == undefined => shrunk \/ raced
=============================================================================
