---------------------------- MODULE MemoryProofs ----------------------------
(***************************************************************************)
(* Memory for every size, block size, width and pair of threads: admitted  *)
(* accesses stay inside it, what is undefined has one of two causes, and   *)
(* the blocks are a map of bytes.                                          *)
(***************************************************************************)
EXTENDS Memory, TLAPS

AccessSet == [kind: {"none", "read", "write"}, at: Address, width: Widths \union {1}, value: Nat,
              done: Nat, start: [Address -> Byte], alone: BOOLEAN]

\* While memory_block_size was not lowered, no block is shorter than the
\* memory believes.
BlockOK(index) ==
    \E size \in BlockSizes : /\ blocks[index] \in [0 .. size - 1 -> Byte]
                             /\ ~shrunk => size >= block_size

SizesInv ==
    /\ block_size \in BlockSizes /\ config_block_size \in BlockSizes
    /\ ~shrunk => config_block_size >= block_size
    /\ \A index \in DOMAIN blocks : BlockOK(index)

AccessInv ==
    /\ access \in [Clients -> AccessSet]
    /\ \A c \in Clients : /\ access[c].done <= access[c].width
                          /\ InProgress(c) => /\ Admits(access[c].at, access[c].width)
                                              /\ access[c].width \in Widths
    /\ \A c, d \in Clients : c # d /\ InProgress(c) /\ InProgress(d) => raced

MemoryInv == SizesInv /\ AccessInv /\ UndefinedHasACause /\ undefined \in BOOLEAN

-----------------------------------------------------------------------------
\* An offset lies in a block of the size the memory believes in.
LEMMA OffsetInBlock ==
    ASSUME SizesInv, NEW a \in Address
    PROVE /\ GetBlockIndex(a) \in Nat /\ GetBlockOffset(a) \in 0 .. block_size - 1
          /\ block_size \in Nat /\ block_size > 0
<1>1. block_size \in Nat \ {0} /\ a \in Nat
  BY MemoryAssumption DEF SizesInv, Address
<1> QED BY <1>1 DEF GetBlockIndex, GetBlockOffset

\* Index and offset tell addresses apart.
LEMMA DivModUnique ==
    ASSUME NEW n \in Nat, n > 0, NEW a \in Nat, NEW b \in Nat, a \div n = b \div n, a % n = b % n
    PROVE a = b
OBVIOUS

LEMMA PlaceIsUnique ==
    ASSUME SizesInv, NEW a \in Address, NEW b \in Address,
           GetBlockIndex(a) = GetBlockIndex(b), GetBlockOffset(a) = GetBlockOffset(b)
    PROVE a = b
<1>1. block_size \in Nat /\ block_size > 0 /\ a \in Nat /\ b \in Nat
  BY MemoryAssumption DEF SizesInv, Address
<1> QED BY <1>1, DivModUnique DEF GetBlockIndex, GetBlockOffset

LEMMA ZeroIsByte == 0 \in Byte /\ 0 \in Address /\ Idle \in AccessSet
<1>1. 0 \in Byte /\ 0 \in Address
  BY MemoryAssumption DEF Byte, Address
<1>2. [a \in Address |-> 0] \in [Address -> Byte]
  BY <1>1
<1> QED BY <1>1, <1>2 DEF Idle, AccessSet

\* Bytes read are bytes.
LEMMA ContentsType == ASSUME SizesInv PROVE Contents \in [Address -> Byte]
<1> SUFFICES ASSUME NEW a \in Address, IsBlockPresent(GetBlockIndex(a)),
                    GetBlockOffset(a) \in DOMAIN blocks[GetBlockIndex(a)]
             PROVE blocks[GetBlockIndex(a)][GetBlockOffset(a)] \in Byte
  BY ZeroIsByte DEF Contents
<1>1. BlockOK(GetBlockIndex(a))
  BY DEF SizesInv, IsBlockPresent
<1>2. PICK size \in BlockSizes : blocks[GetBlockIndex(a)] \in [0 .. size - 1 -> Byte]
  BY <1>1 DEF BlockOK
<1> QED BY <1>2

LEMMA ByteOfType ==
    ASSUME NEW value \in Nat, NEW width \in Widths, NEW k \in 0 .. width
    PROVE ByteOf(value, k) \in Byte
<1>1. ByteMod ^ k \in Nat \ {0} /\ ByteMod \in Nat \ {0}
  BY MemoryAssumption
<1> DEFINE place == ByteMod ^ k
<1> HIDE DEF place
<1>2. place \in Nat \ {0} /\ ByteOf(value, k) = (value \div place) % ByteMod
  BY <1>1 DEF ByteOf, place
<1>3. value \div place \in Int
  BY <1>2
<1> QED BY <1>1, <1>2, <1>3 DEF Byte

LEMMA NarrowedType ==
    ASSUME NEW value \in Values, NEW width \in Widths PROVE Narrowed(value, width) \in Nat
<1>1. value \in Nat /\ width \in 0 .. width
  BY MemoryAssumption
<1>2. ByteMod ^ width \in Nat \ {0}
  BY <1>1, MemoryAssumption
<1> DEFINE place == ByteMod ^ width
<1> HIDE DEF place
<1>3. place \in Nat \ {0} /\ Narrowed(value, width) = value % place
  BY <1>2 DEF Narrowed, place
<1> QED BY <1>1, <1>3

\* The block a write finds or makes is as long as any.
LEMMA EnsuredBlocks ==
    ASSUME SizesInv, NEW a \in Address
    PROVE LET ensured == EnsureBlockExists(GetBlockIndex(a))
          IN /\ GetBlockIndex(a) \in DOMAIN ensured
             /\ \A index \in DOMAIN ensured : \E size \in BlockSizes :
                   ensured[index] \in [0 .. size - 1 -> Byte] /\ (~shrunk => size >= block_size)
             /\ ~shrunk => GetBlockOffset(a) \in DOMAIN ensured[GetBlockIndex(a)]
<1> DEFINE made == GetBlockIndex(a)
           ensured == EnsureBlockExists(made)
           Sized(block) == \E size \in BlockSizes :
              block \in [0 .. size - 1 -> Byte] /\ (~shrunk => size >= block_size)
<1>1. \A index \in DOMAIN blocks : Sized(blocks[index])
  BY DEF SizesInv, BlockOK
<1>2. Sized(NewBlock)
  <2>1. NewBlock \in [0 .. config_block_size - 1 -> Byte]
    BY ZeroIsByte DEF NewBlock
  <2> QED BY <2>1 DEF SizesInv
<1>3. made \in DOMAIN ensured
  BY DEF EnsureBlockExists, IsBlockPresent, MakeBlock
<1>4. ASSUME NEW index \in DOMAIN ensured
      PROVE ensured[index] = NewBlock \/ (index \in DOMAIN blocks /\ ensured[index] = blocks[index])
  <2>1. CASE made \in DOMAIN blocks
    <3>1. ensured = blocks
      BY <2>1 DEF EnsureBlockExists, IsBlockPresent
    <3> HIDE DEF ensured
    <3> QED BY <1>4, <3>1
  <2>2. CASE made \notin DOMAIN blocks
    <3>1. ensured = [i \in DOMAIN blocks \union {made} |-> IF i = made THEN NewBlock ELSE blocks[i]]
      BY <2>2 DEF EnsureBlockExists, IsBlockPresent, MakeBlock
    <3> HIDE DEF ensured, made
    <3> QED BY <1>4, <3>1
  <2> QED BY <2>1, <2>2
<1>5. \A index \in DOMAIN ensured : Sized(ensured[index])
  <2> HIDE DEF Sized, ensured
  <2> QED BY <1>1, <1>2, <1>4
<1>6. ~shrunk => GetBlockOffset(a) \in DOMAIN ensured[made]
  <2> HAVE ~shrunk
  <2>1. PICK size \in BlockSizes : ensured[made] \in [0 .. size - 1 -> Byte] /\ size >= block_size
    BY <1>3, <1>5
  <2>2. size \in Nat /\ block_size \in Nat /\ GetBlockOffset(a) \in 0 .. block_size - 1
    BY OffsetInBlock, MemoryAssumption
  <2>3. GetBlockOffset(a) \in 0 .. size - 1
    BY <2>1, <2>2
  <2> QED BY <2>1, <2>3
<1> HIDE DEF ensured
<1> QED BY <1>3, <1>5, <1>6 DEF ensured

-----------------------------------------------------------------------------
(***************************************************************************)
(* The invariant.                                                          *)
(***************************************************************************)
LEMMA IdleIsQuiet == Idle.kind = "none" /\ Idle.done <= Idle.width
BY DEF Idle

LEMMA InitInv == Init => MemoryInv
<1> SUFFICES ASSUME Init PROVE MemoryInv
  OBVIOUS
<1>1. SizesInv
  <2>1. DOMAIN blocks = {} /\ block_size = config_block_size /\ block_size \in BlockSizes
    BY DEF Init
  <2>2. block_size \in Nat
    BY <2>1, MemoryAssumption
  <2> QED BY <2>1, <2>2 DEF SizesInv
<1>2. \A c \in Clients : access[c] = Idle /\ ~InProgress(c)
  BY IdleIsQuiet DEF Init, InProgress
<1>3. AccessInv
  BY <1>2, ZeroIsByte, IdleIsQuiet DEF Init, AccessInv
<1> QED BY <1>1, <1>3 DEF Init, MemoryInv, UndefinedHasACause

\* An access that goes on or ends, whatever it read.
LEMMA AfterInv ==
    ASSUME AccessInv, NEW client \in Clients, InProgress(client), NEW value \in Nat,
           access' = After(client, value), UNCHANGED raced
    PROVE AccessInv'
<1> DEFINE a == access[client]
           more == [a EXCEPT !.done = a.done + 1, !.value = value]
<1>1. a \in AccessSet /\ a.kind # "none" /\ a.done < a.width /\ a.width \in Widths
      /\ Admits(a.at, a.width)
  BY DEF AccessInv, InProgress
<1>2. CASE access' = [access EXCEPT ![client] = Idle]
  <2>1. access' \in [Clients -> AccessSet]
    BY <1>2, ZeroIsByte DEF AccessInv
  <2>2. access'[client] = Idle /\ \A c \in Clients : c # client => access'[c] = access[c]
    BY <1>2 DEF AccessInv
  <2> QED BY <2>1, <2>2, IdleIsQuiet DEF AccessInv, InProgress
<1>3. CASE access' = [access EXCEPT ![client] = more] /\ a.done + 1 # a.width
  <2>1. /\ more \in AccessSet /\ more.done = a.done + 1 /\ more.width = a.width
        /\ more.kind = a.kind /\ more.at = a.at
    <3>1. a.done + 1 \in Nat
      BY <1>1 DEF AccessSet
    <3> HIDE DEF a
    <3> QED BY <1>1, <3>1 DEF AccessSet
  <2>2. a.width \in Nat /\ a.done \in Nat
    BY <1>1, MemoryAssumption DEF AccessSet
  <2> HIDE DEF more, a
  <2>3. access' \in [Clients -> AccessSet]
    BY <1>3, <2>1 DEF AccessInv
  <2>4. access'[client] = more /\ \A c \in Clients : c # client => access'[c] = access[c]
    BY <1>3 DEF AccessInv
  <2>5. \A c \in Clients : access'[c].done <= access'[c].width
    BY <1>1, <1>3, <2>1, <2>2, <2>4 DEF AccessInv
  <2>6. \A c \in Clients : InProgress(c)' => InProgress(c)
    BY <2>4 DEF InProgress
  <2>7. \A c \in Clients : InProgress(c)' => Admits(access'[c].at, access'[c].width)
                                            /\ access'[c].width \in Widths
    BY <1>1, <2>1, <2>4, <2>6 DEF AccessInv
  <2> QED BY <2>3, <2>5, <2>6, <2>7 DEF AccessInv, Admits
<1> QED BY <1>2, <1>3 DEF After

LEMMA BeginInv ==
    ASSUME SizesInv, AccessInv, NEW client \in Clients, NEW kind \in {"read", "write"},
           NEW at \in Address, NEW width \in Widths, NEW value \in Nat,
           Begin(client, kind, at, width, value)
    PROVE AccessInv'
<1> DEFINE new == [kind |-> kind, at |-> at, width |-> width, value |-> value, done |-> 0,
                   start |-> Contents, alone |-> TRUE]
           sharing == {c \in Others(client) : Share(new, access[c])}
           begun == [new EXCEPT !.alone = (sharing = {})]
<1>1. /\ access' = [c \in Clients |->
              CASE c = client -> begun
                [] c \in sharing -> [access[c] EXCEPT !.alone = FALSE]
                [] OTHER -> access[c]]
      /\ raced' = (raced \/ Others(client) # {}) /\ Admits(at, width) /\ ~InProgress(client)
  BY DEF Begin
<1>2. /\ begun \in AccessSet /\ begun.done = 0 /\ begun.width = width /\ begun.at = at
  BY ContentsType DEF AccessSet
<1>3. client \notin sharing
  BY DEF Others
<1> HIDE DEF begun, sharing, new
<1>4. ASSUME NEW c \in Clients, c # client
      PROVE /\ access'[c] \in AccessSet /\ access'[c].done = access[c].done
            /\ access'[c].width = access[c].width /\ access'[c].at = access[c].at
            /\ access'[c].kind = access[c].kind
  <2>1. access[c] \in AccessSet
    BY DEF AccessInv
  <2>2. CASE c \in sharing
    <3>1. access'[c] = [access[c] EXCEPT !.alone = FALSE]
      BY <1>1, <1>4, <2>2
    <3> QED BY <2>1, <3>1 DEF AccessSet
  <2>3. CASE c \notin sharing
    <3>1. access'[c] = access[c]
      BY <1>1, <1>4, <2>3
    <3> QED BY <2>1, <3>1
  <2> QED BY <2>2, <2>3
<1>5. access'[client] = begun
  BY <1>1, <1>3
<1>6. access' \in [Clients -> AccessSet]
  <2>1. DOMAIN access' = Clients /\ access' = [c \in Clients |-> access'[c]]
    BY <1>1
  <2>2. \A c \in Clients : access'[c] \in AccessSet
    BY <1>2, <1>4, <1>5
  <2> QED BY <2>1, <2>2
<1>7. \A c \in Clients : c # client => (InProgress(c)' <=> InProgress(c))
  BY <1>4 DEF InProgress
<1>8. \A c \in Clients : access'[c].done <= access'[c].width
  <2>1. 0 <= width
    BY MemoryAssumption
  <2> QED BY <1>2, <1>4, <1>5, <2>1 DEF AccessInv
<1>9. \A c \in Clients : InProgress(c)' => Admits(access'[c].at, access'[c].width)
                                          /\ access'[c].width \in Widths
  BY <1>1, <1>2, <1>4, <1>5, <1>7 DEF AccessInv
<1>10. \A c, d \in Clients : c # d /\ InProgress(c)' /\ InProgress(d)' => raced'
  <2> SUFFICES ASSUME NEW c \in Clients, NEW d \in Clients, c # d, InProgress(c)', InProgress(d)'
               PROVE raced'
    OBVIOUS
  <2>1. CASE c = client \/ d = client
    BY <1>1, <1>7, <2>1 DEF Others
  <2>2. CASE c # client /\ d # client
    BY <1>1, <1>7, <2>2 DEF AccessInv
  <2> QED BY <2>1, <2>2
<1> QED BY <1>6, <1>8, <1>9, <1>10 DEF AccessInv, Admits

LEMMA QuietInv ==
    ASSUME access' = [c \in Clients |-> Idle] PROVE AccessInv'
<1>1. \A c \in Clients : access'[c] = Idle /\ ~InProgress(c)'
  BY IdleIsQuiet DEF InProgress
<1> QED BY <1>1, ZeroIsByte, IdleIsQuiet DEF AccessInv

\* The next byte of an access, and what has been read with it.
LEMMA NextByteType ==
    ASSUME MemoryInv, NEW client \in Clients, InProgress(client), NextByte(client) < MemorySize
    PROVE /\ NextByte(client) \in Address
          /\ access[client].done \in 0 .. access[client].width /\ access[client].width \in Widths
          /\ access[client].value \in Nat /\ ReadSoFar(client) \in Nat
<1>1. access[client] \in AccessSet /\ access[client].width \in Widths
  BY DEF MemoryInv, AccessInv
<1>2. /\ access[client].value \in Nat /\ access[client].at \in Nat
      /\ access[client].done \in 0 .. access[client].width
  BY <1>1, MemoryAssumption DEF MemoryInv, AccessInv, AccessSet, Address
<1>3. NextByte(client) \in Address
  BY <1>2, MemoryAssumption DEF NextByte, Address
<1>4. Contents[NextByte(client)] \in Byte
  BY <1>3, ContentsType DEF MemoryInv
<1> DEFINE place == ByteMod ^ access[client].done
           byte == Contents[NextByte(client)]
<1>5. place \in Nat /\ byte \in Nat
  <2>1. \A width \in Widths : \A k \in 0 .. width : ByteMod ^ k \in Nat
    BY MemoryAssumption
  <2>2. place \in Nat
    BY <1>1, <1>2, <2>1
  <2>3. byte \in Nat
    <3> HIDE DEF byte
    <3>1. byte \in Byte
      BY <1>4 DEF byte
    <3> QED BY <3>1, MemoryAssumption DEF Byte
  <2> QED BY <2>2, <2>3
<1>6. ReadSoFar(client) = access[client].value + byte * place
  BY DEF ReadSoFar, Shifted
<1> HIDE DEF place, byte
<1>7. ReadSoFar(client) \in Nat
  BY <1>2, <1>5, <1>6
<1> QED BY <1>1, <1>2, <1>3, <1>7

\* One byte written: the blocks stay sized, and what a program sees changes
\* in that byte.
LEMMA StoreByte ==
    ASSUME SizesInv, NEW address \in Address, NEW v \in Byte,
           GetBlockOffset(address) \in DOMAIN EnsureBlockExists(GetBlockIndex(address))[GetBlockIndex(address)],
           blocks' = [EnsureBlockExists(GetBlockIndex(address))
                        EXCEPT ![GetBlockIndex(address)][GetBlockOffset(address)] = v],
           UNCHANGED <<block_size, config_block_size, shrunk>>
    PROVE SizesInv' /\ Contents' = [Contents EXCEPT ![address] = v]
<1> DEFINE made == GetBlockIndex(address)
           ensured == EnsureBlockExists(made)
           offset == GetBlockOffset(address)
           block == [ensured[made] EXCEPT ![offset] = v]
           Sized(b) == \E size \in BlockSizes :
              b \in [0 .. size - 1 -> Byte] /\ (~shrunk => size >= block_size)
<1>1. made \in DOMAIN ensured /\ \A index \in DOMAIN ensured : Sized(ensured[index])
  BY EnsuredBlocks
<1>2. offset \in DOMAIN ensured[made] /\ blocks' = [ensured EXCEPT ![made] = block]
  OBVIOUS
<1>3. PICK size \in BlockSizes : ensured[made] \in [0 .. size - 1 -> Byte]
                                 /\ (~shrunk => size >= block_size)
  BY <1>1
<1>4. block \in [0 .. size - 1 -> Byte] /\ block[offset] = v /\ DOMAIN block = DOMAIN ensured[made]
      /\ \A other \in DOMAIN block : other # offset => block[other] = ensured[made][other]
  <2> HIDE DEF ensured, made, offset
  <2> QED BY <1>2, <1>3
<1>5. /\ DOMAIN blocks' = DOMAIN ensured /\ blocks'[made] = block
      /\ \A index \in DOMAIN ensured : index # made => blocks'[index] = ensured[index]
  <2> HIDE DEF ensured, made, offset, block
  <2> QED BY <1>1, <1>2
<1>6. SizesInv'
  <2>1. Sized(block)
    BY <1>3, <1>4
  <2>2. \A index \in DOMAIN blocks' : Sized(blocks'[index])
    <3> HIDE DEF ensured, made, offset, block, Sized
    <3> QED BY <1>1, <1>5, <2>1
  <2> HIDE DEF ensured, made, offset, block
  <2> QED BY <2>2 DEF SizesInv, BlockOK
<1>7. /\ made \in DOMAIN blocks => ensured = blocks
      /\ made \notin DOMAIN blocks => /\ DOMAIN ensured = DOMAIN blocks \union {made}
                                      /\ ensured[made] = NewBlock
                                      /\ \A index \in DOMAIN blocks : ensured[index] = blocks[index]
  BY DEF EnsureBlockExists, MakeBlock, IsBlockPresent
<1>8. \A other \in DOMAIN NewBlock : NewBlock[other] = 0
  BY DEF NewBlock
<1>9. \A b \in Address : GetBlockIndex(b)' = GetBlockIndex(b) /\ GetBlockOffset(b)' = GetBlockOffset(b)
  BY DEF GetBlockIndex, GetBlockOffset
<1> DEFINE Seen(bs, i, o) == IF i \in DOMAIN bs /\ o \in DOMAIN bs[i] THEN bs[i][o] ELSE 0
<1>10. \A b \in Address : /\ Contents[b] = Seen(blocks, GetBlockIndex(b), GetBlockOffset(b))
                          /\ Contents'[b] = Seen(blocks', GetBlockIndex(b), GetBlockOffset(b))
  BY <1>9 DEF Contents, IsBlockPresent
<1>11. Contents'[address] = v
  <2>1. Seen(blocks', made, offset) = v
    <3> HIDE DEF ensured, made, offset, block
    <3> QED BY <1>1, <1>2, <1>4, <1>5
  <2> QED BY <1>10, <2>1
<1>12. ASSUME NEW b \in Address, b # address PROVE Contents'[b] = Contents[b]
  <2> DEFINE i == GetBlockIndex(b)
             o == GetBlockOffset(b)
  <2>1. i # made \/ o # offset
    BY <1>12, PlaceIsUnique
  <2> HIDE DEF ensured, made, offset, block, i, o
  <2>2. CASE i # made
    <3>1. i \in DOMAIN blocks' <=> i \in DOMAIN blocks
      BY <1>5, <1>7, <2>2
    <3>2. i \in DOMAIN blocks => blocks'[i] = blocks[i]
      BY <1>5, <1>7, <2>2
    <3>3. Seen(blocks', i, o) = Seen(blocks, i, o)
      BY <3>1, <3>2
    <3> HIDE DEF Seen
    <3> QED BY <1>10, <1>12, <3>3 DEF i, o
  <2>3. CASE i = made /\ o # offset
    <3>1. i \in DOMAIN blocks' /\ blocks'[i] = block
      BY <1>1, <1>5, <2>3
    <3>2. /\ o \in DOMAIN block <=> o \in DOMAIN ensured[made]
          /\ o \in DOMAIN block => block[o] = ensured[made][o]
      BY <1>4, <2>3
    <3>3. Seen(blocks', i, o) = IF o \in DOMAIN ensured[made] THEN ensured[made][o] ELSE 0
      BY <3>1, <3>2
    <3>4. Seen(blocks, i, o) = IF o \in DOMAIN ensured[made] THEN ensured[made][o] ELSE 0
      <4>1. CASE made \in DOMAIN blocks
        BY <1>7, <2>3, <4>1
      <4>2. CASE made \notin DOMAIN blocks
        BY <1>7, <1>8, <2>3, <4>2
      <4> QED BY <4>1, <4>2
    <3>5. Seen(blocks', i, o) = Seen(blocks, i, o)
      BY <3>3, <3>4
    <3> HIDE DEF Seen
    <3> QED BY <1>10, <1>12, <3>5 DEF i, o
  <2> QED BY <2>1, <2>2, <2>3
<1>13. Contents' = [Contents EXCEPT ![address] = v]
  <2>1. Contents = [b \in Address |-> Contents[b]] /\ Contents' = [b \in Address |-> Contents'[b]]
    BY DEF Contents
  <2> QED BY <1>11, <1>12, <2>1
<1> QED BY <1>6, <1>13

-----------------------------------------------------------------------------
(***************************************************************************)
(* Every step keeps the invariant and is a step of the map of bytes.       *)
(***************************************************************************)
MapStep == [Bytes!Next]_Bytes!vars

LEMMA SameContents ==
    ASSUME UNCHANGED <<blocks, block_size>> PROVE Contents' = Contents
BY DEF Contents, IsBlockPresent, GetBlockIndex, GetBlockOffset

LEMMA SameSizes ==
    ASSUME SizesInv, UNCHANGED <<blocks, block_size, config_block_size, shrunk>> PROVE SizesInv'
BY DEF SizesInv, BlockOK

\* A step that touches no byte.
LEMMA QuietStep ==
    ASSUME UNCHANGED <<blocks, block_size, undefined>> PROVE MapStep
BY SameContents DEF MapStep, Bytes!vars

\* Blocks that go leave zeroes.
LEMMA ClearStep ==
    ASSUME ~undefined, blocks' = <<>>, UNCHANGED undefined PROVE MapStep
<1>1. \A index : index \notin DOMAIN blocks'
  OBVIOUS
<1>2. Contents' = [a \in Address |-> 0]
  BY <1>1 DEF Contents, IsBlockPresent
<1> QED BY <1>2 DEF MapStep, Bytes!Next, Bytes!Clear, Bytes!Cleared

LEMMA BeginStep ==
    ASSUME MemoryInv, NEW client \in Clients, ReadAccess(client) \/ WriteAccess(client)
    PROVE MemoryInv' /\ MapStep
<1>1. PICK kind \in {"read", "write"}, at \in Address, width \in Widths, value \in Nat :
         Begin(client, kind, at, width, value)
  <2>1. CASE ReadAccess(client)
    BY <2>1 DEF ReadAccess
  <2>2. CASE WriteAccess(client)
    <3>1. PICK at \in Address, width \in Widths, v \in Values :
             Begin(client, "write", at, width, Narrowed(v, width))
      BY <2>2 DEF WriteAccess
    <3> QED BY <3>1, NarrowedType
  <2> QED BY <2>1, <2>2
<1>2. /\ UNCHANGED <<blocks, block_size, config_block_size, undefined, shrunk>>
      /\ ~undefined
  BY <1>1 DEF Begin, Operation
<1>3. SizesInv' /\ AccessInv'
  BY <1>1, <1>2, SameSizes, BeginInv DEF MemoryInv
<1> QED BY <1>2, <1>3, QuietStep DEF MemoryInv, UndefinedHasACause

LEMMA ThrowStep ==
    ASSUME MemoryInv, NEW client \in Clients, Throw(client) PROVE MemoryInv' /\ MapStep
<1>1. /\ access' = [access EXCEPT ![client] = Idle] /\ ~undefined
      /\ UNCHANGED <<blocks, block_size, config_block_size, undefined, operations_left, shrunk, raced>>
  BY DEF Throw, Proceeds
<1>2. access \in [Clients -> AccessSet]
  BY DEF MemoryInv, AccessInv
<1>3. access'[client] = Idle /\ \A c \in Clients : c # client => access'[c] = access[c]
  BY <1>1, <1>2
<1>4. access' \in [Clients -> AccessSet]
  BY <1>1, <1>2, ZeroIsByte
<1>5. AccessInv'
  BY <1>1, <1>3, <1>4, IdleIsQuiet DEF MemoryInv, AccessInv, InProgress, Admits
<1> QED BY <1>1, <1>5, SameSizes, QuietStep DEF MemoryInv, UndefinedHasACause

LEMMA ReadStep ==
    ASSUME MemoryInv, NEW client \in Clients, Read(client) PROVE MemoryInv' /\ MapStep
<1> DEFINE address == NextByte(client)
           index == GetBlockIndex(address)
           outside == IsBlockPresent(index) /\ GetBlockOffset(address) \notin DOMAIN blocks[index]
<1>1. /\ InProgress(client) /\ ~undefined /\ address < MemorySize
      /\ undefined' = outside /\ access' = After(client, ReadSoFar(client))
      /\ UNCHANGED <<blocks, block_size, config_block_size, operations_left, shrunk, raced>>
  BY DEF Read, Proceeds
<1>2. address \in Address /\ ReadSoFar(client) \in Nat
  BY <1>1, NextByteType
<1>3. SizesInv' /\ AccessInv'
  BY <1>1, <1>2, SameSizes, AfterInv DEF MemoryInv
<1>4. outside => shrunk
  <2> SUFFICES ASSUME outside, ~shrunk PROVE FALSE
    OBVIOUS
  <2>1. EnsureBlockExists(index) = blocks
    BY DEF EnsureBlockExists
  <2>2. GetBlockOffset(address) \in DOMAIN EnsureBlockExists(index)[index]
    BY <1>2, EnsuredBlocks DEF MemoryInv
  <2> QED BY <2>1, <2>2
<1>5. outside \in BOOLEAN /\ undefined \in BOOLEAN
  BY DEF MemoryInv
<1> HIDE DEF outside
<1>6. UndefinedHasACause' /\ undefined' \in BOOLEAN
  BY <1>1, <1>4, <1>5 DEF UndefinedHasACause
<1>7. MapStep
  <2>1. CASE outside
    <3>1. undefined'
      BY <1>1, <2>1
    <3> QED BY <3>1 DEF MapStep, Bytes!Next, Bytes!Lose
  <2>2. CASE ~outside
    <3>1. undefined' = undefined
      BY <1>1, <1>5, <2>2
    <3> QED BY <1>1, <3>1, QuietStep
  <2> QED BY <2>1, <2>2
<1> QED BY <1>3, <1>6, <1>7 DEF MemoryInv

LEMMA WriteStep ==
    ASSUME MemoryInv, NEW client \in Clients, Write(client) PROVE MemoryInv' /\ MapStep
<1> DEFINE address == NextByte(client)
           index == GetBlockIndex(address)
           offset == GetBlockOffset(address)
           ensured == EnsureBlockExists(index)
           byte == ByteOf(access[client].value, access[client].done)
<1>1. /\ InProgress(client) /\ ~undefined /\ address < MemorySize
      /\ access' = After(client, access[client].value)
      /\ UNCHANGED <<block_size, config_block_size, operations_left, shrunk, raced>>
  BY DEF Write, Proceeds
<1>2. address \in Address /\ access[client].value \in Nat /\ byte \in Byte
  BY <1>1, NextByteType, ByteOfType
<1>3. AccessInv'
  BY <1>1, <1>2, AfterInv DEF MemoryInv
<1>4. CASE offset \in DOMAIN ensured[index]
  <2>1. /\ blocks' = [ensured EXCEPT ![index][offset] = byte]
        /\ undefined' = undefined \/ (Others(client) # {} /\ undefined' = TRUE)
    BY <1>4 DEF Write
  <2>2. SizesInv' /\ Contents' = [Contents EXCEPT ![address] = byte]
    BY <1>1, <1>2, <1>4, <2>1, StoreByte DEF MemoryInv
  <2>3. CASE undefined' = undefined
    <3>1. MapStep
      BY <1>1, <1>2, <2>2, <2>3 DEF MapStep, Bytes!Next, Bytes!Store
    <3> QED BY <1>1, <1>3, <2>2, <2>3, <3>1 DEF MemoryInv, UndefinedHasACause
  <2>4. CASE Others(client) # {} /\ undefined' = TRUE
    <3>1. raced
      BY <1>1, <2>4 DEF MemoryInv, AccessInv, Others
    <3>2. MapStep
      BY <2>4 DEF MapStep, Bytes!Next, Bytes!Lose
    <3>3. raced' /\ undefined' \in BOOLEAN
      BY <1>1, <2>4, <3>1
    <3>4. UndefinedHasACause'
      BY <3>3 DEF UndefinedHasACause
    <3> QED BY <1>3, <2>2, <3>2, <3>3, <3>4 DEF MemoryInv
  <2> QED BY <2>1, <2>3, <2>4
<1>5. CASE offset \notin DOMAIN ensured[index]
  <2>1. blocks' = ensured /\ undefined' = TRUE
    BY <1>5 DEF Write
  <2>2. /\ \A i \in DOMAIN ensured : \E size \in BlockSizes :
             ensured[i] \in [0 .. size - 1 -> Byte] /\ (~shrunk => size >= block_size)
        /\ shrunk
    BY <1>2, <1>5, EnsuredBlocks DEF MemoryInv
  <2> HIDE DEF ensured
  <2>3. SizesInv'
    BY <1>1, <2>1, <2>2 DEF MemoryInv, SizesInv, BlockOK
  <2>4. MapStep
    BY <2>1 DEF MapStep, Bytes!Next, Bytes!Lose
  <2>5. shrunk' /\ undefined' \in BOOLEAN
    BY <1>1, <2>1, <2>2
  <2>6. UndefinedHasACause'
    BY <2>5 DEF UndefinedHasACause
  <2> QED BY <1>3, <2>3, <2>4, <2>5, <2>6 DEF MemoryInv
<1> QED BY <1>4, <1>5

LEMMA CommandStep ==
    ASSUME MemoryInv, Reset \/ MakeMachine \/ ModifyConfig PROVE MemoryInv' /\ MapStep
<1>1. ~undefined /\ UNCHANGED undefined
  BY DEF Reset, MakeMachine, ModifyConfig, Operation
<1>2. UndefinedHasACause'
  BY <1>1 DEF UndefinedHasACause
<1>3. block_size \in Nat /\ config_block_size \in Nat /\ \A size \in BlockSizes : size \in Nat
  BY MemoryAssumption DEF MemoryInv, SizesInv
<1>4. CASE Reset
  <2>1. SizesInv'
    BY <1>4 DEF Reset, MemoryInv, SizesInv
  <2> QED BY <1>1, <1>2, <1>4, <2>1, QuietInv, ClearStep DEF Reset, MemoryInv
<1>5. CASE MakeMachine
  <2>1. SizesInv'
    BY <1>3, <1>5 DEF MakeMachine, MemoryInv, SizesInv
  <2> QED BY <1>1, <1>2, <1>5, <2>1, QuietInv, ClearStep DEF MakeMachine, MemoryInv
<1>6. CASE ModifyConfig
  <2>1. PICK size \in BlockSizes : config_block_size' = size /\ shrunk' = (shrunk \/ size < block_size)
    BY <1>6 DEF ModifyConfig
  <2>2. UNCHANGED <<blocks, block_size, access, undefined, raced>>
    BY <1>6 DEF ModifyConfig
  <2>3. SizesInv'
    <3>1. ~shrunk' => ~shrunk /\ ~(size < block_size)
      BY <2>1
    <3>2. ~shrunk' => ~shrunk /\ size >= block_size
      BY <1>3, <3>1
    <3> QED BY <2>1, <2>2, <3>2 DEF MemoryInv, SizesInv, BlockOK
  <2>4. AccessInv'
    BY <2>2 DEF MemoryInv, AccessInv, InProgress, Admits
  <2> QED BY <1>2, <2>2, <2>3, <2>4, QuietStep DEF MemoryInv
<1> QED BY <1>4, <1>5, <1>6

LEMMA NextInv == MemoryInv /\ [Next]_vars => MemoryInv' /\ MapStep
<1> SUFFICES ASSUME MemoryInv, [Next]_vars PROVE MemoryInv' /\ MapStep
  OBVIOUS
<1>1. CASE UNCHANGED vars
  BY <1>1, SameSizes, QuietStep DEF vars, MemoryInv, AccessInv, InProgress, Admits, UndefinedHasACause
<1>2. CASE Next
  BY <1>2, BeginStep, ThrowStep, ReadStep, WriteStep, CommandStep DEF Next
<1> QED BY <1>1, <1>2

LEMMA Invariant == Spec => []MemoryInv
<1>1. MemoryInv /\ [Next]_vars => MemoryInv'
  BY NextInv
<1> QED BY <1>1, InitInv, PTL DEF Spec

-----------------------------------------------------------------------------
\* Blocks hold bytes, whatever size each was made with, and accesses lie in
\* the memory.
THEOREM TypeCorrect == Spec => []TypeOK
<1>1. MemoryInv => TypeOK
  <2> SUFFICES ASSUME MemoryInv PROVE TypeOK
    OBVIOUS
  <2>1. \A index \in DOMAIN blocks : \E size \in BlockSizes : blocks[index] \in [0 .. size - 1 -> Byte]
    BY DEF MemoryInv, SizesInv, BlockOK
  <2>2. ASSUME NEW c \in Clients
        PROVE access[c].at \in Address /\ access[c].value \in Nat
              /\ access[c].done \in 0 .. access[c].width
    <3>1. access[c] \in AccessSet /\ access[c].done <= access[c].width
      BY DEF MemoryInv, AccessInv
    <3> QED BY <3>1, MemoryAssumption DEF AccessSet
  <2> QED BY <2>1, <2>2 DEF TypeOK, MemoryInv, SizesInv
<1> QED BY <1>1, Invariant, PTL

\* An access that CheckAccess admitted reaches its last byte, unless it is
\* wider than the memory.
THEOREM AdmissionCorrect == Spec => []AdmittedAccessesComplete
<1>1. MemoryInv => AdmittedAccessesComplete
  <2> SUFFICES ASSUME MemoryInv, NEW c \in Clients, InProgress(c), access[c].width <= MemorySize + 1
               PROVE NextByte(c) < MemorySize
    BY DEF AdmittedAccessesComplete
  <2>1. access[c] \in AccessSet
    BY DEF MemoryInv, AccessInv
  <2>2. Admits(access[c].at, access[c].width) /\ access[c].done < access[c].width
        /\ access[c].width \in Widths
    BY DEF MemoryInv, AccessInv, InProgress
  <2>3. /\ access[c].at \in Nat /\ access[c].width \in Nat /\ access[c].done \in Nat
        /\ MemorySize \in Nat
    BY <2>1, <2>2, MemoryAssumption DEF AccessSet, Address
  <2> QED BY <2>2, <2>3 DEF Admits, NextByte
<1> QED BY <1>1, Invariant, PTL

\* Behaviour becomes undefined only behind a lowered memory_block_size or an
\* access of both threads at once.
THEOREM CauseCorrect == Spec => []UndefinedHasACause
<1>1. MemoryInv => UndefinedHasACause
  BY DEF MemoryInv
<1> QED BY <1>1, Invariant, PTL

\* The blocks implement a map of bytes, for any memory and any block sizes.
THEOREM ByteMapCorrect == Spec => ImplementsByteMap
<1>1. Init => Bytes!Init
  <2> SUFFICES ASSUME Init PROVE Bytes!Init
    OBVIOUS
  <2>1. \A index : index \notin DOMAIN blocks
    BY DEF Init
  <2>2. Contents = [a \in Address |-> 0]
    BY <2>1 DEF Contents, IsBlockPresent
  <2> QED BY <2>2 DEF Init, Bytes!Init, Bytes!Cleared
<1>2. MemoryInv /\ [Next]_vars => [Bytes!Next]_Bytes!vars
  BY NextInv DEF MapStep
<1> QED BY <1>1, <1>2, Invariant, PTL DEF Spec, ImplementsByteMap, Bytes!Spec

-----------------------------------------------------------------------------
(***************************************************************************)
(* The bytes of a number.                                                  *)
(***************************************************************************)
\* Quotient and remainder are the only ones.
LEMMA QuotientOf ==
    ASSUME NEW d \in Nat \ {0}, NEW k \in Int, NEW r \in 0 .. d - 1, NEW n \in Int, n = d * k + r
    PROVE n \div d = k /\ n % d = r
<1> DEFINE q == n \div d
           s == n % d
<1>1. q \in Int /\ s \in 0 .. d - 1 /\ n = d * q + s
  OBVIOUS
<1> SUFFICES q = k /\ s = r
  OBVIOUS
<1> HIDE DEF q, s
<1>2. d * q \in Int /\ d * k \in Int /\ d * q - d * k = r - s /\ d * k - d * q = s - r
  BY <1>1
<1>3. \A m \in Int, l \in Int : m - l >= 1 => d * m - d * l >= d
  <2> SUFFICES ASSUME NEW m \in Int, NEW l \in Int, m - l >= 1 PROVE d * m - d * l >= d
    OBVIOUS
  <2>1. d * (m - l) = d * m - d * l
    OBVIOUS
  <2>2. d * (m - l) >= d
    OBVIOUS
  <2> QED BY <2>1, <2>2
<1>4. ~(q - k >= 1) /\ ~(k - q >= 1)
  BY <1>1, <1>2, <1>3
<1>5. q = k
  BY <1>1, <1>4
<1> QED BY <1>1, <1>2, <1>5

\* A digit in front of a number is what is left behind its digits.
LEMMA BelowQuotient ==
    ASSUME NEW p \in Nat \ {0}, NEW v \in Nat, NEW b \in Nat, v < p
    PROVE (v + b * p) \div p = b
<1>1. v + b * p \in Int /\ v + b * p = p * b + v
  OBVIOUS
<1> QED BY <1>1, QuotientOf

\* A digit in front of a number changes none of its own.
LEMMA AboveQuotient ==
    ASSUME NEW p \in Nat \ {0}, NEW B \in Nat \ {0}, NEW q \in Nat, NEW v \in Nat, NEW b \in Nat
    PROVE ((v + b * (p * (B * q))) \div p) % B = (v \div p) % B
<1> DEFINE t == v \div p
           r == v % p
           w == b * q
           n == v + b * (p * (B * q))
<1>1. t \in Nat /\ r \in 0 .. p - 1 /\ v = p * t + r
  OBVIOUS
<1>2. w \in Nat
  OBVIOUS
<1>3. b * (p * (B * q)) = p * (B * w)
  OBVIOUS
<1>4. n \div p = t + B * w
  <2>1. n = v + p * (B * w)
    BY <1>3
  <2> HIDE DEF t, r, n, w
  <2>2. B * w \in Nat /\ t + B * w \in Int
    BY <1>1, <1>2
  <2>3. p * (t + B * w) = p * t + p * (B * w)
    BY <1>1, <2>2
  <2>4. n \in Int /\ n = p * (t + B * w) + r
    BY <1>1, <2>1, <2>2, <2>3
  <2> QED BY <1>1, <2>2, <2>4, QuotientOf
<1> HIDE DEF t, w, n
<1>5. (t + B * w) % B = t % B
  <2> DEFINE c == t \div B
             s == t % B
             m == t + B * w
  <2>1. c \in Nat /\ s \in 0 .. B - 1 /\ t = B * c + s
    BY <1>1
  <2>2. s = t % B
    OBVIOUS
  <2> HIDE DEF c, s
  <2>3. B * (c + w) = B * c + B * w
    BY <1>2, <2>1
  <2>4. m \in Int /\ c + w \in Int /\ m = B * (c + w) + s
    BY <1>1, <1>2, <2>1, <2>3
  <2> HIDE DEF m
  <2>5. m % B = s
    <3> DEFINE k == c + w
    <3>1. k \in Int /\ s \in 0 .. B - 1 /\ m \in Int /\ m = B * k + s
      BY <2>1, <2>4
    <3> HIDE DEF k
    <3> QED BY <3>1, QuotientOf
  <2> QED BY <2>2, <2>5 DEF m
<1> QED BY <1>4, <1>5 DEF n, t

\* A byte read is put in front of those that were, which stay.
LEMMA ByteAppended ==
    ASSUME NEW width \in Widths, NEW done \in 0 .. width - 1, NEW value \in Nat,
           value < ByteMod ^ done, NEW byte \in Byte
    PROVE LET more == value + Shifted(byte, done)
          IN /\ more < ByteMod ^ (done + 1)
             /\ \A k \in 0 .. done - 1 : ByteOf(more, k) = ByteOf(value, k)
             /\ ByteOf(more, done) = byte
<1> DEFINE more == value + Shifted(byte, done)
           Place(k) == ByteMod ^ k
<1>1. /\ width \in Nat /\ done \in 0 .. width /\ done + 1 \in 0 .. width
      /\ ByteMod \in Nat \ {0} /\ byte \in Nat /\ byte <= ByteMod - 1
  BY MemoryAssumption DEF Byte
<1>2. /\ \A k \in 0 .. width : Place(k) \in Nat \ {0}
      /\ \A k \in 0 .. width : \A j \in 0 .. k : Place(k) = Place(j) * Place(k - j)
      /\ Place(1) = ByteMod
  BY MemoryAssumption, PowerAssumption
<1>3. /\ more = value + byte * Place(done) /\ value < Place(done)
      /\ \A v, k : ByteOf(v, k) = (v \div Place(k)) % ByteMod
  BY DEF Shifted, ByteOf
<1> SUFFICES /\ more < Place(done + 1)
             /\ \A k \in 0 .. done - 1 : ByteOf(more, k) = ByteOf(value, k)
             /\ ByteOf(more, done) = byte
  OBVIOUS
<1> HIDE DEF Place, more
<1>4. Place(done + 1) = Place(done) * ByteMod
  <2>1. done \in 0 .. done + 1 /\ (done + 1) - done = 1
    BY <1>1
  <2> QED BY <1>1, <1>2, <2>1
<1>5. more < Place(done + 1)
  <2>1. PICK p \in Nat \ {0} : p = Place(done)
    BY <1>1, <1>2
  <2>2. byte * p <= (ByteMod - 1) * p /\ (ByteMod - 1) * p = p * ByteMod - p
    BY <1>1, <2>1
  <2>3. p * ByteMod \in Int /\ byte * p \in Int
    BY <1>1, <2>1
  <2> QED BY <1>3, <1>4, <2>1, <2>2, <2>3
<1>6. ASSUME NEW k \in 0 .. done - 1 PROVE ByteOf(more, k) = ByteOf(value, k)
  <2>1. /\ k \in 0 .. width /\ k \in 0 .. done /\ done - k \in 0 .. width
        /\ 1 \in 0 .. done - k /\ (done - k) - 1 \in 0 .. width
    BY <1>1
  <2>2. PICK p \in Nat \ {0} : p = Place(k)
    BY <1>2, <2>1
  <2>3. PICK q \in Nat : q = Place((done - k) - 1)
    BY <1>2, <2>1
  <2>4. Place(done) = p * (ByteMod * q)
    BY <1>1, <1>2, <2>1, <2>2, <2>3
  <2>5. (more \div p) % ByteMod = (value \div p) % ByteMod
    BY <1>1, <1>3, <2>2, <2>3, <2>4, AboveQuotient
  <2> QED BY <1>3, <2>2, <2>5
<1>7. ByteOf(more, done) = byte
  <2>1. PICK p \in Nat \ {0} : p = Place(done)
    BY <1>1, <1>2
  <2>2. more \div p = byte
    BY <1>1, <1>3, <2>1, BelowQuotient
  <2>3. byte % ByteMod = byte
    BY <1>1
  <2> QED BY <1>3, <2>1, <2>2, <2>3
<1> QED BY <1>5, <1>6, <1>7

-----------------------------------------------------------------------------
(***************************************************************************)
(* An access that nobody disturbs: what it has read so far are the bytes   *)
(* that were there when it began and still are, what it has written stands *)
(* in memory.  Two accesses that share bytes, one of them a write, know of *)
(* each other.                                                             *)
(***************************************************************************)
ReadsExactly(a, memory) ==
    /\ \A k \in 0 .. a.width - 1 : a.at + k \in Address => memory[a.at + k] = a.start[a.at + k]
    /\ a.value < ByteMod ^ a.done
    /\ \A k \in 0 .. a.done - 1 : a.at + k \in Address => ByteOf(a.value, k) = a.start[a.at + k]

WritesExactly(a, memory) ==
    \A k \in 0 .. a.done - 1 : a.at + k \in Address => memory[a.at + k] = ByteOf(a.value, k)

Exact(a, memory) ==
    IF a.kind = "read" THEN ReadsExactly(a, memory) ELSE WritesExactly(a, memory)

ExactInv ==
    ~undefined =>
        /\ \A c, d \in Clients : c # d /\ InProgress(c) /\ InProgress(d) /\ access[c].alone
                                    => ~Share(access[c], access[d])
        /\ \A c \in Clients : InProgress(c) /\ access[c].alone => Exact(access[c], Contents)

\* The numbers of an access.
LEMMA AccessNumbers ==
    ASSUME NEW a \in AccessSet
    PROVE a.at \in Nat /\ a.width \in Nat \ {0} /\ a.done \in Nat /\ a.value \in Nat
<1>1. a.at \in Address /\ a.width \in Widths \union {1} /\ a.done \in Nat /\ a.value \in Nat
  BY DEF AccessSet
<1>2. a.at \in Nat
  BY <1>1, MemoryAssumption DEF Address
<1>3. a.width \in Nat \ {0}
  <2>1. CASE a.width \in Widths
    BY <2>1, MemoryAssumption
  <2>2. CASE a.width = 1
    BY <2>2
  <2> QED BY <1>1, <2>1, <2>2
<1> QED BY <1>1, <1>2, <1>3

\* Bytes that an access does not touch do not matter to it.
LEMMA ExactStays ==
    ASSUME NEW a \in AccessSet, a.done <= a.width, NEW memory, NEW other, Exact(a, memory),
           \A x \in Touched(a) \cap Address : other[x] = memory[x]
    PROVE Exact(a, other)
<1>1. a.at \in Nat /\ a.width \in Nat /\ a.done \in Nat
  BY AccessNumbers
<1>2. \A k \in 0 .. a.width - 1 : a.at + k \in Address => other[a.at + k] = memory[a.at + k]
  BY <1>1 DEF Touched
<1>3. \A k \in 0 .. a.done - 1 : k \in 0 .. a.width - 1
  BY <1>1
<1> QED BY <1>2, <1>3 DEF Exact, ReadsExactly, WritesExactly

LEMMA ByteRead ==
    ASSUME NEW a \in AccessSet, a.kind = "read", a.width \in Widths, a.done < a.width,
           NEW memory \in [Address -> Byte], Exact(a, memory), a.at + a.done \in Address
    PROVE LET more == a.value + Shifted(memory[a.at + a.done], a.done)
          IN /\ more < ByteMod ^ (a.done + 1)
             /\ \A k \in 0 .. a.done : a.at + k \in Address => ByteOf(more, k) = a.start[a.at + k]
<1> DEFINE byte == memory[a.at + a.done]
           more == a.value + Shifted(byte, a.done)
<1>1. /\ a.width \in Nat /\ a.done \in 0 .. a.width - 1 /\ a.value \in Nat /\ byte \in Byte
      /\ ReadsExactly(a, memory)
  BY AccessNumbers DEF Exact
<1>2. /\ a.value < ByteMod ^ a.done /\ byte = a.start[a.at + a.done]
      /\ \A k \in 0 .. a.done - 1 : a.at + k \in Address => ByteOf(a.value, k) = a.start[a.at + k]
  BY <1>1 DEF ReadsExactly
<1> HIDE DEF byte
<1>3. /\ more < ByteMod ^ (a.done + 1) /\ ByteOf(more, a.done) = byte
      /\ \A k \in 0 .. a.done - 1 : ByteOf(more, k) = ByteOf(a.value, k)
  BY <1>1, <1>2, ByteAppended
<1>4. \A k \in 0 .. a.done : k \in 0 .. a.done - 1 \/ k = a.done
  BY <1>1
<1> HIDE DEF more
<1>5. \A k \in 0 .. a.done : a.at + k \in Address => ByteOf(more, k) = a.start[a.at + k]
  BY <1>2, <1>3, <1>4
<1> QED BY <1>3, <1>5 DEF more, byte

LEMMA ByteWritten ==
    ASSUME NEW a \in AccessSet, a.kind = "write", a.done < a.width,
           NEW memory \in [Address -> Byte], Exact(a, memory), a.at + a.done \in Address,
           NEW other, other = [memory EXCEPT ![a.at + a.done] = ByteOf(a.value, a.done)]
    PROVE \A k \in 0 .. a.done : a.at + k \in Address => other[a.at + k] = ByteOf(a.value, k)
<1>1. a.at \in Nat /\ a.done \in Nat /\ WritesExactly(a, memory)
  BY AccessNumbers DEF Exact
<1>2. ASSUME NEW k \in 0 .. a.done, a.at + k \in Address
      PROVE other[a.at + k] = ByteOf(a.value, k)
  <2>1. CASE k = a.done
    BY <1>2, <2>1
  <2>2. CASE k # a.done
    <3>1. k \in 0 .. a.done - 1 /\ a.at + k # a.at + a.done
      BY <1>1, <2>2
    <3>2. other[a.at + k] = memory[a.at + k]
      BY <1>2, <3>1
    <3> QED BY <1>1, <1>2, <3>1, <3>2 DEF WritesExactly
  <2> QED BY <2>1, <2>2
<1> QED BY <1>2

-----------------------------------------------------------------------------
(***************************************************************************)
(* Every step keeps it.                                                    *)
(***************************************************************************)
\* An access in progress is a read or a write.
LEMMA InProgressIs ==
    ASSUME MemoryInv, NEW c \in Clients, InProgress(c)
    PROVE /\ access[c] \in AccessSet /\ access[c].kind \in {"read", "write"}
          /\ access[c].width \in Widths /\ access[c].done < access[c].width
          /\ access[c].done <= access[c].width
BY DEF MemoryInv, AccessInv, InProgress, AccessSet

\* What the client's own access becomes, while the others keep theirs.
LEMMA GoesOn ==
    ASSUME MemoryInv, NEW client \in Clients, InProgress(client), NEW value \in Nat,
           access' = After(client, value)
    PROVE /\ \A c \in Clients \ {client} : access'[c] = access[c]
          /\ InProgress(client)' =>
                access'[client] = [access[client] EXCEPT !.done = @ + 1, !.value = value]
<1>1. access \in [Clients -> AccessSet]
  BY DEF MemoryInv, AccessInv
<1>2. CASE access' = [access EXCEPT ![client] = Idle]
  BY <1>1, <1>2, IdleIsQuiet DEF InProgress
<1>3. CASE access' = [access EXCEPT ![client].done = @ + 1, ![client].value = value]
  <2> DEFINE more == [access[client] EXCEPT !.done = @ + 1, !.value = value]
  <2>1. access' = [access EXCEPT ![client] = more]
    BY <1>1, <1>3
  <2> HIDE DEF more
  <2>2. access'[client] = more /\ \A c \in Clients \ {client} : access'[c] = access[c]
    BY <1>1, <2>1
  <2> QED BY <2>2 DEF more
<1> QED BY <1>2, <1>3 DEF After

\* It touches the same bytes as before.
LEMMA ApartStays ==
    ASSUME MemoryInv, ExactInv, ~undefined, NEW client \in Clients, InProgress(client),
           NEW value \in Nat, access' = After(client, value)
    PROVE \A c, d \in Clients : c # d /\ InProgress(c)' /\ InProgress(d)' /\ access'[c].alone
                                   => ~Share(access'[c], access'[d])
<1>1. access[client] \in AccessSet /\ \A c \in Clients \ {client} : access'[c] = access[c]
  BY GoesOn, InProgressIs
<1>2. ASSUME NEW c \in Clients, InProgress(c)'
      PROVE /\ InProgress(c) /\ access'[c].at = access[c].at /\ access'[c].width = access[c].width
            /\ access'[c].kind = access[c].kind /\ access'[c].alone = access[c].alone
  <2>1. CASE c = client
    <3>1. access'[client] = [access[client] EXCEPT !.done = @ + 1, !.value = value]
      BY <1>2, <2>1, GoesOn
    <3> QED BY <1>1, <2>1, <3>1 DEF AccessSet
  <2>2. CASE c # client
    BY <1>1, <1>2, <2>2 DEF InProgress
  <2> QED BY <2>1, <2>2
<1> QED BY <1>2 DEF ExactInv, Share, Touched

LEMMA ReadExact ==
    ASSUME MemoryInv, ExactInv, NEW client \in Clients, Read(client), ~undefined'
    PROVE /\ ExactInv'
          /\ access[client].alone =>
                \A k \in 0 .. access[client].done : access[client].at + k \in Address
                    => ByteOf(ReadSoFar(client), k) = access[client].start[access[client].at + k]
<1> DEFINE a == access[client]
           value == ReadSoFar(client)
           more == [a EXCEPT !.done = @ + 1, !.value = value]
<1>1. /\ InProgress(client) /\ ~undefined /\ NextByte(client) < MemorySize /\ a.kind = "read"
      /\ access' = After(client, value) /\ UNCHANGED <<blocks, block_size>>
  BY DEF Read, Proceeds
<1>2. /\ a \in AccessSet /\ a.width \in Widths /\ a.done < a.width
      /\ NextByte(client) \in Address /\ value \in Nat
  BY <1>1, InProgressIs, NextByteType
<1>3. Contents' = Contents /\ Contents \in [Address -> Byte]
  BY <1>1, SameContents, ContentsType DEF MemoryInv
<1>4. value = a.value + Shifted(Contents[a.at + a.done], a.done) /\ a.at + a.done \in Address
  BY <1>2 DEF ReadSoFar, NextByte
<1>5. ASSUME a.alone
      PROVE /\ Exact(a, Contents) /\ value < ByteMod ^ (a.done + 1)
            /\ \A k \in 0 .. a.done : a.at + k \in Address => ByteOf(value, k) = a.start[a.at + k]
  <2>1. Exact(a, Contents)
    BY <1>1, <1>5 DEF ExactInv
  <2> HIDE DEF a, value
  <2> QED BY <1>1, <1>2, <1>3, <1>4, <2>1, ByteRead
<1>6. ASSUME NEW c \in Clients, InProgress(c)', access'[c].alone PROVE Exact(access'[c], Contents')
  <2>1. CASE c = client
    <3>1. access'[client] = more
      BY <1>1, <1>2, <1>6, <2>1, GoesOn
    <3> HIDE DEF a, value
    <3>2. /\ more.at = a.at /\ more.width = a.width /\ more.start = a.start
          /\ more.alone = a.alone /\ more.kind = "read"
          /\ more.done = a.done + 1 /\ more.value = value
      BY <1>1, <1>2 DEF AccessSet
    <3> HIDE DEF more
    <3>3. a.alone
      BY <1>6, <2>1, <3>1, <3>2
    <3>4. ReadsExactly(a, Contents)
      BY <1>1, <1>5, <3>3 DEF Exact
    <3>5. (a.done + 1) - 1 = a.done
      BY <1>2 DEF AccessSet
    <3>6. ReadsExactly(more, Contents)
      BY <1>5, <3>2, <3>3, <3>4, <3>5 DEF ReadsExactly
    <3> QED BY <1>3, <2>1, <3>1, <3>2, <3>6 DEF Exact
  <2>2. CASE c # client
    <3>1. access'[c] = access[c]
      BY <1>1, <1>2, <2>2, GoesOn
    <3>2. InProgress(c) /\ access[c].alone
      BY <1>6, <3>1 DEF InProgress
    <3> QED BY <1>1, <1>3, <3>1, <3>2 DEF ExactInv
  <2> QED BY <2>1, <2>2
<1>7. ExactInv'
  <2>1. \A c, d \in Clients : c # d /\ InProgress(c)' /\ InProgress(d)' /\ access'[c].alone
                                 => ~Share(access'[c], access'[d])
    BY <1>1, <1>2, ApartStays
  <2> QED BY <1>6, <2>1 DEF ExactInv, Share, Touched
<1> QED BY <1>5, <1>7

LEMMA WriteExact ==
    ASSUME MemoryInv, ExactInv, NEW client \in Clients, Write(client), ~undefined'
    PROVE /\ ExactInv'
          /\ access[client].alone =>
                \A k \in 0 .. access[client].done : access[client].at + k \in Address
                    => Contents'[access[client].at + k] = ByteOf(access[client].value, k)
<1> DEFINE a == access[client]
           byte == ByteOf(a.value, a.done)
           more == [a EXCEPT !.done = @ + 1, !.value = a.value]
           address == NextByte(client)
           ensured == EnsureBlockExists(GetBlockIndex(address))
<1>1. /\ InProgress(client) /\ ~undefined /\ address < MemorySize /\ a.kind = "write"
      /\ access' = After(client, a.value)
      /\ UNCHANGED <<block_size, config_block_size, shrunk>>
      /\ GetBlockOffset(address) \in DOMAIN ensured[GetBlockIndex(address)]
      /\ blocks' = [ensured EXCEPT ![GetBlockIndex(address)][GetBlockOffset(address)] = byte]
  BY DEF Write, Proceeds
<1>2. /\ a \in AccessSet /\ a.width \in Widths /\ a.done < a.width
      /\ address \in Address /\ a.value \in Nat /\ byte \in Byte /\ address = a.at + a.done
  <2>1. /\ a \in AccessSet /\ a.width \in Widths /\ a.done < a.width
        /\ address \in Address /\ a.value \in Nat /\ a.done \in 0 .. a.width
    BY <1>1, InProgressIs, NextByteType
  <2> HIDE DEF a
  <2>2. byte \in Byte
    BY <2>1, ByteOfType
  <2> QED BY <2>1, <2>2 DEF NextByte, a
<1>3. Contents' = [Contents EXCEPT ![address] = byte] /\ Contents \in [Address -> Byte]
  <2>1. SizesInv
    BY DEF MemoryInv
  <2> HIDE DEF address, byte, a
  <2> QED BY <1>1, <1>2, <2>1, StoreByte, ContentsType
<1> HIDE DEF address, ensured
<1>4. ASSUME a.alone
      PROVE /\ Exact(a, Contents)
            /\ \A k \in 0 .. a.done : a.at + k \in Address => Contents'[a.at + k] = ByteOf(a.value, k)
  <2>1. Exact(a, Contents)
    BY <1>1, <1>4 DEF ExactInv
  <2>2. PICK other : other = Contents'
    OBVIOUS
  <2>3. other = [Contents EXCEPT ![a.at + a.done] = ByteOf(a.value, a.done)]
    BY <1>2, <1>3, <2>2
  <2> HIDE DEF a
  <2>4. \A k \in 0 .. a.done : a.at + k \in Address => other[a.at + k] = ByteOf(a.value, k)
    BY <1>1, <1>2, <1>3, <2>1, <2>3, ByteWritten
  <2> QED BY <2>1, <2>2, <2>4
<1>5. ASSUME NEW c \in Clients, InProgress(c)', access'[c].alone PROVE Exact(access'[c], Contents')
  <2>1. CASE c = client
    <3>1. access'[client] = more
      BY <1>1, <1>2, <1>5, <2>1, GoesOn
    <3> HIDE DEF a
    <3>2. /\ more.at = a.at /\ more.alone = a.alone /\ more.kind = "write"
          /\ more.done = a.done + 1 /\ more.value = a.value
      BY <1>1, <1>2 DEF AccessSet
    <3> HIDE DEF more
    <3>3. a.alone /\ (a.done + 1) - 1 = a.done
      BY <1>2, <1>5, <2>1, <3>1, <3>2 DEF AccessSet
    <3>4. WritesExactly(more, Contents')
      BY <1>4, <3>2, <3>3 DEF WritesExactly
    <3> QED BY <2>1, <3>1, <3>2, <3>4 DEF Exact
  <2>2. CASE c # client
    <3>1. access'[c] = access[c]
      BY <1>1, <1>2, <2>2, GoesOn
    <3>2. InProgress(c) /\ access[c].alone
      BY <1>5, <3>1 DEF InProgress
    <3>3. /\ Exact(access[c], Contents) /\ ~Share(access[c], a)
          /\ access[c] \in AccessSet /\ access[c].done <= access[c].width
      BY <1>1, <2>2, <3>2, InProgressIs DEF ExactInv
    <3>4. address \in Touched(a)
      <4>1. a.at \in Nat /\ a.width \in Nat /\ a.done \in Nat
        BY <1>2, AccessNumbers
      <4> HIDE DEF a
      <4> QED BY <1>2, <4>1 DEF Touched
    <3>5. address \notin Touched(access[c])
      BY <1>1, <3>3, <3>4 DEF Share
    <3>6. \A x \in Touched(access[c]) \cap Address : Contents'[x] = Contents[x]
      BY <1>3, <3>5
    <3>7. PICK other : other = Contents'
      OBVIOUS
    <3>8. Exact(access[c], other)
      BY <3>3, <3>6, <3>7, ExactStays
    <3> QED BY <3>1, <3>7, <3>8
  <2> QED BY <2>1, <2>2
<1>6. ExactInv'
  <2>1. \A c, d \in Clients : c # d /\ InProgress(c)' /\ InProgress(d)' /\ access'[c].alone
                                 => ~Share(access'[c], access'[d])
    BY <1>1, <1>2, ApartStays
  <2> QED BY <1>5, <2>1 DEF ExactInv, Share, Touched
<1> QED BY <1>4, <1>6

\* A new access begins with nothing read or written, and learns whose bytes
\* it shares; so do they.
LEMMA BeginExact ==
    ASSUME MemoryInv, ExactInv, NEW client \in Clients, NEW kind \in {"read", "write"},
           NEW at \in Address, NEW width \in Widths, NEW value \in Nat, kind = "read" => value = 0,
           Begin(client, kind, at, width, value)
    PROVE ExactInv'
<1> DEFINE new == [kind |-> kind, at |-> at, width |-> width, value |-> value, done |-> 0,
                   start |-> Contents, alone |-> TRUE]
           sharing == {c \in Others(client) : Share(new, access[c])}
           begun == [new EXCEPT !.alone = (sharing = {})]
<1>1. /\ access' = [c \in Clients |->
              CASE c = client -> begun
                [] c \in sharing -> [access[c] EXCEPT !.alone = FALSE]
                [] OTHER -> access[c]]
      /\ ~undefined /\ UNCHANGED <<blocks, block_size>>
  BY DEF Begin, Operation
<1>2. /\ begun.kind = kind /\ begun.at = at /\ begun.width = width /\ begun.value = value
      /\ begun.done = 0 /\ begun.start = Contents /\ begun.alone = (sharing = {})
      /\ new.kind = kind /\ new.at = at /\ new.width = width
  OBVIOUS
<1>3. client \notin sharing
  BY DEF Others
<1>4. \A c \in Clients : (c \in sharing <=> c # client /\ InProgress(c) /\ Share(new, access[c]))
  BY DEF Others
<1>5. Contents' = Contents
  BY <1>1, SameContents
<1> HIDE DEF new, sharing, begun
<1>6. access'[client] = begun
  BY <1>1, <1>3
<1>7. ASSUME NEW c \in Clients, c # client
      PROVE /\ access'[c].kind = access[c].kind /\ access'[c].at = access[c].at
            /\ access'[c].width = access[c].width /\ (InProgress(c)' <=> InProgress(c))
            /\ access'[c].alone => access'[c] = access[c] /\ c \notin sharing
  <2>1. access[c] \in AccessSet
    BY DEF MemoryInv, AccessInv
  <2>2. CASE c \in sharing
    <3>1. access'[c] = [access[c] EXCEPT !.alone = FALSE]
      BY <1>1, <1>7, <2>2
    <3> QED BY <2>1, <3>1 DEF AccessSet, InProgress
  <2>3. CASE c \notin sharing
    <3>1. access'[c] = access[c]
      BY <1>1, <1>7, <2>3
    <3> QED BY <2>3, <3>1 DEF InProgress
  <2> QED BY <2>2, <2>3
<1>8. ASSUME NEW c \in Clients, NEW d \in Clients, c # d, InProgress(c)', InProgress(d)', access'[c].alone
      PROVE ~Share(access'[c], access'[d])
  <2>1. CASE c = client
    <3>1. sharing = {} /\ InProgress(d) /\ d # client
      BY <1>2, <1>6, <1>7, <1>8, <2>1
    <3>2. ~Share(new, access[d])
      BY <1>4, <3>1
    <3> QED BY <1>2, <1>6, <1>7, <2>1, <3>1, <3>2 DEF Share, Touched
  <2>2. CASE d = client
    <3>1. InProgress(c) /\ access'[c] = access[c] /\ c \notin sharing /\ c # client
      BY <1>7, <1>8, <2>2
    <3>2. ~Share(new, access[c])
      BY <1>4, <3>1
    <3> QED BY <1>2, <1>6, <2>2, <3>1, <3>2 DEF Share, Touched
  <2>3. CASE c # client /\ d # client
    <3>1. InProgress(c) /\ InProgress(d) /\ access'[c] = access[c] /\ access[c].alone
      BY <1>7, <1>8, <2>3
    <3>2. ~Share(access[c], access[d])
      BY <1>1, <1>8, <3>1 DEF ExactInv
    <3> QED BY <1>7, <2>3, <3>1, <3>2 DEF Share, Touched
  <2> QED BY <2>1, <2>2, <2>3
<1>9. ASSUME NEW c \in Clients, InProgress(c)', access'[c].alone PROVE Exact(access'[c], Contents')
  <2>1. CASE c = client
    <3>1. kind = "read" => value < ByteMod ^ 0
      BY PowerAssumption
    <3>2. \A k \in 0 .. 0 - 1 : FALSE
      OBVIOUS
    <3>3. kind = "read" => ReadsExactly(begun, Contents)
      BY <1>2, <3>1, <3>2 DEF ReadsExactly
    <3>4. WritesExactly(begun, Contents)
      BY <1>2, <3>2 DEF WritesExactly
    <3> QED BY <1>2, <1>5, <1>6, <2>1, <3>3, <3>4 DEF Exact
  <2>2. CASE c # client
    <3>1. InProgress(c) /\ access'[c] = access[c] /\ access[c].alone
      BY <1>7, <1>9, <2>2
    <3>2. Exact(access[c], Contents)
      BY <1>1, <3>1 DEF ExactInv
    <3> QED BY <1>5, <3>1, <3>2
  <2> QED BY <2>1, <2>2
<1> QED BY <1>8, <1>9 DEF ExactInv, Share, Touched

LEMMA NextExact == ASSUME MemoryInv, ExactInv, [Next]_vars PROVE ExactInv'
<1>1. ASSUME UNCHANGED <<blocks, block_size, access>>, ~undefined' => ~undefined PROVE ExactInv'
  <2>1. Contents' = Contents
    BY <1>1, SameContents
  <2> QED BY <1>1, <2>1 DEF ExactInv, InProgress, Share, Touched
<1>2. ASSUME \A c \in Clients : ~InProgress(c)' PROVE ExactInv'
  BY <1>2 DEF ExactInv
<1>3. ASSUME NEW c \in Clients, ReadAccess(c) \/ WriteAccess(c) PROVE ExactInv'
  <2>1. CASE ReadAccess(c)
    <3>1. PICK at \in Address, width \in Widths : Begin(c, "read", at, width, 0)
      BY <2>1 DEF ReadAccess
    <3> QED BY <3>1, BeginExact
  <2>2. CASE WriteAccess(c)
    <3>1. PICK at \in Address, width \in Widths, v \in Values :
             Begin(c, "write", at, width, Narrowed(v, width))
      BY <2>2 DEF WriteAccess
    <3>2. Narrowed(v, width) \in Nat
      BY NarrowedType
    <3> QED BY <3>1, <3>2, BeginExact
  <2> QED BY <1>3, <2>1, <2>2
<1>4. ASSUME NEW c \in Clients, Read(c) \/ Write(c) PROVE ExactInv'
  <2>1. CASE ~undefined'
    BY <1>4, <2>1, ReadExact, WriteExact
  <2>2. CASE undefined'
    BY <2>2 DEF ExactInv
  <2> QED BY <2>1, <2>2
<1>5. ASSUME NEW client \in Clients, Throw(client) PROVE ExactInv'
  <2>1. /\ access' = [access EXCEPT ![client] = Idle] /\ ~undefined
        /\ UNCHANGED <<blocks, block_size>> /\ access \in [Clients -> AccessSet]
    BY <1>5 DEF Throw, Proceeds, MemoryInv, AccessInv
  <2>2. ~InProgress(client)'
    BY <2>1, IdleIsQuiet DEF InProgress
  <2>3. \A c \in Clients : InProgress(c)' => InProgress(c) /\ access'[c] = access[c]
    <3> SUFFICES ASSUME NEW c \in Clients, InProgress(c)'
                 PROVE InProgress(c) /\ access'[c] = access[c]
      OBVIOUS
    <3>1. c # client /\ access'[c] = access[c]
      BY <2>1, <2>2
    <3> QED BY <3>1 DEF InProgress
  <2>4. Contents' = Contents
    BY <2>1, SameContents
  <2> QED BY <2>1, <2>3, <2>4 DEF ExactInv, Share, Touched
<1>6. CASE Reset \/ MakeMachine
  <2>1. access' = [c \in Clients |-> Idle]
    BY <1>6 DEF Reset, MakeMachine
  <2>2. \A c \in Clients : ~InProgress(c)'
    BY <2>1, IdleIsQuiet DEF InProgress
  <2> QED BY <1>2, <2>2
<1>7. CASE ModifyConfig \/ UNCHANGED vars
  BY <1>1, <1>7 DEF ModifyConfig, vars
<1> QED BY <1>3, <1>4, <1>5, <1>6, <1>7 DEF Next

\* An access of any width, over however many blocks, reads and writes exactly
\* its bytes, as long as nobody else writes or reads them meanwhile.
THEOREM AccessesExact == Spec => UndisturbedAccessesAreExact
<1> DEFINE Last(c) ==
      (Read(c) \/ Write(c)) /\ LastByte(c) /\ access[c].alone /\ ~undefined' =>
          LET reads == access[c].kind = "read"
              there == IF reads THEN access[c].start ELSE Contents'
              value == IF reads THEN ReadSoFar(c) ELSE access[c].value
          IN \A k \in 0 .. access[c].width - 1 : there[access[c].at + k] = ByteOf(value, k)
<1>1. Init => ExactInv
  <2> SUFFICES ASSUME Init PROVE ExactInv
    OBVIOUS
  <2>1. \A c \in Clients : ~InProgress(c)
    BY IdleIsQuiet DEF Init, InProgress
  <2> QED BY <2>1 DEF ExactInv
<1>2. MemoryInv /\ ExactInv /\ [Next]_vars => ExactInv'
  BY NextExact
<1>3. ASSUME MemoryInv, ExactInv, NEW c \in Clients PROVE Last(c)
  <2> SUFFICES ASSUME Read(c) \/ Write(c), LastByte(c), access[c].alone, ~undefined'
               PROVE LET reads == access[c].kind = "read"
                         there == IF reads THEN access[c].start ELSE Contents'
                         value == IF reads THEN ReadSoFar(c) ELSE access[c].value
                     IN \A k \in 0 .. access[c].width - 1 : there[access[c].at + k] = ByteOf(value, k)
    OBVIOUS
  <2> DEFINE a == access[c]
  <2>1. /\ InProgress(c) /\ a.done + 1 = a.width /\ NextByte(c) < MemorySize
    BY DEF LastByte, Read, Write
  <2>2. /\ a \in AccessSet /\ NextByte(c) \in Address /\ NextByte(c) = a.at + a.done
    BY <1>3, <2>1, InProgressIs, NextByteType DEF NextByte
  <2>3. \A k \in 0 .. a.width - 1 : k \in 0 .. a.done /\ a.at + k \in Address
    <3>1. a.at \in Nat /\ a.width \in Nat /\ a.done \in Nat
      BY <2>2, AccessNumbers
    <3> HIDE DEF a
    <3> QED BY <2>1, <2>2, <3>1, MemoryAssumption DEF Address
  <2>4. CASE Read(c)
    <3>1. a.kind = "read"
      BY <2>4 DEF Read
    <3>2. \A k \in 0 .. a.done : a.at + k \in Address => ByteOf(ReadSoFar(c), k) = a.start[a.at + k]
      BY <1>3, <2>4, ReadExact
    <3> QED BY <2>3, <3>1, <3>2
  <2>5. CASE Write(c)
    <3>1. a.kind # "read"
      BY <2>5 DEF Write
    <3>2. \A k \in 0 .. a.done : a.at + k \in Address => Contents'[a.at + k] = ByteOf(a.value, k)
      BY <1>3, <2>5, WriteExact
    <3> QED BY <2>3, <3>1, <3>2
  <2> QED BY <2>4, <2>5
<1>4. MemoryInv /\ ExactInv => [\A c \in Clients : Last(c)]_vars
  <2> HIDE DEF Last
  <2> QED BY <1>3
<1> QED BY <1>1, <1>2, <1>4, Invariant, PTL DEF Spec, UndisturbedAccessesAreExact
=============================================================================
