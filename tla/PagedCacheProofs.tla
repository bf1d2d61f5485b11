-------------------------- MODULE PagedCacheProofs --------------------------
(***************************************************************************)
(* Proofs about the paged K/V cache, for every number of tables, blocks,   *)
(* slots and layers: types, exclusive ownership of the blocks, how tightly *)
(* a table fits its tokens, what gather reads, and that the tables behave  *)
(* as contiguous caches.                                                   *)
(***************************************************************************)
EXTENDS PagedCache, QueueLemmas

\* One more block has room for BlockSize more tokens.
LEMMA OneMoreBlock ==
  \A m, b \in Nat : (m + 1) * b = m * b + b
  OBVIOUS

\* The place of the next token is one in the table's blocks.
LEMMA PlacementInBlocks ==
  ASSUME TypeOK, NEW t \in Table, NEW ids \in Seq(Block),
         length[t] < Len(ids) * BlockSize
  PROVE  Placement(t, ids) \in Place_
<1> DEFINE n == length[t]
           q == n \div BlockSize
<1>1. /\ n \in Nat /\ BlockSize \in Nat \ {0}
      /\ Len(ids) \in Nat /\ \A k \in 1..Len(ids) : ids[k] \in Block
  BY PagedAssumption, ElementsByIndex DEF TypeOK
<1>2. q \in Nat /\ n % BlockSize \in Slot
  BY <1>1, DivMod DEF Slot
<1>3. q < Len(ids)
  BY <1>1, RowMajor
<1> HIDE DEF n, q
<1>4. q + 1 \in 1..Len(ids)
  BY <1>1, <1>2, <1>3
<1>5. ids[q + 1] \in Block
  BY <1>1, <1>4
<1> QED BY <1>2, <1>5 DEF Placement, Place_, n, q

\* A table whose blocks are full or not when its next token is placed.
TypeAndFit == TypeOK /\ TightFit

\* The empty pool and the empty tables.
LEMMA InitTypeAndFit == Init => TypeAndFit
<1> SUFFICES ASSUME Init PROVE TypeOK /\ TightFit
  BY DEF TypeAndFit
<1>1. NumBlocks \in Nat /\ BlockSize \in Nat \ {0} /\ NumLayers \in Nat \ {0}
  BY PagedAssumption
<1>2. free_blocks \in Seq(Block)
  <2>1. \A k \in 1..NumBlocks : k - 1 \in Block
    BY <1>1 DEF Block
  <2> QED BY <1>1, <2>1 DEF Init
<1>3. <<>> \in Seq(Block) /\ <<>> \in Seq(Place_) /\ 1 \in Layer
  BY <1>1 DEF Layer
<1>4. TypeOK
  BY <1>2, <1>3 DEF Init, TypeOK
<1>5. ASSUME NEW t \in Table
      PROVE  length[t] <= Capacity(t) /\ Capacity(t) < length[t] + BlockSize
  <2>1. length[t] = 0 /\ Len(block_ids[t]) = 0
    BY DEF Init
  <2>2. Capacity(t) = 0
    BY <1>1, <2>1 DEF Capacity
  <2> QED BY <1>1, <2>1, <2>2
<1> QED BY <1>4, <1>5 DEF TightFit

\* Placing a token in blocks that have room for it.
LEMMA PlaceTypeAndFit ==
  ASSUME TypeAndFit, NEW t \in Table, NEW ids \in Seq(Block), Place(t, ids),
         length[t] < Len(ids) * BlockSize,
         Len(ids) * BlockSize <= length[t] + BlockSize,
         free_blocks' \in Seq(Block)
  PROVE  TypeAndFit'
<1>1. TypeOK /\ TightFit /\ BlockSize \in Nat \ {0} /\ length[t] \in Nat
  BY PagedAssumption DEF TypeAndFit, TypeOK
<1>2. Placement(t, ids) \in Place_
  BY <1>1, PlacementInBlocks
<1>3. TypeOK'
  <2>1. Append(positions[t], Placement(t, ids)) \in Seq(Place_)
    BY <1>1, <1>2, AppendProperties DEF TypeOK
  <2>2. positions' \in [Table -> Seq(Place_)]
    BY <1>1, <2>1 DEF TypeOK, Place
  <2>3. /\ block_ids' \in [Table -> Seq(Block)]
        /\ pc' \in [Table -> {"idle", "reserve", "forward", "done", "raised"}]
    BY <1>1 DEF TypeOK, Place
  <2>4. length' \in [Table -> Nat]
    BY <1>1 DEF TypeOK, Place
  <2> QED BY <1>1, <2>2, <2>3, <2>4 DEF TypeOK, Place
<1>4. ASSUME NEW u \in Table
      PROVE  /\ length'[u] <= Capacity(u)'
             /\ Capacity(u)' < length'[u] + BlockSize
  <2>1. CASE u = t
    <3>1. Capacity(u)' = Len(ids) * BlockSize /\ length'[u] = length[t] + 1
      BY <1>1, <2>1 DEF Place, Capacity, TypeOK
    <3> DEFINE c == Len(ids) * BlockSize
    <3>2. c \in Nat
      BY <1>1, LenProperties
    <3>3. length[t] < c /\ c <= length[t] + BlockSize
      OBVIOUS
    <3> HIDE DEF c
    <3>4. length[t] + 1 <= c /\ c < length[t] + 1 + BlockSize
      BY <1>1, <3>2, <3>3
    <3> QED BY <3>1, <3>4 DEF c
  <2>2. CASE u # t
    <3>1. Capacity(u)' = Capacity(u) /\ length'[u] = length[u]
      BY <1>1, <2>2 DEF Place, Capacity, TypeOK
    <3> QED BY <1>1, <3>1 DEF TightFit
  <2> QED BY <2>1, <2>2
<1> QED BY <1>3, <1>4 DEF TypeAndFit, TightFit

\* Every step keeps the types and the fit.
LEMMA NextTypeAndFit == TypeAndFit /\ [Next]_vars => TypeAndFit'
<1> SUFFICES ASSUME TypeAndFit, [Next]_vars PROVE TypeAndFit'
  OBVIOUS
<1>1. /\ TypeOK /\ TightFit /\ BlockSize \in Nat \ {0}
      /\ NumLayers \in Nat \ {0}
  BY PagedAssumption DEF TypeAndFit
<1>2. <<>> \in Seq(Block) /\ <<>> \in Seq(Place_)
  OBVIOUS

\* What does not touch the tables leaves them as tight.
<1>3. ASSUME UNCHANGED table PROVE TightFit'
  BY <1>1, <1>3 DEF TightFit, Capacity, table
<1>4. CASE UNCHANGED vars
  BY <1>1, <1>3, <1>4 DEF TypeAndFit, TypeOK, vars, call, table
<1>5. ASSUME NEW t \in Table, Step(t) PROVE TypeAndFit'
  <2>1. CASE GeneratePaged(t)
    <3>1. PICK p \in PromptLens, m \in MaxNews :
            /\ ids_len' = [ids_len EXCEPT ![t] = p]
            /\ fed' = [fed EXCEPT ![t] = p]
            /\ decodes' = [decodes EXCEPT ![t] = IF m > 1 THEN m - 1 ELSE 0]
      BY <2>1 DEF GeneratePaged
    <3>2. p \in Nat /\ (IF m > 1 THEN m - 1 ELSE 0) \in Nat
      BY PagedAssumption
    <3>3. /\ ids_len' \in [Table -> Nat] /\ fed' \in [Table -> Nat]
          /\ decodes' \in [Table -> Nat]
      BY <1>1, <3>1, <3>2 DEF TypeOK
    <3>4. TypeOK'
      BY <1>1, <2>1, <3>3 DEF TypeOK, GeneratePaged, table
    <3> QED BY <1>3, <2>1, <3>4 DEF TypeAndFit, GeneratePaged
  <2>2. CASE AppendToken(t)
    <3>1. /\ block_ids[t] \in Seq(Block) /\ free_blocks' \in Seq(Block)
          /\ length[t] \in Nat
      BY <1>1, <2>2 DEF TypeOK, AppendToken
    <3> DEFINE c == Len(block_ids[t]) * BlockSize
    <3>2. c \in Nat
      BY <1>1, <3>1, LenProperties
    <3>3. length[t] < c /\ c < length[t] + BlockSize
      <4>1. Capacity(t) = c
        BY DEF Capacity
      <4> HIDE DEF c
      <4>2. c > length[t] /\ c < length[t] + BlockSize
        BY <1>1, <2>2, <4>1 DEF AppendToken, HasRoom, TightFit
      <4> QED BY <3>1, <3>2, <4>2
    <3>4. c <= length[t] + BlockSize
      <4> HIDE DEF c
      <4> QED BY <1>1, <3>1, <3>2, <3>3
    <3> QED BY <2>2, <3>1, <3>3, <3>4, PlaceTypeAndFit DEF AppendToken
  <2>3. CASE AppendTokenAllocates(t)
    <3> DEFINE ids == Append(block_ids[t], Last(free_blocks))
               c == Len(block_ids[t]) * BlockSize
    <3>1. /\ block_ids[t] \in Seq(Block) /\ free_blocks \in Seq(Block)
          /\ length[t] \in Nat /\ free_blocks # <<>>
      BY <1>1, <2>3 DEF TypeOK, AppendTokenAllocates
    <3>2. /\ Last(free_blocks) \in Block /\ Front(free_blocks) \in Seq(Block)
      BY <3>1, FrontLastTypes
    <3>3. /\ ids \in Seq(Block) /\ Len(ids) = Len(block_ids[t]) + 1
      BY <3>1, <3>2, AppendProperties
    <3>4. c \in Nat /\ Len(block_ids[t]) \in Nat
      BY <1>1, <3>1, LenProperties
    <3>5. Len(ids) * BlockSize = c + BlockSize
      BY <1>1, <3>3, <3>4, OneMoreBlock
    <3>6. length[t] = c
      <4>1. Capacity(t) = c
        BY DEF Capacity
      <4> HIDE DEF c
      <4>2. ~(c > length[t]) /\ length[t] <= c
        BY <1>1, <2>3, <4>1 DEF AppendTokenAllocates, HasRoom, TightFit
      <4> QED BY <3>1, <3>4, <4>2
    <3>7. Place(t, ids) /\ free_blocks' \in Seq(Block)
      BY <2>3, <3>2 DEF AppendTokenAllocates
    <3> HIDE DEF ids, c
    <3>8. /\ length[t] < Len(ids) * BlockSize
          /\ Len(ids) * BlockSize <= length[t] + BlockSize
      BY <1>1, <3>4, <3>5, <3>6
    <3> QED BY <3>3, <3>7, <3>8, PlaceTypeAndFit
  <2>4. CASE AppendTokenRaises(t)
    BY <1>1, <1>3, <2>4 DEF TypeAndFit, TypeOK, AppendTokenRaises, table
  <2>5. CASE AppendLayer(t)
    <3>1. layer[t] \in Layer /\ 1 \in Layer
      BY <1>1 DEF TypeOK, Layer
    <3>2. (IF layer[t] = NumLayers THEN 1 ELSE layer[t] + 1) \in Layer
      BY <1>1, <3>1 DEF Layer
    <3>3. layer' \in [Table -> Layer]
      BY <1>1, <2>5, <3>2 DEF TypeOK, AppendLayer
    <3>4. CASE layer[t] = NumLayers
      <4>1. /\ ids_len' = [ids_len EXCEPT ![t] = @ + 1]
            /\ fed' = [fed EXCEPT ![t] = 1]
            /\ positions' = [positions EXCEPT ![t] = <<>>]
            /\ decodes' = [decodes EXCEPT ![t] = IF @ = 0 THEN 0 ELSE @ - 1]
            /\ pc' = [pc EXCEPT ![t] =
                        IF decodes[t] = 0 THEN "done" ELSE "reserve"]
        BY <2>5, <3>4 DEF AppendLayer
      <4>2. decodes' \in [Table -> Nat]
        BY <1>1, <4>1 DEF TypeOK
      <4>3. /\ ids_len' \in [Table -> Nat] /\ fed' \in [Table -> Nat]
        BY <1>1, <4>1 DEF TypeOK
      <4>4. TypeOK'
        BY <1>1, <1>2, <2>5, <3>3, <4>1, <4>2, <4>3 DEF TypeOK, AppendLayer, table
      <4> QED BY <1>3, <2>5, <4>4 DEF TypeAndFit, AppendLayer
    <3>5. CASE layer[t] # NumLayers
      <4>1. UNCHANGED <<ids_len, fed, positions, decodes, pc>>
        BY <2>5, <3>5 DEF AppendLayer
      <4>2. TypeOK'
        BY <1>1, <2>5, <3>3, <4>1 DEF TypeOK, AppendLayer, table
      <4> QED BY <1>3, <2>5, <4>2 DEF TypeAndFit, AppendLayer
    <3> QED BY <3>4, <3>5
  <2>6. CASE Free(t)
    <3>1. free_blocks' \in Seq(Block)
      BY <1>1, <2>6, ConcatProperties DEF TypeOK, Free, FreeTable
    <3>2. use' \in [Table -> Nat]
      BY <1>1, <2>6 DEF TypeOK, Free
    <3>3. TypeOK'
      BY <1>1, <1>2, <2>6, <3>1, <3>2 DEF TypeOK, Free, FreeTable
    <3>4. ASSUME NEW u \in Table
          PROVE  /\ length'[u] <= Capacity(u)'
                 /\ Capacity(u)' < length'[u] + BlockSize
      <4>1. CASE u = t
        <5>1. Len(block_ids'[u]) = 0 /\ length'[u] = 0
          BY <1>1, <2>6, <4>1 DEF Free, FreeTable, TypeOK
        <5>2. Capacity(u)' = 0
          BY <1>1, <5>1 DEF Capacity
        <5> QED BY <1>1, <5>1, <5>2
      <4>2. CASE u # t
        <5>1. Capacity(u)' = Capacity(u) /\ length'[u] = length[u]
          BY <1>1, <2>6, <4>2 DEF Free, FreeTable, Capacity, TypeOK
        <5> QED BY <1>1, <5>1 DEF TightFit
      <4> QED BY <4>1, <4>2
    <3> QED BY <3>3, <3>4 DEF TypeAndFit, TightFit
  <2> QED BY <1>5, <2>1, <2>2, <2>3, <2>4, <2>5, <2>6 DEF Step
<1> QED BY <1>4, <1>5 DEF Next

\* The pool, the tables, the reservations and the calls have their types,
\* whatever the calls of generate_paged do to each other's blocks.
THEOREM PagedTypeCorrect == Spec => []TypeOK
<1>1. TypeAndFit => TypeOK
  BY DEF TypeAndFit
<1> QED BY <1>1, InitTypeAndFit, NextTypeAndFit, PTL DEF Spec

\* A table never owns a block that its tokens do not need (BlockTable._has_room
\* and append_token).
THEOREM TablesFitTightly == Spec => []TightFit
<1>1. TypeAndFit => TightFit
  BY DEF TypeAndFit
<1> QED BY <1>1, InitTypeAndFit, NextTypeAndFit, PTL DEF Spec

-----------------------------------------------------------------------------
(* Who owns the blocks *)

Owned(t) == ToSet(block_ids[t])

\* BlocksOnce, in terms of the blocks that each table owns.
LEMMA BlocksOnceOwned ==
  BlocksOnce <=>
    /\ IsInjective(free_blocks)
    /\ \A t \in Table : IsInjective(block_ids[t])
    /\ \A t, u \in Table : t # u => Owned(t) \cap Owned(u) = {}
    /\ \A t \in Table : ToSet(free_blocks) \cap Owned(t) = {}
    /\ ToSet(free_blocks) \cup UNION {Owned(t) : t \in Table} = Block
  BY DEF BlocksOnce, Owned

\* All blocks are on the free list once.
LEMMA InitBlocksOnce == Init => BlocksOnce
<1> SUFFICES ASSUME Init PROVE BlocksOnce
  OBVIOUS
<1>1. NumBlocks \in Nat \ {0}
  BY PagedAssumption
<1>2. /\ free_blocks = [k \in 1..NumBlocks |-> k - 1]
      /\ \A t \in Table : block_ids[t] = <<>>
  BY DEF Init
<1>3. /\ DOMAIN free_blocks = 1..NumBlocks
      /\ \A k \in 1..NumBlocks : free_blocks[k] = k - 1
  BY <1>2
<1>4. IsInjective(free_blocks)
  BY <1>1, <1>3 DEF IsInjective
<1>5. ToSet(free_blocks) = Block
  <2>1. ASSUME NEW b \in Block PROVE b \in ToSet(free_blocks)
    <3>1. b + 1 \in 1..NumBlocks /\ (b + 1) - 1 = b
      BY <1>1 DEF Block
    <3>2. b + 1 \in DOMAIN free_blocks /\ free_blocks[b + 1] = b
      BY <1>3, <3>1
    <3> QED BY <3>2 DEF ToSet
  <2>2. ASSUME NEW b \in ToSet(free_blocks) PROVE b \in Block
    <3>1. PICK k \in 1..NumBlocks : b = k - 1
      BY <1>3 DEF ToSet
    <3> QED BY <1>1, <3>1 DEF Block
  <2> QED BY <2>1, <2>2
<1>6. \A t \in Table : IsInjective(block_ids[t]) /\ Owned(t) = {}
  BY <1>2, EmptyElements DEF Owned
<1>7. UNION {Owned(t) : t \in Table} = {}
  BY <1>6
<1> QED BY <1>4, <1>5, <1>6, <1>7, BlocksOnceOwned

\* allocate moves a block from the free list to a table, free moves all back.
LEMMA NextBlocksOnce == TypeOK /\ BlocksOnce /\ [Next]_vars => BlocksOnce'
<1> SUFFICES ASSUME TypeOK, BlocksOnce, [Next]_vars PROVE BlocksOnce'
  OBVIOUS
<1>1. /\ IsInjective(free_blocks)
      /\ \A t \in Table : IsInjective(block_ids[t])
      /\ \A t, u \in Table : t # u => Owned(t) \cap Owned(u) = {}
      /\ \A t \in Table : ToSet(free_blocks) \cap Owned(t) = {}
      /\ ToSet(free_blocks) \cup UNION {Owned(t) : t \in Table} = Block
  BY BlocksOnceOwned
<1>2. /\ free_blocks \in Seq(Block)
      /\ block_ids \in [Table -> Seq(Block)]
  BY DEF TypeOK
<1> DEFINE owned1(t) == ToSet(block_ids'[t])

\* The same, of the next state.
<1>3. ASSUME IsInjective(free_blocks'),
             \A t \in Table : IsInjective(block_ids'[t]),
             \A t, u \in Table : t # u => owned1(t) \cap owned1(u) = {},
             \A t \in Table : ToSet(free_blocks') \cap owned1(t) = {},
             ToSet(free_blocks') \cup UNION {owned1(t) : t \in Table} = Block
      PROVE  BlocksOnce'
  BY <1>3 DEF BlocksOnce, Block
<1>4. ASSUME UNCHANGED <<free_blocks, block_ids>> PROVE BlocksOnce'
  BY <1>4 DEF BlocksOnce
<1>5. ASSUME NEW t \in Table, AppendTokenAllocates(t) PROVE BlocksOnce'
  <2> DEFINE b == Last(free_blocks)
  <2>1. /\ free_blocks # <<>> /\ free_blocks' = Front(free_blocks)
        /\ block_ids' = [block_ids EXCEPT ![t] = Append(block_ids[t], b)]
    BY <1>5 DEF AppendTokenAllocates, Place
  <2>2. /\ b \in Block /\ b \in ToSet(free_blocks)
        /\ ToSet(free_blocks') = ToSet(free_blocks) \ {b}
        /\ IsInjective(free_blocks')
    BY <1>1, <1>2, <2>1, FrontElements
  <2>3. block_ids[t] \in Seq(Block) /\ b \notin Owned(t)
    BY <1>1, <1>2, <2>2
  <2> HIDE DEF b
  <2>4. /\ block_ids'[t] = Append(block_ids[t], b)
        /\ \A u \in Table : u # t => block_ids'[u] = block_ids[u]
    BY <1>2, <2>1
  <2>5. owned1(t) = Owned(t) \cup {b} /\ IsInjective(block_ids'[t])
    BY <1>1, <2>2, <2>3, <2>4, AppendElements DEF Owned
  <2>6. \A u \in Table : u # t => owned1(u) = Owned(u)
    BY <2>4 DEF Owned
  <2> HIDE DEF owned1
  <2>7. \A u \in Table : IsInjective(block_ids'[u])
    BY <1>1, <2>4, <2>5
  <2>8. \A u, v \in Table : u # v => owned1(u) \cap owned1(v) = {}
    BY <1>1, <2>2, <2>5, <2>6
  <2>9. \A u \in Table : ToSet(free_blocks') \cap owned1(u) = {}
    BY <1>1, <2>2, <2>5, <2>6
  <2>10. ToSet(free_blocks') \cup UNION {owned1(u) : u \in Table} = Block
    <3>1. UNION {owned1(u) : u \in Table}
            = (UNION {Owned(u) : u \in Table}) \cup {b}
      <4>1. ASSUME NEW x \in UNION {owned1(u) : u \in Table}
            PROVE  x \in (UNION {Owned(u) : u \in Table}) \cup {b}
        BY <2>5, <2>6
      <4>2. ASSUME NEW x \in UNION {Owned(u) : u \in Table}
            PROVE  x \in UNION {owned1(u) : u \in Table}
        BY <2>5, <2>6
      <4>3. b \in UNION {owned1(u) : u \in Table}
        BY <2>5
      <4> QED BY <4>1, <4>2, <4>3
    <3> HIDE DEF Owned
    <3> QED BY <1>1, <2>2, <3>1
  <2> QED BY <1>3, <2>2, <2>7, <2>8, <2>9, <2>10 DEF owned1
<1>6. ASSUME NEW t \in Table, Free(t) PROVE BlocksOnce'
  <2>1. /\ free_blocks' = free_blocks \o block_ids[t]
        /\ block_ids' = [block_ids EXCEPT ![t] = <<>>]
    BY <1>6 DEF Free, FreeTable
  <2>2. /\ ToSet(free_blocks') = ToSet(free_blocks) \cup Owned(t)
        /\ IsInjective(free_blocks')
    <3>1. block_ids[t] \in Seq(Block)
      BY <1>2
    <3> QED BY <1>1, <1>2, <2>1, <3>1, ConcatElements DEF Owned
  <2>3. /\ block_ids'[t] = <<>>
        /\ \A u \in Table : u # t => block_ids'[u] = block_ids[u]
    BY <1>2, <2>1
  <2>4. owned1(t) = {} /\ IsInjective(block_ids'[t])
    BY <2>3, EmptyElements
  <2>5. \A u \in Table : u # t => owned1(u) = Owned(u)
    BY <2>3 DEF Owned
  <2> HIDE DEF owned1
  <2>6. \A u \in Table : IsInjective(block_ids'[u])
    BY <1>1, <2>3, <2>4
  <2>7. \A u, v \in Table : u # v => owned1(u) \cap owned1(v) = {}
    BY <1>1, <2>4, <2>5
  <2>8. \A u \in Table : ToSet(free_blocks') \cap owned1(u) = {}
    BY <1>1, <2>2, <2>4, <2>5
  <2>9. ToSet(free_blocks') \cup UNION {owned1(u) : u \in Table} = Block
    <3>1. Owned(t) \cup UNION {owned1(u) : u \in Table}
            = UNION {Owned(u) : u \in Table}
      <4>1. ASSUME NEW x \in UNION {owned1(u) : u \in Table}
            PROVE  x \in UNION {Owned(u) : u \in Table}
        BY <2>4, <2>5
      <4>2. ASSUME NEW x \in UNION {Owned(u) : u \in Table}, x \notin Owned(t)
            PROVE  x \in UNION {owned1(u) : u \in Table}
        BY <2>5, <4>2
      <4> QED BY <4>1, <4>2
    <3> QED BY <1>1, <2>2, <3>1
  <2> QED BY <1>3, <2>2, <2>6, <2>7, <2>8, <2>9 DEF owned1
<1>7. ASSUME NEW t \in Table, Step(t) PROVE BlocksOnce'
  <2>1. CASE GeneratePaged(t)
    BY <1>4, <2>1 DEF GeneratePaged, table
  <2>2. CASE AppendToken(t)
    <3>1. block_ids' = block_ids
      BY <1>2, <2>2 DEF AppendToken, Place
    <3> QED BY <1>4, <2>2, <3>1 DEF AppendToken
  <2>3. CASE AppendTokenRaises(t)
    BY <1>4, <2>3 DEF AppendTokenRaises, table
  <2>4. CASE AppendLayer(t)
    BY <1>4, <2>4 DEF AppendLayer, table
  <2> QED BY <1>5, <1>6, <1>7, <2>1, <2>2, <2>3, <2>4 DEF Step
<1>8. CASE UNCHANGED vars
  BY <1>4, <1>8 DEF vars, table
<1> QED BY <1>7, <1>8 DEF Next

\* No block is ever handed to two requests or lost (BlockPool.allocate and
\* free, which check nothing), also when calls raise in the middle of their
\* reservations and their tables are freed.
THEOREM BlocksAreExclusive == Spec => []BlocksOnce
<1> DEFINE I == TypeAndFit /\ BlocksOnce
<1>1. Init => I
  BY InitTypeAndFit, InitBlocksOnce
<1>2. I /\ [Next]_vars => I'
  BY NextTypeAndFit, NextBlocksOnce DEF TypeAndFit
<1> QED BY <1>1, <1>2, PTL DEF Spec

-----------------------------------------------------------------------------
(* What the slabs hold *)

\* The k-th entry of a table, in its present use.
OwnEntry(t, k) == [owner |-> t, use |-> use[t], pos |-> k - 1]

\* How far the call on a table has come: it has reserved every token before
\* those it feeds, and of these the ones in positions.
CallShape(t) ==
  /\ length[t] = Offset(t) + Len(positions[t])
  /\ fed[t] <= ids_len[t]
  /\ pc[t] # "forward" => layer[t] = 1
  /\ pc[t] = "idle" => fed[t] = ids_len[t] /\ positions[t] = <<>>
  /\ pc[t] = "reserve" => Len(positions[t]) < fed[t]
  /\ pc[t] = "forward" => Len(positions[t]) = fed[t] /\ fed[t] > 0
  /\ pc[t] = "done" => positions[t] = <<>>

\* The places reserved are those that gather reads the tokens from.
PlacesShape(t) ==
  \A k \in 1..Len(positions[t]) : positions[t][k] = Where(t, Offset(t) + k)

\* The slots that the calls have written hold the table's own entries.
StoreShape(t) ==
  \A l \in Layer : \A k \in 1..Written(t, l) :
    Stored(l, Where(t, k)) = OwnEntry(t, k)

StoreInv ==
  /\ DOMAIN store = Layer
  /\ \A t \in Table : CallShape(t) /\ PlacesShape(t) /\ StoreShape(t)

PagedInv == TypeAndFit /\ BlocksOnce /\ StoreInv

\* The k-th token is in one of the table's blocks.
LEMMA WhereInBlocks ==
  ASSUME TypeAndFit, NEW t \in Table, NEW k \in 1..length[t]
  PROVE  /\ (k - 1) \div BlockSize + 1 \in 1..Len(block_ids[t])
         /\ Where(t, k).slot \in Slot
         /\ Where(t, k).block \in Block /\ Where(t, k).block \in Owned(t)
         /\ k \in 1..Capacity(t)
<1> DEFINE n == k - 1
           q == n \div BlockSize
           m == Len(block_ids[t])
<1>1. /\ BlockSize \in Nat \ {0} /\ length[t] \in Nat
      /\ block_ids[t] \in Seq(Block) /\ length[t] <= Capacity(t)
      /\ Capacity(t) = m * BlockSize
  BY PagedAssumption DEF TypeAndFit, TypeOK, TightFit, Capacity
<1>2. /\ m \in Nat /\ \A i \in 1..m : block_ids[t][i] \in Block
                                      /\ block_ids[t][i] \in Owned(t)
  BY <1>1, ElementsByIndex DEF Owned
<1>3. Capacity(t) \in Nat
  BY <1>1, <1>2
<1>4. n \in Nat /\ n < Capacity(t) /\ k \in 1..Capacity(t)
  BY <1>1, <1>3
<1> HIDE DEF n, m
<1>5. q \in Nat /\ n % BlockSize \in Slot
  BY <1>1, <1>4, DivMod DEF Slot
<1>6. q < m
  BY <1>1, <1>2, <1>4, RowMajor
<1> HIDE DEF q
<1>7. q + 1 \in 1..m
  BY <1>2, <1>5, <1>6
<1> QED BY <1>2, <1>4, <1>5, <1>7 DEF Where, n, m, q

\* No two tokens of a table are at one place.
LEMMA WhereIsUnique ==
  ASSUME TypeAndFit, BlocksOnce, NEW t \in Table,
         NEW j \in 1..length[t], NEW k \in 1..length[t],
         Where(t, j) = Where(t, k)
  PROVE  j = k
<1> DEFINE q(i) == (i - 1) \div BlockSize
<1>1. /\ BlockSize \in Nat \ {0} /\ length[t] \in Nat
      /\ block_ids[t] \in Seq(Block) /\ IsInjective(block_ids[t])
  BY PagedAssumption DEF TypeAndFit, TypeOK, BlocksOnce
<1>2. j - 1 \in Nat /\ k - 1 \in Nat
  BY <1>1
<1>3. q(j) + 1 \in 1..Len(block_ids[t]) /\ q(k) + 1 \in 1..Len(block_ids[t])
  BY WhereInBlocks
<1>4. /\ block_ids[t][q(j) + 1] = block_ids[t][q(k) + 1]
      /\ (j - 1) % BlockSize = (k - 1) % BlockSize
  BY DEF Where
<1>5. q(j) \in Nat /\ q(k) \in Nat
  BY <1>1, <1>2, DivMod
<1>6. q(j) + 1 = q(k) + 1
  <2> HIDE DEF q
  <2> QED BY <1>1, <1>3, <1>4, ElementsByIndex
<1>7. q(j) = q(k)
  <2> HIDE DEF q
  <2> QED BY <1>5, <1>6
<1>8. j - 1 = k - 1
  BY <1>1, <1>2, <1>4, <1>7, RowMajorUnique
<1> QED BY <1>1, <1>8

\* Tokens of two tables are in different blocks.
LEMMA WhereIsApart ==
  ASSUME TypeAndFit, BlocksOnce, NEW t \in Table, NEW u \in Table, t # u,
         NEW j \in 1..length[t], NEW k \in 1..length[u]
  PROVE  Where(t, j).block # Where(u, k).block
<1>1. Where(t, j).block \in Owned(t) /\ Where(u, k).block \in Owned(u)
  BY WhereInBlocks
<1>2. Owned(t) \cap Owned(u) = {}
  BY DEF BlocksOnce, Owned
<1> QED BY <1>1, <1>2

\* The written tokens are among those of the table, and so are the reserved.
LEMMA TokensInTable ==
  ASSUME TypeAndFit, NEW t \in Table, CallShape(t)
  PROVE  /\ Offset(t) \in Nat /\ Len(positions[t]) \in Nat
         /\ length[t] = Offset(t) + Len(positions[t])
         /\ \A k \in 1..Len(positions[t]) : Offset(t) + k \in 1..length[t]
         /\ \A l \in Layer : Written(t, l) \in Nat /\ Written(t, l) <= length[t]
<1> DEFINE n == Len(positions[t])
<1>1. /\ ids_len[t] \in Nat /\ fed[t] \in Nat /\ fed[t] <= ids_len[t]
      /\ positions[t] \in Seq(Place_) /\ length[t] \in Nat
      /\ length[t] = Offset(t) + n
  BY DEF TypeAndFit, TypeOK, CallShape
<1>2. n \in Nat
  BY <1>1, LenProperties
<1> HIDE DEF n
<1>3. Offset(t) \in Nat
  BY <1>1 DEF Offset
<1>4. \A k \in 1..n : Offset(t) + k \in 1..length[t]
  BY <1>1, <1>2, <1>3
<1>5. length[t] - n \in Nat /\ length[t] - n <= length[t]
  BY <1>1, <1>2, <1>3
<1>6. \A l \in Layer : Written(t, l) = length[t] \/ Written(t, l) = length[t] - n
  BY DEF Written, n
<1>7. \A l \in Layer : Written(t, l) \in Nat /\ Written(t, l) <= length[t]
  BY <1>1, <1>5, <1>6
<1> QED BY <1>1, <1>2, <1>3, <1>4, <1>7 DEF n

\* A step that does not touch a table, its call, or what is stored for it.
LEMMA OtherTable ==
  ASSUME NEW t \in Table,
         block_ids'[t] = block_ids[t], length'[t] = length[t],
         pc'[t] = pc[t], positions'[t] = positions[t], fed'[t] = fed[t],
         ids_len'[t] = ids_len[t], layer'[t] = layer[t], use'[t] = use[t]
  PROVE  /\ CallShape(t) => CallShape(t)'
         /\ PlacesShape(t) => PlacesShape(t)'
         /\ \A l \in Layer : Written(t, l)' = Written(t, l)
         /\ \A k \in Nat : /\ Where(t, k)' = Where(t, k)
                           /\ OwnEntry(t, k)' = OwnEntry(t, k)
         /\ store' = store /\ StoreShape(t) => StoreShape(t)'
<1>1. /\ \A k \in Nat : /\ Where(t, k)' = Where(t, k)
                        /\ OwnEntry(t, k)' = OwnEntry(t, k)
      /\ \A l \in Layer : Written(t, l)' = Written(t, l)
  BY DEF Where, OwnEntry, Written
<1>2. CallShape(t) => CallShape(t)'
  BY DEF CallShape, Offset
<1>3. PlacesShape(t) => PlacesShape(t)'
  BY DEF PlacesShape, Offset, Where
<1>4. store' = store /\ StoreShape(t) => StoreShape(t)'
  BY DEF StoreShape, Stored, Layer, Where, OwnEntry, Written
<1> QED BY <1>1, <1>2, <1>3, <1>4

\* Nothing is reserved and nothing is written.
LEMMA InitStoreInv == Init => StoreInv
<1> SUFFICES ASSUME Init, NEW t \in Table
             PROVE  /\ DOMAIN store = Layer
                    /\ CallShape(t) /\ PlacesShape(t) /\ StoreShape(t)
  BY DEF StoreInv, Init
<1>1. /\ length[t] = 0 /\ pc[t] = "idle" /\ positions[t] = <<>>
      /\ fed[t] = 0 /\ ids_len[t] = 0 /\ layer[t] = 1 /\ DOMAIN store = Layer
  BY DEF Init
<1>2. Len(positions[t]) = 0
  BY <1>1
<1>3. CallShape(t)
  BY <1>1, <1>2 DEF CallShape, Offset
<1>4. PlacesShape(t)
  BY <1>2 DEF PlacesShape
<1>5. StoreShape(t)
  <2>1. \A l \in Layer : Written(t, l) = length[t] - Len(positions[t])
    BY <1>1 DEF Written
  <2>2. 0 - 0 = 0
    OBVIOUS
  <2>3. \A l \in Layer : Written(t, l) = 0
    BY <1>1, <1>2, <2>1, <2>2
  <2> QED BY <2>3 DEF StoreShape
<1> QED BY <1>1, <1>3, <1>4, <1>5

\* A call of generate_paged begins, or decodes the next token.
LEMMA GenerateStoreInv ==
  ASSUME PagedInv, NEW t \in Table, GeneratePaged(t)
  PROVE  StoreInv'
<1>1. TypeOK /\ StoreInv
  BY DEF PagedInv, TypeAndFit
<1>2. \A u \in Table : CallShape(u) /\ PlacesShape(u) /\ StoreShape(u)
  BY <1>1 DEF StoreInv
<1>3. UNCHANGED <<table, store, positions, layer, use>>
  BY DEF GeneratePaged
<1>4. ASSUME NEW u \in Table, u # t
      PROVE  CallShape(u)' /\ PlacesShape(u)' /\ StoreShape(u)'
  <2>1. /\ pc'[u] = pc[u] /\ fed'[u] = fed[u] /\ ids_len'[u] = ids_len[u]
    BY <1>1, <1>4 DEF GeneratePaged, TypeOK
  <2> QED BY <1>2, <1>3, <2>1, OtherTable DEF table
<1>5. PICK p \in PromptLens : /\ ids_len' = [ids_len EXCEPT ![t] = p]
                              /\ fed' = [fed EXCEPT ![t] = p]
  BY DEF GeneratePaged
<1>6. /\ pc[t] = "idle" /\ pc'[t] = "reserve" /\ ids_len'[t] = p /\ fed'[t] = p
      /\ p \in Nat \ {0}
  BY <1>1, <1>5, PagedAssumption DEF GeneratePaged, TypeOK
<1>7. /\ positions[t] = <<>> /\ fed[t] = ids_len[t] /\ layer[t] = 1
      /\ length[t] = Offset(t) + Len(positions[t]) /\ ids_len[t] \in Nat
  BY <1>1, <1>2, <1>6 DEF CallShape, TypeOK
<1>8. Len(positions[t]) = 0 /\ Len(positions'[t]) = 0
  BY <1>3, <1>7
<1>9. length[t] = 0
  BY <1>7, <1>8 DEF Offset
<1>10. CallShape(t)'
  <2>1. length'[t] = Offset(t)' + Len(positions'[t])
    BY <1>3, <1>6, <1>8, <1>9 DEF Offset, table
  <2> QED BY <1>3, <1>6, <1>7, <1>8, <2>1 DEF CallShape
<1>11. PlacesShape(t)'
  BY <1>8 DEF PlacesShape
<1>12. StoreShape(t)'
  <2>1. \A l \in Layer : Written(t, l)' = 0
    BY <1>3, <1>6, <1>8, <1>9 DEF Written, table
  <2>2. Layer' = Layer
    BY DEF Layer
  <2> QED BY <2>1, <2>2 DEF StoreShape
<1> QED BY <1>1, <1>3, <1>4, <1>10, <1>11, <1>12 DEF StoreInv, Layer

\* A call that finds no block ends where it is.
LEMMA RaiseStoreInv ==
  ASSUME PagedInv, NEW t \in Table, AppendTokenRaises(t)
  PROVE  StoreInv'
<1>1. TypeOK /\ StoreInv
  BY DEF PagedInv, TypeAndFit
<1>2. \A u \in Table : CallShape(u) /\ PlacesShape(u) /\ StoreShape(u)
  BY <1>1 DEF StoreInv
<1>3. /\ UNCHANGED <<table, store, positions, fed, ids_len, layer, use>>
      /\ pc[t] = "reserve" /\ pc'[t] = "raised"
      /\ \A u \in Table : u # t => pc'[u] = pc[u]
  BY <1>1 DEF AppendTokenRaises, TypeOK
<1>4. ASSUME NEW u \in Table, u # t
      PROVE  CallShape(u)' /\ PlacesShape(u)' /\ StoreShape(u)'
  BY <1>2, <1>3, <1>4, OtherTable DEF table
<1>5. CallShape(t)'
  BY <1>2, <1>3 DEF CallShape, Offset, table
<1>6. PlacesShape(t)'
  BY <1>2, <1>3 DEF PlacesShape, Offset, Where, table
<1>7. StoreShape(t)'
  <2>1. \A l \in Layer : Written(t, l)' = Written(t, l)
    BY <1>3 DEF Written, table
  <2> QED BY <1>2, <1>3, <2>1 DEF StoreShape, Stored, Layer, Where, OwnEntry, table
<1> QED BY <1>1, <1>3, <1>4, <1>5, <1>6, <1>7 DEF StoreInv, Layer

\* A freed table has no tokens, and its entries are of another use.
LEMMA FreeStoreInv ==
  ASSUME PagedInv, NEW t \in Table, Free(t)
  PROVE  StoreInv'
<1>1. TypeOK /\ StoreInv
  BY DEF PagedInv, TypeAndFit
<1>2. \A u \in Table : CallShape(u) /\ PlacesShape(u) /\ StoreShape(u)
  BY <1>1 DEF StoreInv
<1>3. UNCHANGED <<store, layer>>
  BY DEF Free
<1>4. ASSUME NEW u \in Table, u # t
      PROVE  CallShape(u)' /\ PlacesShape(u)' /\ StoreShape(u)'
  <2>1. /\ block_ids'[u] = block_ids[u] /\ length'[u] = length[u]
        /\ pc'[u] = pc[u] /\ positions'[u] = positions[u] /\ fed'[u] = fed[u]
        /\ ids_len'[u] = ids_len[u] /\ use'[u] = use[u]
    BY <1>1, <1>4 DEF Free, FreeTable, TypeOK
  <2> QED BY <1>2, <1>3, <2>1, OtherTable
<1>5. /\ pc[t] # "forward" /\ pc'[t] = "idle" /\ positions'[t] = <<>>
      /\ ids_len'[t] = 0 /\ fed'[t] = 0 /\ length'[t] = 0
  BY <1>1 DEF Free, FreeTable, TypeOK
<1>6. Len(positions'[t]) = 0 /\ layer[t] = 1
  BY <1>2, <1>5 DEF CallShape
<1>7. CallShape(t)'
  BY <1>3, <1>5, <1>6 DEF CallShape, Offset
<1>8. PlacesShape(t)'
  BY <1>6 DEF PlacesShape
<1>9. StoreShape(t)'
  <2>1. \A l \in Layer : Written(t, l)' = length'[t] - Len(positions'[t])
    BY <1>5 DEF Written
  <2>2. 0 - 0 = 0
    OBVIOUS
  <2>3. \A l \in Layer : Written(t, l)' = 0
    BY <1>5, <1>6, <2>1, <2>2
  <2>4. Layer' = Layer
    BY DEF Layer
  <2> QED BY <2>3, <2>4 DEF StoreShape
<1> QED BY <1>1, <1>3, <1>4, <1>7, <1>8, <1>9 DEF StoreInv, Layer

\* A token that is placed is not written yet.
LEMMA PlaceWritten ==
  ASSUME PagedInv, NEW t \in Table, pc[t] = "reserve",
         NEW ids, Place(t, ids)
  PROVE  \A l \in Layer : Written(t, l)' = Written(t, l)
<1> DEFINE n == Len(positions[t])
           new == Placement(t, ids)
<1>1. /\ layer[t] = 1 /\ length[t] \in Nat /\ UNCHANGED layer
      /\ positions[t] \in Seq(Place_)
      /\ length'[t] = length[t] + 1
      /\ positions'[t] = Append(positions[t], new)
  BY DEF PagedInv, TypeAndFit, TypeOK, StoreInv, CallShape, Place
<1>2. n \in Nat
  BY <1>1, LenProperties
<1>3. Len(positions'[t]) = n + 1
  <2> HIDE DEF new
  <2>1. Len(Append(positions[t], new)) = Len(positions[t]) + 1
    BY <1>1
  <2> QED BY <1>1, <2>1
<1> HIDE DEF n
<1>4. ASSUME NEW l \in Layer PROVE Written(t, l)' = Written(t, l)
  <2>1. ~(l < layer[t])
    BY <1>1 DEF Layer
  <2>2. Written(t, l) = length[t] - n
    BY <2>1 DEF Written, n
  <2>3. Written(t, l)' = length'[t] - Len(positions'[t])
    BY <1>1, <2>1 DEF Written
  <2>4. length'[t] - Len(positions'[t]) = length[t] - n
    BY <1>1, <1>2, <1>3
  <2> QED BY <2>2, <2>3, <2>4
<1> QED BY <1>4

\* A token is placed: the tokens before it stay where they are.
LEMMA PlaceStoreInv ==
  ASSUME PagedInv, NEW t \in Table, pc[t] = "reserve",
         NEW ids \in Seq(Block), Place(t, ids),
         length[t] < Len(ids) * BlockSize,
         \A i \in 1..Len(block_ids[t]) : ids[i] = block_ids[t][i]
  PROVE  StoreInv'
<1> DEFINE n == Len(positions[t])
           new == Placement(t, ids)
<1>1. TypeOK /\ TypeAndFit /\ StoreInv
  BY DEF PagedInv, TypeAndFit
<1>2. \A u \in Table : CallShape(u) /\ PlacesShape(u) /\ StoreShape(u)
  BY <1>1 DEF StoreInv
<1>3. /\ UNCHANGED <<store, fed, ids_len, layer, use>>
      /\ block_ids'[t] = ids /\ positions'[t] = Append(positions[t], new)
      /\ length'[t] = length[t] + 1
      /\ pc'[t] = IF n + 1 = fed[t] THEN "forward" ELSE "reserve"
  BY <1>1 DEF Place, TypeOK
<1>4. ASSUME NEW u \in Table, u # t
      PROVE  CallShape(u)' /\ PlacesShape(u)' /\ StoreShape(u)'
  <2>1. /\ block_ids'[u] = block_ids[u] /\ length'[u] = length[u]
        /\ pc'[u] = pc[u] /\ positions'[u] = positions[u]
    BY <1>1, <1>4 DEF Place, TypeOK
  <2> QED BY <1>2, <1>3, <2>1, OtherTable
<1>5. /\ n \in Nat /\ Offset(t) \in Nat /\ length[t] = Offset(t) + n
      /\ fed[t] \in Nat /\ fed[t] <= ids_len[t] /\ n < fed[t] /\ layer[t] = 1
      /\ \A k \in 1..n : Offset(t) + k \in 1..length[t]
      /\ \A l \in Layer : Written(t, l) \in Nat /\ Written(t, l) <= length[t]
  <2>1. /\ fed[t] <= ids_len[t] /\ n < fed[t] /\ layer[t] = 1
        /\ fed[t] \in Nat
    BY <1>1, <1>2 DEF CallShape, TypeOK
  <2> QED BY <1>1, <1>2, <2>1, TokensInTable
<1>6. new \in Place_ /\ positions[t] \in Seq(Place_)
  BY <1>1, PlacementInBlocks DEF TypeOK
<1> HIDE DEF new
<1>7. /\ Len(positions'[t]) = n + 1
      /\ \A k \in 1..n : positions'[t][k] = positions[t][k]
      /\ positions'[t][n + 1] = new
  BY <1>3, <1>6, AppendProperties
<1> HIDE DEF n
<1>8. Offset(t)' = Offset(t)
  BY <1>3 DEF Offset
<1>9. \A k \in 1..length[t] : Where(t, k)' = Where(t, k)
  <2> TAKE k \in 1..length[t]
  <2>1. (k - 1) \div BlockSize + 1 \in 1..Len(block_ids[t])
    BY <1>1, WhereInBlocks
  <2> QED BY <1>3, <2>1 DEF Where
<1>10. CallShape(t)'
  <2>1. length'[t] = Offset(t)' + Len(positions'[t])
    BY <1>3, <1>5, <1>7, <1>8
  <2>2. CASE n + 1 = fed[t]
    <3>1. pc'[t] = "forward" /\ n + 1 > 0
      BY <1>3, <1>5, <2>2
    <3> QED BY <1>3, <1>5, <1>7, <2>1, <2>2, <3>1 DEF CallShape
  <2>3. CASE n + 1 # fed[t]
    <3>1. pc'[t] = "reserve" /\ n + 1 < fed[t]
      BY <1>3, <1>5, <2>3
    <3> QED BY <1>3, <1>5, <1>7, <2>1, <2>3, <3>1 DEF CallShape
  <2> QED BY <2>2, <2>3
<1>11. PlacesShape(t)'
  <2>1. PICK o \in Nat : o = Offset(t)
    BY <1>5
  <2>2. ASSUME NEW k \in 1..(n + 1)
        PROVE  positions'[t][k] = Where(t, o + k)'
    <3>1. PICK p \in Int : p = o + k
      BY <1>5, <2>1
    <3>2. CASE k \in 1..n
      <4>1. positions[t][k] = Where(t, o + k)
        BY <1>2, <2>1, <3>2 DEF PlacesShape, n
      <4>2. p \in 1..length[t]
        BY <1>5, <2>1, <3>1, <3>2
      <4>3. positions'[t][k] = Where(t, p)
        BY <1>7, <3>1, <3>2, <4>1
      <4>4. (p - 1) \div BlockSize + 1 \in 1..Len(block_ids[t])
        BY <1>1, <4>2, WhereInBlocks
      <4> QED BY <1>3, <3>1, <4>3, <4>4 DEF Where
    <3>3. CASE k = n + 1
      <4>1. p - 1 = length[t]
        BY <1>5, <2>1, <3>1, <3>3
      <4> QED BY <1>3, <1>7, <3>1, <3>3, <4>1 DEF Where, Placement, new
    <3> QED BY <1>5, <3>2, <3>3
  <2>3. o = ids_len'[t] - fed'[t]
    BY <1>3, <2>1 DEF Offset
  <2> QED BY <1>7, <2>2, <2>3 DEF PlacesShape, Where, Offset
<1>12. StoreShape(t)'
  <2>1. \A l \in Layer : Written(t, l)' = Written(t, l)
    BY PlaceWritten
  <2>2. ASSUME NEW l \in Layer, NEW k \in 1..Written(t, l)
        PROVE  Stored(l, Where(t, k))' = OwnEntry(t, k)'
    <3>1. k \in 1..length[t]
      BY <1>5
    <3>2. Where(t, k)' = Where(t, k)
      BY <1>9, <3>1
    <3>3. Stored(l, Where(t, k)) = OwnEntry(t, k)
      BY <1>2 DEF StoreShape
    <3> QED BY <1>3, <3>2, <3>3 DEF Stored, OwnEntry
  <2> QED BY <2>1, <2>2 DEF StoreShape, Layer
<1> QED BY <1>1, <1>3, <1>4, <1>10, <1>11, <1>12 DEF StoreInv, Layer

-----------------------------------------------------------------------------
(* PagedKVCache.append *)

\* What a layer's write does to the places of the tokens: those of its own
\* new tokens get their entries, all others keep what they have.
LEMMA AppendWrites ==
  ASSUME PagedInv, NEW t \in Table, AppendLayer(t)
  PROVE  /\ layer[t] \in Layer /\ DOMAIN store' = Layer
         /\ \A m \in Layer : m # layer[t] => store'[m] = store[m]
         /\ \A u \in Table : \A k \in 1..length[u] :
              u # t \/ k <= Offset(t) =>
                store'[layer[t]][Where(u, k).block][Where(u, k).slot]
                  = Stored(layer[t], Where(u, k))
         /\ \A k \in 1..length[t] :
              k > Offset(t) =>
                store'[layer[t]][Where(t, k).block][Where(t, k).slot]
                  = OwnEntry(t, k)
<1> DEFINE l == layer[t]
           n == Len(positions[t])
           ks(b, s) == {k \in DOMAIN positions[t] :
                          positions[t][k] = [block |-> b, slot |-> s]}
           written(b, s) ==
             IF ks(b, s) = {} THEN store[l][b][s]
             ELSE Entry(t, CHOOSE k \in ks(b, s) : \A j \in ks(b, s) : j <= k)
<1>1. /\ TypeOK /\ TypeAndFit /\ BlocksOnce /\ DOMAIN store = Layer
      /\ CallShape(t) /\ PlacesShape(t) /\ l \in Layer
  BY DEF PagedInv, TypeAndFit, StoreInv, TypeOK
<1>2. store' = [store EXCEPT ![l] =
                  [b \in Block |-> [s \in Slot |-> written(b, s)]]]
  BY DEF AppendLayer
<1>3. /\ positions[t] \in Seq(Place_) /\ DOMAIN positions[t] = 1..n
      /\ n \in Nat /\ Offset(t) \in Nat /\ length[t] = Offset(t) + n
      /\ \A k \in 1..n : Offset(t) + k \in 1..length[t]
  <2>1. positions[t] \in Seq(Place_)
    BY <1>1 DEF TypeOK
  <2> QED BY <1>1, <2>1, TokensInTable, LenProperties
<1> HIDE DEF l, n
<1>4. \A b \in Block, s \in Slot : store'[l][b][s] = written(b, s)
  <2> HIDE DEF written
  <2> QED BY <1>1, <1>2
<1>5. DOMAIN store' = Layer /\ \A m \in Layer : m # l => store'[m] = store[m]
  <2> HIDE DEF written
  <2> QED BY <1>1, <1>2

\* The tokens reserved at the place of the k-th token of table u.
<1>6. ASSUME NEW u \in Table, NEW k \in 1..length[u],
             NEW j \in ks(Where(u, k).block, Where(u, k).slot)
      PROVE  u = t /\ j \in 1..n /\ k = Offset(t) + j
  <2>1. /\ j \in 1..n
        /\ positions[t][j]
             = [block |-> Where(u, k).block, slot |-> Where(u, k).slot]
    BY <1>3
  <2>2. [block |-> Where(u, k).block, slot |-> Where(u, k).slot] = Where(u, k)
    BY DEF Where
  <2>3. PICK i \in 1..length[t] : i = Offset(t) + j
    BY <1>3, <2>1
  <2>4. Where(t, i) = Where(u, k)
    BY <1>1, <2>1, <2>2, <2>3 DEF PlacesShape, n
  <2>5. u = t
    BY <1>1, <2>4, WhereIsApart
  <2> QED BY <1>1, <2>1, <2>3, <2>4, <2>5, WhereIsUnique
<1>7. ASSUME NEW u \in Table, NEW k \in 1..length[u],
             u # t \/ k <= Offset(t)
      PROVE  store'[l][Where(u, k).block][Where(u, k).slot]
               = Stored(l, Where(u, k))
  <2> DEFINE b == Where(u, k).block
             s == Where(u, k).slot
  <2>1. b \in Block /\ s \in Slot
    BY <1>1, WhereInBlocks
  <2>2. ks(b, s) = {}
    <3>1. ASSUME NEW j \in ks(b, s) PROVE FALSE
      <4>1. u = t /\ j \in 1..n /\ k = Offset(t) + j
        BY <1>6
      <4> QED BY <1>3, <1>7, <4>1
    <3> QED BY <3>1
  <2> QED BY <1>4, <2>1, <2>2 DEF Stored
<1>8. ASSUME NEW k \in 1..length[t], k > Offset(t)
      PROVE  store'[l][Where(t, k).block][Where(t, k).slot] = OwnEntry(t, k)
  <2> DEFINE b == Where(t, k).block
             s == Where(t, k).slot
  <2>1. b \in Block /\ s \in Slot
    BY <1>1, WhereInBlocks
  <2>2. PICK j \in 1..n : k = Offset(t) + j
    <3>1. k - Offset(t) \in 1..n /\ k = Offset(t) + (k - Offset(t))
      BY <1>3, <1>8
    <3> QED BY <3>1
  <2>3. j \in ks(b, s)
    <3>1. positions[t][j] = Where(t, k)
      BY <1>1, <2>2 DEF PlacesShape, n
    <3>2. Where(t, k) = [block |-> b, slot |-> s]
      BY DEF Where
    <3> QED BY <1>3, <3>1, <3>2
  <2>4. \A i \in ks(b, s) : i = j
    <3>1. ASSUME NEW i \in ks(b, s) PROVE i = j
      <4>1. i \in 1..n /\ k = Offset(t) + i
        BY <1>6
      <4> QED BY <1>3, <2>2, <4>1
    <3> QED BY <3>1
  <2>5. ks(b, s) = {j} /\ j <= j
    BY <2>3, <2>4
  <2>6. (CHOOSE i \in {j} : \A h \in {j} : h <= i) = j
    BY <2>5
  <2>7. written(b, s) = Entry(t, j)
    BY <2>5, <2>6
  <2>8. Entry(t, j) = OwnEntry(t, k)
    <3>1. Offset(t) + j - 1 = k - 1
      BY <1>3, <2>2
    <3> QED BY <3>1 DEF Entry, OwnEntry
  <2> QED BY <1>4, <2>1, <2>7, <2>8
<1> QED BY <1>1, <1>5, <1>7, <1>8 DEF l

\* How the call on a table goes on after a layer, and what is then written.
LEMMA AppendProgress ==
  ASSUME PagedInv, NEW t \in Table, AppendLayer(t)
  PROVE  /\ CallShape(t)' /\ PlacesShape(t)'
         /\ \A m \in Layer :
              Written(t, m)' = IF m <= layer[t] THEN length[t] ELSE Offset(t)
         /\ \A m \in Layer :
              Written(t, m) = IF m < layer[t] THEN length[t] ELSE Offset(t)
<1> DEFINE l == layer[t]
           n == Len(positions[t])
<1>1. /\ TypeOK /\ CallShape(t) /\ PlacesShape(t) /\ l \in Layer
      /\ NumLayers \in Nat \ {0}
  BY PagedAssumption DEF PagedInv, TypeAndFit, StoreInv, TypeOK
<1>2. /\ pc[t] = "forward" /\ n = fed[t] /\ fed[t] \in Nat /\ fed[t] > 0
      /\ ids_len[t] \in Nat /\ fed[t] <= ids_len[t] /\ length[t] \in Nat
      /\ length[t] = Offset(t) + n
  BY <1>1 DEF AppendLayer, CallShape, TypeOK
<1> HIDE DEF n
<1>3. length[t] = ids_len[t] /\ length[t] - n = Offset(t) /\ Offset(t) \in Nat
  BY <1>2 DEF Offset
<1>4. \A m \in Layer : Written(t, m) = IF m < l THEN length[t] ELSE Offset(t)
  BY <1>2, <1>3 DEF Written, n
<1>5. block_ids' = block_ids /\ length' = length
  BY DEF AppendLayer, table
<1>6. CASE l # NumLayers
  <2>1. /\ UNCHANGED <<ids_len, fed, positions, pc>>
        /\ layer'[t] = l + 1
    BY <1>1, <1>6 DEF AppendLayer, TypeOK
  <2>2. CallShape(t)'
    BY <1>1, <1>2, <1>5, <2>1 DEF CallShape, Offset
  <2>3. PlacesShape(t)'
    BY <1>1, <1>5, <2>1 DEF PlacesShape, Offset, Where
  <2>4. ASSUME NEW m \in Layer
        PROVE  Written(t, m)' = IF m <= l THEN length[t] ELSE Offset(t)
    <3>1. m < l + 1 <=> m <= l
      BY <1>1 DEF Layer
    <3>2. Written(t, m)' = IF m < l + 1 THEN length[t] ELSE length[t] - n
      BY <1>2, <1>5, <2>1 DEF Written, n
    <3> QED BY <1>3, <3>1, <3>2
  <2> QED BY <1>4, <2>2, <2>3, <2>4
<1>7. CASE l = NumLayers
  <2>1. /\ ids_len'[t] = ids_len[t] + 1 /\ fed'[t] = 1 /\ positions'[t] = <<>>
        /\ pc'[t] = (IF decodes[t] = 0 THEN "done" ELSE "reserve")
        /\ layer'[t] = 1
    BY <1>1, <1>7 DEF AppendLayer, TypeOK
  <2>2. Len(positions'[t]) = 0
    BY <2>1
  <2>3. CallShape(t)'
    <3>1. length'[t] = Offset(t)' + Len(positions'[t])
      BY <1>2, <1>3, <1>5, <2>1, <2>2 DEF Offset
    <3>2. fed'[t] <= ids_len'[t]
      BY <1>2, <2>1
    <3> QED BY <2>1, <2>2, <3>1, <3>2 DEF CallShape
  <2>4. PlacesShape(t)'
    BY <2>2 DEF PlacesShape
  <2>5. ASSUME NEW m \in Layer
        PROVE  Written(t, m)' = IF m <= l THEN length[t] ELSE Offset(t)
    <3>1. m <= l
      BY <1>7 DEF Layer
    <3>2. Written(t, m)' = length'[t] - Len(positions'[t])
      BY <2>1 DEF Written
    <3>3. length[t] - 0 = length[t]
      BY <1>2
    <3> QED BY <1>5, <2>2, <3>1, <3>2, <3>3
  <2> QED BY <1>4, <2>3, <2>4, <2>5
<1> QED BY <1>6, <1>7 DEF l

\* A layer writes its entries where the table reserved them, in no slot that
\* another table reads.
LEMMA AppendStoreInv ==
  ASSUME PagedInv, NEW t \in Table, AppendLayer(t)
  PROVE  StoreInv'
<1> DEFINE l == layer[t]
<1>1. /\ TypeOK /\ TypeAndFit /\ StoreInv
      /\ \A u \in Table : CallShape(u) /\ PlacesShape(u) /\ StoreShape(u)
  BY DEF PagedInv, TypeAndFit, StoreInv
<1>2. /\ l \in Layer /\ DOMAIN store' = Layer
      /\ \A m \in Layer : m # l => store'[m] = store[m]
  BY AppendWrites
<1>3. block_ids' = block_ids /\ length' = length /\ use' = use
  BY DEF AppendLayer, table
<1>4. \A u \in Table : /\ \A m \in Layer : Written(u, m) \in Nat
                                           /\ Written(u, m) <= length[u]
                       /\ length[u] \in Nat /\ Offset(u) \in Nat
                       /\ Offset(u) <= length[u]
  <2> TAKE u \in Table
  <2>1. /\ \A m \in Layer : Written(u, m) \in Nat /\ Written(u, m) <= length[u]
        /\ Offset(u) \in Nat /\ Len(positions[u]) \in Nat
        /\ length[u] = Offset(u) + Len(positions[u])
    BY <1>1, TokensInTable
  <2> QED BY <2>1
<1>5. \A u \in Table : \A k \in Nat :
        Where(u, k)' = Where(u, k) /\ OwnEntry(u, k)' = OwnEntry(u, k)
  BY <1>3 DEF Where, OwnEntry
<1>6. ASSUME NEW u \in Table, u # t
      PROVE  CallShape(u)' /\ PlacesShape(u)' /\ StoreShape(u)'
  <2>1. /\ pc'[u] = pc[u] /\ positions'[u] = positions[u] /\ fed'[u] = fed[u]
        /\ ids_len'[u] = ids_len[u] /\ layer'[u] = layer[u]
    <3>1. CASE l = NumLayers
      BY <1>1, <1>6, <3>1 DEF AppendLayer, TypeOK
    <3>2. CASE l # NumLayers
      BY <1>1, <1>6, <3>2 DEF AppendLayer, TypeOK
    <3> QED BY <3>1, <3>2
  <2>2. /\ CallShape(u)' /\ PlacesShape(u)'
        /\ \A m \in Layer : Written(u, m)' = Written(u, m)
    BY <1>1, <1>3, <2>1, OtherTable
  <2>3. ASSUME NEW m \in Layer, NEW k \in 1..Written(u, m)
        PROVE  Stored(m, Where(u, k))' = OwnEntry(u, k)'
    <3>1. k \in 1..length[u] /\ k \in Nat
      BY <1>4
    <3>2. Stored(m, Where(u, k)) = OwnEntry(u, k)
      BY <1>1 DEF StoreShape
    <3>3. store'[m][Where(u, k).block][Where(u, k).slot]
            = Stored(m, Where(u, k))
      <4>1. CASE m = l
        BY <1>6, <3>1, <4>1, AppendWrites
      <4>2. CASE m # l
        BY <1>2, <4>2 DEF Stored
      <4> QED BY <4>1, <4>2
    <3> QED BY <1>5, <3>1, <3>2, <3>3 DEF Stored
  <2> QED BY <2>2, <2>3 DEF StoreShape, Layer
<1>7. CallShape(t)' /\ PlacesShape(t)'
  BY AppendProgress
<1>8. ASSUME NEW m \in Layer, NEW k \in 1..Written(t, m)'
      PROVE  Stored(m, Where(t, k))' = OwnEntry(t, k)'
  <2>1. /\ Written(t, m)' = IF m <= l THEN length[t] ELSE Offset(t)
        /\ Written(t, m) = IF m < l THEN length[t] ELSE Offset(t)
    BY AppendProgress
  <2>2. m \in Nat /\ l \in Nat
    BY <1>2 DEF Layer
  <2>3. k \in 1..length[t] /\ k \in Nat
    <3>1. Written(t, m)' = length[t] \/ Written(t, m)' = Offset(t)
      BY <2>1
    <3> QED BY <1>4, <3>1
  <2>4. store'[m][Where(t, k).block][Where(t, k).slot] = OwnEntry(t, k)
    <3>1. CASE m = l /\ k > Offset(t)
      BY <2>3, <3>1, AppendWrites
    <3>2. CASE m = l /\ k <= Offset(t)
      <4>1. k \in 1..Written(t, m)
        BY <1>4, <2>1, <2>2, <2>3, <3>2
      <4>2. Stored(m, Where(t, k)) = OwnEntry(t, k)
        BY <1>1, <4>1 DEF StoreShape
      <4> QED BY <2>3, <3>2, <4>2, AppendWrites
    <3>3. CASE m # l
      <4>1. Written(t, m)' = Written(t, m)
        BY <2>1, <2>2, <3>3
      <4>2. Stored(m, Where(t, k)) = OwnEntry(t, k)
        BY <1>1, <4>1 DEF StoreShape
      <4> QED BY <1>2, <3>3, <4>2 DEF Stored
    <3> QED BY <1>4, <2>3, <3>1, <3>2, <3>3
  <2> QED BY <1>5, <2>3, <2>4 DEF Stored
<1>9. StoreShape(t)'
  BY <1>8 DEF StoreShape, Layer
<1> QED BY <1>2, <1>6, <1>7, <1>9 DEF StoreInv, Layer

\* Every step keeps the invariant of the paged cache.
LEMMA NextPagedInv == PagedInv /\ [Next]_vars => PagedInv'
<1> SUFFICES ASSUME PagedInv, [Next]_vars PROVE PagedInv'
  OBVIOUS
<1>1. TypeAndFit /\ TypeOK /\ TightFit /\ BlocksOnce /\ StoreInv
  BY DEF PagedInv, TypeAndFit
<1>2. TypeAndFit' /\ BlocksOnce'
  BY <1>1, NextTypeAndFit, NextBlocksOnce
<1>3. ASSUME NEW t \in Table, Step(t) PROVE StoreInv'
  <2>1. CASE AppendToken(t)
    <3>1. block_ids[t] \in Seq(Block) /\ Len(block_ids[t]) * BlockSize > length[t]
      BY <1>1, <2>1 DEF TypeOK, AppendToken, HasRoom, Capacity
    <3>2. length[t] \in Nat /\ Len(block_ids[t]) * BlockSize \in Nat
      <4>1. Len(block_ids[t]) \in Nat /\ BlockSize \in Nat
        BY <3>1, LenProperties, PagedAssumption
      <4> QED BY <1>1, <4>1 DEF TypeOK
    <3>3. length[t] < Len(block_ids[t]) * BlockSize
      <4> DEFINE c == Len(block_ids[t]) * BlockSize
      <4> HIDE DEF c
      <4>1. c > length[t] /\ c \in Nat
        BY <3>1, <3>2 DEF c
      <4>2. length[t] < c
        BY <3>2, <4>1
      <4> QED BY <4>2 DEF c
    <3> QED BY <2>1, <3>1, <3>3, PlaceStoreInv DEF AppendToken
  <2>2. CASE AppendTokenAllocates(t)
    <3> DEFINE ids == Append(block_ids[t], Last(free_blocks))
               c == Len(block_ids[t]) * BlockSize
    <3>1. /\ block_ids[t] \in Seq(Block) /\ Last(free_blocks) \in Block
          /\ length[t] \in Nat /\ BlockSize \in Nat \ {0}
      BY <1>1, <2>2, FrontLastTypes, PagedAssumption
         DEF TypeOK, AppendTokenAllocates
    <3>2. /\ ids \in Seq(Block) /\ Len(ids) = Len(block_ids[t]) + 1
          /\ \A i \in 1..Len(block_ids[t]) : ids[i] = block_ids[t][i]
      BY <3>1, AppendProperties
    <3>3. c \in Nat /\ Len(block_ids[t]) \in Nat
      BY <3>1, LenProperties
    <3>4. Len(ids) * BlockSize = c + BlockSize
      BY <3>1, <3>2, <3>3, OneMoreBlock
    <3>5. length[t] <= c
      BY <1>1 DEF TightFit, Capacity
    <3>6. Place(t, ids) /\ pc[t] = "reserve"
      BY <2>2 DEF AppendTokenAllocates
    <3> HIDE DEF ids, c
    <3>7. length[t] < Len(ids) * BlockSize
      BY <3>1, <3>3, <3>4, <3>5
    <3> QED BY <3>2, <3>6, <3>7, PlaceStoreInv
  <2>3. CASE GeneratePaged(t)
    BY <2>3, GenerateStoreInv
  <2>4. CASE AppendTokenRaises(t)
    BY <2>4, RaiseStoreInv
  <2>5. CASE AppendLayer(t)
    BY <2>5, AppendStoreInv
  <2>6. CASE Free(t)
    BY <2>6, FreeStoreInv
  <2> QED BY <1>3, <2>1, <2>2, <2>3, <2>4, <2>5, <2>6 DEF Step
<1>4. ASSUME UNCHANGED vars PROVE StoreInv'
  <2>1. \A t \in Table : CallShape(t) /\ PlacesShape(t) /\ StoreShape(t)
    BY <1>1 DEF StoreInv
  <2>2. UNCHANGED <<table, store, call, use>>
    BY <1>4 DEF vars
  <2>3. \A t \in Table : CallShape(t)' /\ PlacesShape(t)' /\ StoreShape(t)'
    BY <2>1, <2>2, OtherTable DEF table, call
  <2> QED BY <1>1, <2>2, <2>3 DEF StoreInv, Layer
<1>5. StoreInv'
  BY <1>3, <1>4 DEF Next
<1> QED BY <1>2, <1>5 DEF PagedInv

\* The inductive invariant of the paged cache: who owns the blocks, where the
\* tokens are, and which slots hold what (append_token, append, free).
THEOREM PagedCorrect == Spec => []PagedInv
<1>1. Init => PagedInv
  BY InitTypeAndFit, InitBlocksOnce, InitStoreInv DEF PagedInv
<1> QED BY <1>1, NextPagedInv, PTL DEF Spec

-----------------------------------------------------------------------------
(* What gather reads *)

\* gather reads the slots of the tokens in their order.
LEMMA GatherValue ==
  ASSUME TypeAndFit, NEW t \in Table, NEW l
  PROVE  Gather(l, t) = [k \in 1..length[t] |-> Stored(l, Where(t, k))]
<1> DEFINE flat == [k \in 1..Capacity(t) |-> Stored(l, Where(t, k))]
<1>1. length[t] \in Nat
  BY DEF TypeAndFit, TypeOK
<1>2. \A k \in 1..length[t] : flat[k] = Stored(l, Where(t, k))
  BY WhereInBlocks
<1>3. Gather(l, t) = SubSeq(flat, 1, length[t])
  BY DEF Gather
<1> HIDE DEF flat
<1>4. Gather(l, t) = [k \in 1..length[t] |-> flat[k]]
  BY <1>1, <1>3, PrefixValue
<1> QED BY <1>2, <1>4

\* What gather reads is told by the invariant.
LEMMA GatherInvariant == PagedInv => GatherIsContiguous
<1> SUFFICES ASSUME PagedInv, NEW t \in Table, pc[t] \in {"forward", "done"},
                    NEW l \in IF pc[t] = "done" THEN Layer ELSE 1..(layer[t] - 1)
             PROVE  Gather(l, t) = [k \in 1..length[t] |->
                                      [owner |-> t, use |-> use[t], pos |-> k - 1]]
  BY DEF GatherIsContiguous
<1>1. /\ TypeAndFit /\ CallShape(t) /\ StoreShape(t)
      /\ layer[t] \in Layer /\ length[t] \in Nat /\ NumLayers \in Nat
  BY PagedAssumption DEF PagedInv, StoreInv, TypeAndFit, TypeOK
<1>2. l \in Layer /\ Written(t, l) = length[t]
  <2>1. CASE pc[t] = "done"
    <3>1. Len(positions[t]) = 0
      BY <1>1, <2>1 DEF CallShape
    <3>2. Written(t, l) = length[t] - Len(positions[t])
      BY <2>1 DEF Written
    <3>3. length[t] - 0 = length[t]
      BY <1>1
    <3> QED BY <2>1, <3>1, <3>2, <3>3
  <2>2. CASE pc[t] = "forward"
    <3>1. l \in 1..(layer[t] - 1)
      BY <2>2
    <3>2. l \in Layer /\ l < layer[t]
      BY <1>1, <3>1 DEF Layer
    <3> QED BY <2>2, <3>2 DEF Written
  <2> QED BY <2>1, <2>2
<1>3. \A k \in 1..length[t] :
        Stored(l, Where(t, k)) = [owner |-> t, use |-> use[t], pos |-> k - 1]
  BY <1>1, <1>2 DEF StoreShape, OwnEntry
<1> QED BY <1>1, <1>3, GatherValue

\* Attention over scattered blocks reads what a contiguous cache would hold
\* (PagedKVCache.gather), whatever the blocks held before.
THEOREM GatherIsRight == Spec => []GatherIsContiguous
  BY PagedCorrect, GatherInvariant, PTL

-----------------------------------------------------------------------------
(* The refinement of ContiguousCache *)

\* A table read as a contiguous cache, by what is written of it.
ContentsInv ==
  \A t \in Table :
    /\ Contents(t) = [l \in Layer |-> EntriesFrom(t, use[t], 0, Written(t, l))]
    /\ \A l \in Layer : Written(t, l) \in Nat

\* The contents of a table are told by the invariant.
LEMMA ContentsValue == PagedInv => ContentsInv
<1> SUFFICES ASSUME PagedInv, NEW t \in Table
             PROVE  Contents(t)
                      = [l \in Layer |-> EntriesFrom(t, use[t], 0, Written(t, l))]
  BY TokensInTable DEF ContentsInv, PagedInv, StoreInv
<1>1. TypeAndFit /\ CallShape(t) /\ StoreShape(t) /\ length[t] \in Nat
  BY DEF PagedInv, StoreInv, TypeAndFit, TypeOK
<1> DEFINE read(l) == SubSeq(Gather(l, t), 1, Written(t, l))
<1>2. ASSUME NEW l \in Layer
      PROVE  read(l) = EntriesFrom(t, use[t], 0, Written(t, l))
  <2> DEFINE w == Written(t, l)
  <2>1. w \in Nat /\ w <= length[t]
    BY <1>1, TokensInTable
  <2>2. \A k \in 1..w : Stored(l, Where(t, k)) = OwnEntry(t, k)
    BY <1>1 DEF StoreShape
  <2> HIDE DEF w
  <2>3. read(l) = [k \in 1..w |-> Gather(l, t)[k]]
    BY <2>1, PrefixValue DEF w
  <2>4. \A k \in 1..w : Gather(l, t)[k] = OwnEntry(t, k)
    <3>1. Gather(l, t) = [k \in 1..length[t] |-> Stored(l, Where(t, k))]
      BY <1>1, GatherValue
    <3>2. \A k \in 1..w : k \in 1..length[t]
      BY <1>1, <2>1
    <3> QED BY <2>2, <3>1, <3>2
  <2>5. \A k \in 1..w : OwnEntry(t, k) = [owner |-> t, use |-> use[t], pos |-> 0 + k - 1]
    BY DEF OwnEntry
  <2>6. read(l) = [k \in 1..w |-> [owner |-> t, use |-> use[t], pos |-> 0 + k - 1]]
    BY <2>3, <2>4, <2>5
  <2> QED BY <2>6 DEF EntriesFrom, w
<1>3. Contents(t) = [l \in Layer |-> read(l)]
  BY DEF Contents
<1> HIDE DEF read
<1> QED BY <1>2, <1>3

\* A table whose use and whose written entries a step keeps.
LEMMA ContentsKept ==
  ASSUME ContentsInv, ContentsInv', NEW t \in Table, use'[t] = use[t],
         \A l \in Layer : Written(t, l)' = Written(t, l)
  PROVE  Contents(t)' = Contents(t)
<1>1. Contents(t) = [l \in Layer |-> EntriesFrom(t, use[t], 0, Written(t, l))]
  BY DEF ContentsInv
<1>2. Contents(t)' = [l \in Layer |-> EntriesFrom(t, use'[t], 0, Written(t, l)')]
  BY DEF ContentsInv, Layer, EntriesFrom
<1> QED BY <1>1, <1>2

\* Nothing written is an empty cache.
LEMMA NoEntries == \A t, u : EntriesFrom(t, u, 0, 0) = <<>>
  BY DEF EntriesFrom

\* Tables start as empty contiguous caches.
LEMMA InitRefines == Init /\ ContentsInv => Contiguous!Init
<1> SUFFICES ASSUME Init, ContentsInv PROVE Contiguous!Init
  OBVIOUS
<1>1. ASSUME NEW t \in Table PROVE Contents(t) = [l \in Layer |-> <<>>]
  <2>1. /\ length[t] = 0 /\ pc[t] = "idle" /\ positions[t] = <<>>
    BY DEF Init
  <2>2. \A l \in Layer : Written(t, l) = length[t] - Len(positions[t])
    BY <2>1 DEF Written
  <2>3. Len(positions[t]) = 0 /\ 0 - 0 = 0
    BY <2>1
  <2>4. \A l \in Layer : Written(t, l) = 0
    BY <2>1, <2>2, <2>3
  <2> QED BY <2>4, NoEntries DEF ContentsInv
<1> QED BY <1>1 DEF Contiguous!Init, Contiguous!Layer, Layer, Init

\* A layer's write extends the cache of that layer.
LEMMA AppendRefines ==
  ASSUME PagedInv, ContentsInv, ContentsInv', NEW t \in Table, AppendLayer(t)
  PROVE  Contiguous!Extend(t, layer[t])
<1>a. /\ TypeOK /\ layer[t] \in Layer /\ use' = use /\ length[t] \in Nat
      /\ Len(positions[t]) = fed[t] /\ fed[t] > 0 /\ fed[t] \in Nat
      /\ length[t] = Offset(t) + Len(positions[t])
  BY DEF PagedInv, StoreInv, CallShape, TypeAndFit, TypeOK, AppendLayer
<1>b. Offset(t) \in Nat
  BY TokensInTable DEF PagedInv, StoreInv
<1> PICK l \in Layer : l = layer[t]
  BY <1>a
<1> PICK o \in Nat : o = Offset(t)
  BY <1>b
<1> PICK len \in Nat : len = length[t]
  BY <1>a
<1> DEFINE n == len - o
           kv == [u \in Table |-> Contents(u)]
           kv1 == [u \in Table |-> Contents(u)']
<1>1. TypeOK /\ use' = use
  BY <1>a
<1>2. n \in Nat /\ n > 0 /\ o + n = len
  BY <1>a
<1>3. /\ \A m \in Layer : Written(t, m)' = IF m <= l THEN len ELSE o
      /\ \A m \in Layer : Written(t, m) = IF m < l THEN len ELSE o
  BY AppendProgress
<1>4. /\ Contents(t) = [m \in Layer |-> EntriesFrom(t, use[t], 0, Written(t, m))]
      /\ Contents(t)' = [m \in Layer |-> EntriesFrom(t, use[t], 0, Written(t, m)')]
  BY <1>1 DEF ContentsInv, Layer, EntriesFrom
<1>5. l \in Nat /\ \A m \in Layer : m \in Nat
  BY <1>1 DEF Layer
<1>6. /\ Contents(t)[l] = EntriesFrom(t, use[t], 0, o)
      /\ Contents(t)'[l] = EntriesFrom(t, use[t], 0, len)
  <2>1. Written(t, l) = o /\ Written(t, l)' = len
    BY <1>1, <1>3, <1>5
  <2> QED BY <1>1, <1>4, <2>1
<1>7. \A m \in Layer : m # l => Contents(t)'[m] = Contents(t)[m]
  <2> TAKE m \in Layer
  <2>1. m # l => Written(t, m)' = Written(t, m)
    <3>1. m # l => (m <= l <=> m < l)
      BY <1>5
    <3> QED BY <1>3, <3>1, Zenon
  <2> QED BY <1>4, <2>1
<1> HIDE DEF n, kv, kv1
<1>8. Len(Contents(t)[l]) = o /\ Len(Contents(t)'[l]) = len
  <2>1. 0 \in Nat
    OBVIOUS
  <2>2. /\ Len(EntriesFrom(t, use[t], 0, o)) = o
        /\ Len(EntriesFrom(t, use[t], 0, len)) = len
    BY <2>1, EntriesLen
  <2> QED BY <1>6, <2>2
<1>9. \A u \in Table : u # t => Contents(u)' = Contents(u)
  <2> SUFFICES ASSUME NEW u \in Table, u # t PROVE Contents(u)' = Contents(u)
    OBVIOUS
  <2>1. /\ block_ids'[u] = block_ids[u] /\ length'[u] = length[u]
        /\ pc'[u] = pc[u] /\ positions'[u] = positions[u] /\ fed'[u] = fed[u]
        /\ ids_len'[u] = ids_len[u] /\ layer'[u] = layer[u] /\ use'[u] = use[u]
    <3>1. CASE layer[t] = NumLayers
      BY <1>1, <3>1 DEF AppendLayer, TypeOK, table
    <3>2. CASE layer[t] # NumLayers
      BY <1>1, <3>2 DEF AppendLayer, TypeOK, table
    <3> QED BY <3>1, <3>2
  <2>2. \A m \in Layer : Written(u, m)' = Written(u, m)
    BY <2>1, OtherTable
  <2> QED BY <2>1, <2>2, ContentsKept
<1> DEFINE following == [k \in 1..n |->
                          [owner |-> t, use |-> use[t], pos |-> o + k - 1]]
<1>10. Contents(t)'[l] = Contents(t)[l] \o following
  <2>1. EntriesFrom(t, use[t], 0, o) \o EntriesFrom(t, use[t], o, n)
          = EntriesFrom(t, use[t], 0, len)
    BY <1>2, EntriesFollow
  <2> QED BY <1>6, <2>1 DEF EntriesFrom
<1>11. Contiguous!Following(t, l, n) = following
  BY <1>8 DEF Contiguous!Following
<1>12. kv1 = [kv EXCEPT ![t][l] = @ \o Contiguous!Following(t, l, n)]
  <2> HIDE DEF following
  <2>1. Contents(t)' = [Contents(t) EXCEPT ![l] = @ \o following]
    BY <1>1, <1>4, <1>7, <1>10
  <2> QED BY <1>9, <1>11, <2>1 DEF kv, kv1
<1>13. l > 1 => Len(Contents(t)[l]) + n = Len(Contents(t)[l - 1])
  <2> SUFFICES ASSUME l > 1 PROVE o + n = Len(Contents(t)[l - 1])
    BY <1>8
  <2>1. l - 1 \in Layer /\ l - 1 < l
    BY <1>1, <1>5, PagedAssumption DEF Layer
  <2>2. Contents(t)[l - 1] = EntriesFrom(t, use[t], 0, len)
    BY <1>3, <1>4, <2>1
  <2>3. 0 \in Nat
    OBVIOUS
  <2>4. Len(EntriesFrom(t, use[t], 0, len)) = len
    BY <2>3, EntriesLen
  <2> QED BY <1>2, <2>2, <2>4
<1>14. Len(kv1[t][l]) - Len(kv[t][l]) = n
  BY <1>8 DEF n, kv, kv1
<1> QED BY <1>1, <1>2, <1>8, <1>12, <1>13, <1>14 DEF Contiguous!Extend, kv, kv1

\* Freeing a table clears its cache.
LEMMA FreeRefines ==
  ASSUME PagedInv, ContentsInv, ContentsInv', NEW t \in Table, Free(t)
  PROVE  Contiguous!Clear(t)
<1>1. TypeOK /\ layer[t] = 1
  BY DEF PagedInv, StoreInv, CallShape, TypeAndFit, Free
<1>2. /\ use' = [use EXCEPT ![t] = @ + 1] /\ pc'[t] = "idle"
      /\ positions'[t] = <<>> /\ length'[t] = 0
  BY <1>1 DEF Free, FreeTable, TypeOK
<1>3. Contents(t)' = [l \in Layer |-> <<>>]
  <2>1. \A l \in Layer : Written(t, l)' = length'[t] - Len(positions'[t])
    BY <1>2 DEF Written
  <2>2. Len(positions'[t]) = 0 /\ 0 - 0 = 0
    BY <1>2
  <2>3. \A l \in Layer : Written(t, l)' = 0
    BY <1>2, <2>1, <2>2
  <2>4. Contents(t)' = [l \in Layer |-> EntriesFrom(t, use'[t], 0, Written(t, l)')]
    BY DEF ContentsInv, Layer, EntriesFrom
  <2> QED BY <2>3, <2>4, NoEntries
<1>4. \A u \in Table : u # t => Contents(u)' = Contents(u)
  <2> SUFFICES ASSUME NEW u \in Table, u # t PROVE Contents(u)' = Contents(u)
    OBVIOUS
  <2>1. /\ block_ids'[u] = block_ids[u] /\ length'[u] = length[u]
        /\ pc'[u] = pc[u] /\ positions'[u] = positions[u] /\ fed'[u] = fed[u]
        /\ ids_len'[u] = ids_len[u] /\ layer'[u] = layer[u] /\ use'[u] = use[u]
    BY <1>1 DEF Free, FreeTable, TypeOK
  <2>2. \A m \in Layer : Written(u, m)' = Written(u, m)
    BY <2>1, OtherTable
  <2> QED BY <2>1, <2>2, ContentsKept
<1> QED BY <1>2, <1>3, <1>4 DEF Contiguous!Clear, Contiguous!Layer, Layer

\* A step that writes nothing and frees nothing is none of ContiguousCache.
LEMMA NextRefines ==
  PagedInv /\ ContentsInv /\ ContentsInv' /\ [Next]_vars
    => [Contiguous!Next]_(Contiguous!vars)
<1> SUFFICES ASSUME PagedInv, ContentsInv, ContentsInv', [Next]_vars
             PROVE  [Contiguous!Next]_(Contiguous!vars)
  OBVIOUS
<1>1. /\ TypeOK /\ \A t \in Table : CallShape(t)
  BY DEF PagedInv, StoreInv, TypeAndFit
<1>2. ASSUME use' = use,
             \A t \in Table : \A l \in Layer : Written(t, l)' = Written(t, l)
      PROVE  UNCHANGED Contiguous!vars
  <2>1. \A t \in Table : Contents(t)' = Contents(t)
    BY <1>2, ContentsKept
  <2> QED BY <1>2, <2>1 DEF Contiguous!vars
<1>3. ASSUME NEW t \in Table, Step(t)
      PROVE  [Contiguous!Next]_(Contiguous!vars)
  <2>1. CASE AppendLayer(t)
    <3>1. layer[t] \in Contiguous!Layer
      BY <1>1 DEF TypeOK, Layer, Contiguous!Layer
    <3>2. Contiguous!Extend(t, layer[t])
      BY <2>1, AppendRefines
    <3> QED BY <3>1, <3>2 DEF Contiguous!Next
  <2>2. CASE Free(t)
    <3>1. Contiguous!Clear(t)
      BY <2>2, FreeRefines
    <3> QED BY <3>1 DEF Contiguous!Next
  <2>3. ASSUME NEW ids, Place(t, ids), pc[t] = "reserve"
        PROVE  UNCHANGED Contiguous!vars
    <3>1. \A u \in Table : \A l \in Layer : Written(u, l)' = Written(u, l)
      <4> SUFFICES ASSUME NEW u \in Table
                   PROVE  \A l \in Layer : Written(u, l)' = Written(u, l)
        OBVIOUS
      <4>1. CASE u = t
        BY <2>3, <4>1, PlaceWritten
      <4>2. CASE u # t
        <5>1. /\ length'[u] = length[u] /\ pc'[u] = pc[u]
              /\ positions'[u] = positions[u] /\ layer'[u] = layer[u]
          BY <1>1, <2>3, <4>2 DEF Place, TypeOK
        <5> QED BY <5>1 DEF Written
      <4> QED BY <4>1, <4>2
    <3>2. use' = use
      BY <2>3 DEF Place
    <3> QED BY <1>2, <3>1, <3>2
  <2>4. CASE AppendToken(t)
    BY <2>3, <2>4 DEF AppendToken
  <2>5. CASE AppendTokenAllocates(t)
    BY <2>3, <2>5 DEF AppendTokenAllocates
  <2>6. ASSUME UNCHANGED <<length, positions, layer, use>>,
               pc[t] \in {"idle", "reserve"}, pc'[t] # "forward",
               \A u \in Table : u # t => pc'[u] = pc[u]
        PROVE  UNCHANGED Contiguous!vars
    <3>1. \A u \in Table : \A l \in Layer : Written(u, l)' = Written(u, l)
      BY <2>6 DEF Written
    <3> QED BY <1>2, <2>6, <3>1
  <2>7. CASE GeneratePaged(t)
    <3>1. /\ UNCHANGED <<length, positions, layer, use>>
          /\ pc[t] = "idle" /\ pc'[t] = "reserve"
          /\ \A u \in Table : u # t => pc'[u] = pc[u]
      BY <1>1, <2>7 DEF GeneratePaged, TypeOK, table
    <3> QED BY <2>6, <3>1
  <2>8. CASE AppendTokenRaises(t)
    <3>1. /\ UNCHANGED <<length, positions, layer, use>>
          /\ pc[t] = "reserve" /\ pc'[t] = "raised"
          /\ \A u \in Table : u # t => pc'[u] = pc[u]
      BY <1>1, <2>8 DEF AppendTokenRaises, TypeOK, table
    <3> QED BY <2>6, <3>1
  <2> QED BY <1>3, <2>1, <2>2, <2>4, <2>5, <2>7, <2>8 DEF Step
<1>4. CASE UNCHANGED vars
  <2>1. use' = use
    BY <1>4 DEF vars
  <2>2. \A t \in Table : \A l \in Layer : Written(t, l)' = Written(t, l)
    BY <1>4 DEF vars, table, call, Written
  <2> QED BY <1>2, <2>1, <2>2
<1> QED BY <1>3, <1>4 DEF Next

\* Paged storage is invisible: seen through gather, the tables are contiguous
\* caches (generate_paged against generate), across exhaustion of the pool in
\* the middle of a call, freeing and reuse.
THEOREM PagedImplementsContiguous == Spec => ImplementsContiguous
<1>1. Spec => []PagedInv
  BY PagedCorrect
<1>2. PagedInv => ContentsInv
  BY ContentsValue
<1>3. Init => PagedInv
  BY InitTypeAndFit, InitBlocksOnce, InitStoreInv DEF PagedInv
<1>4. Init => Contiguous!Init
  BY <1>2, <1>3, InitRefines
<1>5. PagedInv /\ ContentsInv /\ ContentsInv' /\ [Next]_vars
        => [Contiguous!Next]_(Contiguous!vars)
  BY NextRefines
<1> QED BY <1>1, <1>2, <1>4, <1>5, PTL DEF Spec, ImplementsContiguous, Contiguous!Spec
=============================================================================
