----------------------------- MODULE PagedCache -----------------------------
(***************************************************************************)
(* The paged K/V cache: BlockPool, BlockTable and PagedKVCache of          *)
(* src/src/vkllm/paged_cache.py, driven as Model.generate_paged of         *)
(* src/src/vkllm/model.py drives them: reserve a slot for every token to   *)
(* feed, then, layer by layer, write the new K/V and gather the whole      *)
(* sequence for the attention.                                             *)
(*                                                                         *)
(* Several requests, each with its block table, share one PagedKVCache.    *)
(* Their calls interleave at the calls of append_token and append, a       *)
(* superset of the serial calls of generate_paged; the interesting state   *)
(* is the same: the free list is scattered and blocks carry what their     *)
(* last owner wrote.                                                       *)
(*                                                                         *)
(* A K/V entry is abstracted to the position its key was rotated for       *)
(* (position_offset + index) and the request and use of the table it was   *)
(* computed in.                                                            *)
(***************************************************************************)
EXTENDS Integers, Sequences, FiniteSets, SequencesExt

CONSTANTS
  Table,        \* the block tables, one per request
  NumBlocks,    \* BlockPool.num_blocks
  BlockSize,    \* BlockPool.block_size
  NumLayers,    \* config.num_layers
  PromptLens,   \* lengths of the prompts
  MaxNews,      \* values of max_new_tokens
  MaxUses       \* bound: how often a table is used

ASSUME PagedAssumption ==
  /\ NumBlocks \in Nat \ {0}
  /\ BlockSize \in Nat \ {0}
  /\ NumLayers \in Nat \ {0}
  /\ PromptLens \subseteq Nat \ {0}
  /\ MaxNews \subseteq Int
  /\ MaxUses \in Nat

VARIABLES
  free_blocks,  \* BlockPool.free_blocks, a stack
  block_ids,    \* BlockTable.block_ids
  length,       \* BlockTable.length
  store,        \* PagedKVCache.k_store (and v_store): store[l][block][slot]
  \* The call of generate_paged that uses each table, and its locals.
  pc,           \* idle, reserve, forward, done, or raised
  positions,    \* the (block, slot) pairs reserved for the tokens to feed
  fed,          \* how many tokens this forward pass feeds
  ids_len,      \* len(ids)
  decodes,      \* iterations of the decode loop that are left
  layer,        \* the layer the forward pass is at
  \* History, for the properties only.
  use           \* how many times the table was freed

table == <<block_ids, length>>
call  == <<pc, positions, fed, ids_len, decodes, layer>>
vars  == <<free_blocks, table, store, call, use>>

Block == 0..(NumBlocks - 1)
Slot  == 0..(BlockSize - 1)
Layer == 1..NumLayers

Zero == [owner |-> "nobody"]      \* torch.zeros

-----------------------------------------------------------------------------
(* class BlockTable, class PagedKVCache *)

Capacity(t) == Len(block_ids[t]) * BlockSize
\* (bug variant) the last slot of a block is never used
HasRoomForTwo(t) == Capacity(t) > length[t] + 1
HasRoom(t) == Capacity(t) > length[t]

\* (bug variant) slots are counted from one
PlacementShifted(t, ids) ==
  [block |-> ids[length[t] \div BlockSize + 1],
   slot  |-> (length[t] % BlockSize) + 1]

\* The (block, slot) of the next token, in the list of blocks ids.
Placement(t, ids) ==
  [block |-> ids[length[t] \div BlockSize + 1],
   slot  |-> length[t] % BlockSize]

\* (bug variant) the table keeps the list of the blocks it has returned
FreeTableKeepingIds(t) ==
  /\ free_blocks' = free_blocks \o block_ids[t]
  /\ length' = [length EXCEPT ![t] = 0]
  /\ UNCHANGED block_ids

\* BlockTable.free
FreeTable(t) ==
  /\ free_blocks' = free_blocks \o block_ids[t]
  /\ block_ids' = [block_ids EXCEPT ![t] = <<>>]
  /\ length' = [length EXCEPT ![t] = 0]

\* Where the k-th entry of a table is kept, if its blocks are laid end to end.
Where(t, k) ==
  [block |-> block_ids[t][(k - 1) \div BlockSize + 1],
   slot  |-> (k - 1) % BlockSize]

Stored(l, place) == store[l][place.block][place.slot]

\* gather: the slots of the owned blocks of a layer in one list, cut at length.
Gather(l, t) ==
  SubSeq([k \in 1..Capacity(t) |-> Stored(l, Where(t, k))], 1, length[t])

\* (bug variant) the new token counted as cached
OffsetPast(t) == IF fed[t] = 1 THEN ids_len[t] ELSE ids_len[t] - fed[t]

\* position_offset of the running forward pass.
Offset(t) == ids_len[t] - fed[t]

\* The entry computed for the k-th token of the pass.
Entry(t, k) == [owner |-> t, use |-> use[t], pos |-> Offset(t) + k - 1]

-----------------------------------------------------------------------------
Init ==
  /\ free_blocks = [k \in 1..NumBlocks |-> k - 1]
  /\ block_ids = [t \in Table |-> <<>>]
  /\ length = [t \in Table |-> 0]
  /\ store = [l \in Layer |-> [b \in Block |-> [s \in Slot |-> Zero]]]
  /\ pc = [t \in Table |-> "idle"]
  /\ positions = [t \in Table |-> <<>>]
  /\ fed = [t \in Table |-> 0]
  /\ ids_len = [t \in Table |-> 0]
  /\ decodes = [t \in Table |-> 0]
  /\ layer = [t \in Table |-> 1]
  /\ use = [t \in Table |-> 0]

\* generate_paged is called with a fresh block table.
GeneratePaged(t) ==
  /\ pc[t] = "idle" /\ use[t] < MaxUses
  /\ \E p \in PromptLens, m \in MaxNews :
       /\ ids_len' = [ids_len EXCEPT ![t] = p]
       /\ fed' = [fed EXCEPT ![t] = p]
       /\ decodes' = [decodes EXCEPT ![t] = IF m > 1 THEN m - 1 ELSE 0]
  /\ pc' = [pc EXCEPT ![t] = "reserve"]
  /\ UNCHANGED <<free_blocks, table, store, positions, layer, use>>

\* append_token places one more token, in a new block if the last is full.
Place(t, ids) ==
  /\ block_ids' = [block_ids EXCEPT ![t] = ids]
  /\ positions' = [positions EXCEPT ![t] = Append(@, Placement(t, ids))]
  /\ length' = [length EXCEPT ![t] = @ + 1]
  /\ pc' = [pc EXCEPT ![t] = IF Len(positions[t]) + 1 = fed[t]
                             THEN "forward" ELSE "reserve"]
  /\ UNCHANGED <<store, fed, ids_len, decodes, layer, use>>

AppendToken(t) ==
  /\ pc[t] = "reserve" /\ HasRoom(t)
  /\ Place(t, block_ids[t])
  /\ UNCHANGED free_blocks

\* allocate pops the block that was freed last.
AppendTokenAllocates(t) ==
  /\ pc[t] = "reserve" /\ ~HasRoom(t) /\ free_blocks # <<>>
  /\ Place(t, Append(block_ids[t], Last(free_blocks)))
  /\ free_blocks' = Front(free_blocks)

\* "KV cache full": the call ends in the middle of its reservations, and the
\* table keeps the slots that were reserved but not written.
AppendTokenRaises(t) ==
  /\ pc[t] = "reserve" /\ ~HasRoom(t) /\ free_blocks = <<>>
  /\ pc' = [pc EXCEPT ![t] = "raised"]
  /\ UNCHANGED <<free_blocks, table, store, positions, fed, ids_len, decodes,
                 layer, use>>

\* PagedKVCache.append for one layer of the forward pass: every new entry is
\* written at the place reserved for it, the same in all layers.  After the
\* last layer the new token joins ids, and the decode loop goes on or ends.
AppendLayer(t) ==
  /\ pc[t] = "forward"
  /\ LET l == layer[t]
         last == l = NumLayers
     IN  /\ store' = [store EXCEPT ![l] = [b \in Block |-> [s \in Slot |->
              LET ks == {k \in DOMAIN positions[t] :
                           positions[t][k] = [block |-> b, slot |-> s]}
              IN  IF ks = {} THEN store[l][b][s]
                             ELSE Entry(t, CHOOSE k \in ks : \A j \in ks : j <= k)]]]
         /\ layer' = [layer EXCEPT ![t] = IF last THEN 1 ELSE l + 1]
         /\ IF last
            THEN /\ ids_len' = [ids_len EXCEPT ![t] = @ + 1]
                 /\ fed' = [fed EXCEPT ![t] = 1]
                 /\ positions' = [positions EXCEPT ![t] = <<>>]
                 /\ decodes' = [decodes EXCEPT ![t] = IF @ = 0 THEN 0 ELSE @ - 1]
                 /\ pc' = [pc EXCEPT ![t] =
                             IF decodes[t] = 0 THEN "done" ELSE "reserve"]
            ELSE UNCHANGED <<ids_len, fed, positions, decodes, pc>>
  /\ UNCHANGED <<free_blocks, table, use>>

\* The caller frees the table, after an answer or after an exception.
Free(t) ==
  /\ pc[t] \in {"done", "raised"}
  /\ FreeTable(t)
  /\ pc' = [pc EXCEPT ![t] = "idle"]
  /\ positions' = [positions EXCEPT ![t] = <<>>]
  /\ ids_len' = [ids_len EXCEPT ![t] = 0]
  /\ fed' = [fed EXCEPT ![t] = 0]
  /\ decodes' = [decodes EXCEPT ![t] = 0]
  /\ use' = [use EXCEPT ![t] = @ + 1]
  /\ UNCHANGED <<store, layer>>

Step(t) ==
  \/ GeneratePaged(t)
  \/ AppendToken(t) \/ AppendTokenAllocates(t) \/ AppendTokenRaises(t)
  \/ AppendLayer(t)
  \/ Free(t)

Next == \E t \in Table : Step(t)

Spec == Init /\ [][Next]_vars

-----------------------------------------------------------------------------
(* Properties *)

Place_ == [block : Block, slot : Slot]

\* The type invariant.
TypeOK ==
  /\ free_blocks \in Seq(Block)
  /\ block_ids \in [Table -> Seq(Block)]
  /\ length \in [Table -> Nat]
  /\ pc \in [Table -> {"idle", "reserve", "forward", "done", "raised"}]
  /\ positions \in [Table -> Seq(Place_)]
  /\ fed \in [Table -> Nat] /\ ids_len \in [Table -> Nat]
  /\ decodes \in [Table -> Nat]
  /\ layer \in [Table -> Layer]
  /\ use \in [Table -> Nat]

\* Every block is either free or owned by one table, once: no block is ever
\* handed to two requests or lost, also when a call raised in the middle of
\* its reservations.  BlockPool.free checks nothing, so this rests on how the
\* tables are used.
BlocksOnce ==
  /\ IsInjective(free_blocks)
  /\ \A t \in Table : IsInjective(block_ids[t])
  /\ \A t, u \in Table :
       t # u => ToSet(block_ids[t]) \cap ToSet(block_ids[u]) = {}
  /\ \A t \in Table : ToSet(free_blocks) \cap ToSet(block_ids[t]) = {}
  /\ ToSet(free_blocks) \cup UNION {ToSet(block_ids[t]) : t \in Table} = Block

\* A table owns no more blocks than its tokens fill: paging wastes less than
\* a block per request, and a token that crosses a boundary takes one block.
TightFit ==
  \A t \in Table :
    /\ length[t] <= Capacity(t)
    /\ Capacity(t) < length[t] + BlockSize

\* What the attention of a layer reads after that layer has been written is
\* the contiguous sequence of the request's own entries, each at its own
\* position, whatever the blocks held before (the other layers are written
\* later from the same reservations).
GatherIsContiguous ==
  \A t \in Table :
    pc[t] \in {"forward", "done"} =>
      \A l \in IF pc[t] = "done" THEN Layer ELSE 1..(layer[t] - 1) :
        Gather(l, t) = [k \in 1..length[t] |->
                          [owner |-> t, use |-> use[t], pos |-> k - 1]]

\* The entries of layer l that the calls so far have completed.
Written(t, l) ==
  IF pc[t] = "forward" /\ l < layer[t] THEN length[t]
                                       ELSE length[t] - Len(positions[t])

\* A table read as a contiguous cache.
Contents(t) == [l \in Layer |-> SubSeq(Gather(l, t), 1, Written(t, l))]

Contiguous == INSTANCE ContiguousCache WITH
                kv <- [t \in Table |-> Contents(t)]

\* Paged storage is invisible: seen through gather, the tables behave as the
\* contiguous caches of the other generation path, also across exhaustion of
\* the pool, freeing and reuse of blocks.
ImplementsContiguous == Contiguous!Spec
=============================================================================
