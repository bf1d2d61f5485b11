----------------------------- MODULE Attention -----------------------------
(***************************************************************************)
(* The contiguous K/V path of src/src/vkllm/model.py: attention() under    *)
(* forward(), and _attn_batched() under decode_batch().  What each query   *)
(* of a pass reads is computed from the caches, the offsets and the masks, *)
(* layer by layer, as the code does it; the numbers are left out.          *)
(*                                                                         *)
(* The callers are generate(), which prefills and decodes one request, and *)
(* the scheduler, which prefills one by one, decodes in batches of any     *)
(* composition, and drops a cache to rebuild it later, also the cache of a *)
(* request that has not run yet.  All run on one thread: one pass at a     *)
(* time.                                                                   *)
(*                                                                         *)
(* A K/V entry is the request and the use of its cache that it was         *)
(* computed in, and the position that rope_tables rotated it for.          *)
(***************************************************************************)
EXTENDS Integers, Sequences, FiniteSets, SequencesExt

CONSTANTS
  Table,        \* the requests, each with a cache
  NumLayers,    \* config.num_layers
  PromptLens,   \* lengths of the prompts
  MaxLen,       \* bound: the tokens of a request, prompt and answer
  MaxUses       \* bound: how often a cache is dropped

ASSUME AttentionAssumption ==
  /\ NumLayers \in Nat \ {0}
  /\ MaxLen \in Nat /\ MaxUses \in Nat
  /\ PromptLens \subseteq 1..(MaxLen - 1)

VARIABLES
  cache,     \* cache[r][l]: the entries of layer l, in the order of torch.cat
  known,     \* how many tokens of the request there are, len(ids)
  prefilled, \* requests whose cache is built, Request.prefilled
  preempted, \* requests whose cache was dropped, Request.preempted
  \* The pass that is running.
  kind,      \* none, forward, resume (a forward that yields no token), batch
  batch,     \* the requests of the pass; rows of one tensor do not interact
  n_new,     \* how many tokens the pass feeds for each
  offset,    \* position_offset, for each request of the pass
  layer,
  \* History, for the properties only.
  read,      \* read[r][q]: what query q read in the last layer that ran, a
             \*   function from the columns that the mask left to entries
  use        \* how many times the cache was dropped

pass == <<kind, batch, n_new, offset, layer>>
vars == <<cache, known, prefilled, preempted, pass, read, use>>

Layer == 1..NumLayers

\* A column of Kp and Vp that no entry was copied to.
Padding == [zeros |-> TRUE]

-----------------------------------------------------------------------------
(* attention *)

\* (bug variant) the positions are counted from -1
NewEntriesShifted(r) ==
  [k \in 1..n_new |-> [owner |-> r, use |-> use[r], pos |-> offset[r] + k - 2]]

\* The entries computed for the new tokens: rotated for the positions from
\* the offset on.
NewEntries(r) ==
  [k \in 1..n_new |-> [owner |-> r, use |-> use[r], pos |-> offset[r] + k - 1]]

\* torch.cat([past, new])
Grown(r, l) == cache[r][l] \o NewEntries(r)

\* The causal mask keeps key column k for query q (both from 0); a single
\* query is not masked.  (Every caller that feeds several tokens passes an
\* offset of 0.)
Visible(r, q, k) == n_new = 1 \/ k <= q + offset[r]

\* The entries that each query reads, by their columns.
ForwardReads(r, l) ==
  LET keys == Grown(r, l)
  IN  [q \in 1..n_new |->
         [c \in {k \in 1..Len(keys) : Visible(r, q - 1, k - 1)} |-> keys[c]]]

(* _attn_batched *)

\* max(offsets) + 1
PaddedLen == Max({offset[r] : r \in batch}) + 1

\* Column c (from 0) of the padded keys of a row: the row is filled from its
\* right end, by the length of its cache.
Column(r, l, c) ==
  LET pad == PaddedLen - Len(Grown(r, l))
  IN  IF c >= pad THEN Grown(r, l)[c - pad + 1] ELSE Padding

\* (bug variant) the new token is not counted as valid
PadStartLate(r) == PaddedLen - offset[r]

\* pad_mask hides the columns before this one, by the offset of the row.
PadStart(r) == PaddedLen - (offset[r] + 1)

\* The single query reads the columns that are left.
BatchReads(r, l) ==
  [q \in 1..1 |-> [c \in PadStart(r)..(PaddedLen - 1) |-> Column(r, l, c)]]

-----------------------------------------------------------------------------
\* Every request has its prompt, and an empty cache.
Init ==
  /\ cache = [r \in Table |-> [l \in Layer |-> <<>>]]
  /\ known \in [Table -> PromptLens]
  /\ prefilled = {} /\ preempted = {}
  /\ kind = "none" /\ batch = {} /\ n_new = 0
  /\ offset = [r \in Table |-> 0]
  /\ layer = 1
  /\ read = [r \in Table |-> <<>>]
  /\ use = [r \in Table |-> 0]

\* A pass over n tokens for each request of the set rs begins.
Start(k, rs, n) ==
  /\ kind = "none"
  /\ kind' = k /\ batch' = rs /\ n_new' = n
  /\ layer' = 1
  /\ read' = [r \in Table |-> <<>>]
  /\ UNCHANGED <<cache, known, prefilled, preempted, use>>

\* forward(prompt_ids, cache, 0)
Prefill(r) ==
  /\ r \notin prefilled /\ r \notin preempted
  /\ Start("forward", {r}, known[r])
  /\ offset' = [offset EXCEPT ![r] = 0]

\* forward(all_ids[:-1], cache, 0) on a fresh cache; its logits are not used.
\* For a prompt of one token that was evicted before its prefill this is a
\* pass over no token, and the cache that it builds is empty.
Resume(r) ==
  /\ r \notin prefilled /\ r \in preempted
  /\ Start("resume", {r}, known[r] - 1)
  /\ offset' = [offset EXCEPT ![r] = 0]

\* (bug variant) the last token is taken to be cached
OffsetPast(r) == known[r]

\* The tokens that are in the cache already.
Offset(r) == known[r] - 1

CanDecode(r) == r \in prefilled /\ known[r] < MaxLen

\* The decode loop of generate.
Decode(r) ==
  /\ CanDecode(r)
  /\ Start("forward", {r}, 1)
  /\ offset' = [offset EXCEPT ![r] = Offset(r)]

\* decode_batch, over any requests whose caches are built.
DecodeBatch ==
  \E S \in SUBSET {r \in Table : CanDecode(r)} :
    /\ S # {}
    /\ Start("batch", S, 1)
    /\ offset' = [r \in Table |-> IF r \in S THEN Offset(r) ELSE offset[r]]

\* One layer of the pass: the caches grow, and the queries read.  After the
\* last layer each request of the pass has its cache built and one more token,
\* unless it resumes.
RunLayer ==
  /\ kind # "none"
  /\ cache' = [r \in Table |->
                 IF r \in batch
                 THEN [cache[r] EXCEPT ![layer] = Grown(r, layer)]
                 ELSE cache[r]]
  /\ read' = [r \in Table |->
                IF r \notin batch THEN read[r]
                ELSE IF kind = "batch" THEN BatchReads(r, layer)
                ELSE ForwardReads(r, layer)]
  /\ IF layer < NumLayers
     THEN layer' = layer + 1 /\ UNCHANGED <<kind, batch, known, prefilled, preempted>>
     ELSE /\ layer' = 1 /\ kind' = "none" /\ batch' = {}
          /\ known' = [r \in Table |->
                         IF r \in batch /\ kind # "resume"
                         THEN known[r] + 1 ELSE known[r]]
          /\ prefilled' = prefilled \cup batch
          /\ preempted' = preempted \ batch
  /\ UNCHANGED <<n_new, offset, use>>

\* reset_for_resume, at any point between two passes: the cache is dropped,
\* the tokens are kept.
Drop(r) ==
  /\ kind = "none" /\ use[r] < MaxUses
  /\ cache' = [cache EXCEPT ![r] = [l \in Layer |-> <<>>]]
  /\ prefilled' = prefilled \ {r}
  /\ preempted' = preempted \cup {r}
  /\ use' = [use EXCEPT ![r] = @ + 1]
  /\ read' = [read EXCEPT ![r] = <<>>]
  /\ UNCHANGED <<known, pass>>

Next ==
  \/ \E r \in Table : Prefill(r) \/ Resume(r) \/ Decode(r) \/ Drop(r)
  \/ DecodeBatch
  \/ RunLayer

Spec == Init /\ [][Next]_vars

-----------------------------------------------------------------------------
(* Properties *)

Entry == [owner : Table, use : Nat, pos : Nat]

\* The type invariant.
TypeOK ==
  /\ cache \in [Table -> [Layer -> Seq(Entry)]]
  /\ known \in [Table -> 1..MaxLen]
  /\ prefilled \subseteq Table /\ preempted \subseteq Table
  /\ kind \in {"none", "forward", "resume", "batch"}
  /\ batch \subseteq Table
  /\ n_new \in Nat /\ offset \in [Table -> Nat]
  /\ layer \in Layer
  /\ use \in [Table -> 0..MaxUses]

\* What the query at position p should read: the entries of its own request,
\* of this use of the cache, for the positions up to p.
OwnPast(r, p) == {[owner |-> r, use |-> use[r], pos |-> k] : k \in 0..p}

\* Every query reads exactly its own past, each key once, whether it runs in a
\* prefill, in a resumed prefill, alone, or left-padded in a batch of requests
\* of other lengths (of length zero too), and whichever kind of pass wrote the
\* entries: no later position, no padding, no key of another request, nothing
\* left from an earlier use, no key missing or counted twice.
ReadsOwnPast ==
  \A r \in Table : \A q \in DOMAIN read[r] :
    /\ IsInjective(read[r][q])
    /\ Range(read[r][q]) = OwnPast(r, offset[r] + q - 1)

Own(r) == INSTANCE ContiguousCache WITH
            Table <- {r},
            kv <- [t \in {r} |-> cache[t]],
            use <- [t \in {r} |-> use[t]]

\* The cache of each request grows as ContiguousCache says, layer by layer and
\* each entry at its own position, whatever mix of single passes and batches
\* it takes part in: together with the same property of PagedCache, the two
\* generation paths of the model keep the same caches.
ImplementsContiguous ==
  /\ \A r \in Table : Own(r)!Init
  /\ [][\A r \in Table : [Own(r)!Next]_(Own(r)!vars)]_vars
=============================================================================
