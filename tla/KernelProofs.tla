---------------------------- MODULE KernelProofs ----------------------------
(***************************************************************************)
(* Proofs about the parts that compute, for every size: what the passes    *)
(* over the contiguous caches store and read (Attention), what the sharded *)
(* layers add up (Sharding), and where a percentile is taken (Metrics).    *)
(***************************************************************************)
EXTENDS Attention, Sharding, Metrics, QueueLemmas, FiniteSetTheorems,
        WellFoundedInduction

\* A bounded set of numbers has a largest one.
LEMMA MaxOfBounded ==
  ASSUME NEW S \in SUBSET Nat, S # {}, NEW N \in Nat, \A x \in S : x <= N
  PROVE  Max(S) \in S /\ \A y \in S : y <= Max(S)
<1> DEFINE T == {N - x : x \in S}
           R == OpToRel(<, Nat)
<1>1. T \subseteq Nat /\ T # {}
  <2>1. \A x \in S : N - x \in Nat
    OBVIOUS
  <2> QED BY <2>1
<1>2. PICK m \in T : \A y \in T : ~(<<y, m>> \in R)
  <2> HIDE DEF T, R
  <2>1. IsWellFoundedOn(R, Nat)
    BY NatLessThanWellFounded DEF R
  <2> QED BY <1>1, <2>1, WFMin
<1>3. \A y \in T : ~(y < m)
  BY <1>1, <1>2 DEF OpToRel
<1>4. PICK x \in S : m = N - x
  OBVIOUS
<1>5. \A y \in S : y <= x
  <2> SUFFICES ASSUME NEW y \in S PROVE y <= x
    OBVIOUS
  <2>1. N - y \in T
    OBVIOUS
  <2> HIDE DEF T, R
  <2>2. ~(N - y < N - x)
    BY <1>3, <1>4, <2>1
  <2>3. x \in Nat /\ y \in Nat
    OBVIOUS
  <2>4. \A i, j, k \in Nat : ~(k - j < k - i) => j <= i
    OBVIOUS
  <2> QED BY <2>2, <2>3, <2>4, Zenon
<1> HIDE DEF T, R
<1>6. \E w \in S : \A y \in S : w >= y
  <2>1. \A y \in S : x >= y
    BY <1>5
  <2> QED BY <2>1
<1>7. Max(S) \in S /\ \A y \in S : Max(S) >= y
  BY <1>6, Zenon DEF Max
<1>8. \A y \in S : y <= Max(S)
  BY <1>7
<1> QED BY <1>7, <1>8

-----------------------------------------------------------------------------
(* The contiguous caches *)

\* How many entries of a layer are in the cache of a request: all but the last
\* token of it, when it is built and no pass runs over it; in a pass the new
\* ones up to the layer that has run.
Filled(r, l) ==
  IF r \in batch THEN IF l < layer THEN offset[r] + n_new ELSE offset[r]
  ELSE IF r \in prefilled THEN known[r] - 1 ELSE 0

CacheShape(r) ==
  \A l \in Layer : /\ Filled(r, l) \in Nat
                   /\ cache[r][l] = EntriesFrom(r, use[r], 0, Filled(r, l))

\* What a pass has for each of its requests: it ends at the last token, or
\* before it if the pass yields none.
PassShape(r) ==
  r \in batch => /\ kind = "resume" => offset[r] + n_new = known[r] - 1
                 /\ kind # "resume" => /\ n_new > 0
                                      /\ offset[r] + n_new = known[r]
                                      /\ known[r] < MaxLen

AttentionInv ==
  /\ TypeOK /\ DOMAIN read = Table
  /\ kind = "none" => batch = {} /\ layer = 1
  /\ kind = "batch" => n_new = 1
  /\ \A r \in Table : PassShape(r) /\ CacheShape(r)
  /\ \A r \in Table \ (prefilled \cup preempted) : known[r] \in PromptLens
  /\ ReadsOwnPast

\* Every cache starts empty.
LEMMA AttentionInit == Init => AttentionInv
<1> SUFFICES ASSUME Init PROVE AttentionInv
  OBVIOUS
<1> USE AttentionAssumption DEF Init
<1>1. \A r \in Table : <<>> = EntriesFrom(r, 0, 0, 0)
  BY DEF EntriesFrom
<1>2. 1 \in Layer /\ 0 \in 0..MaxUses
  BY DEF Layer
<1>3. TypeOK
  <2>1. PromptLens \subseteq 1..MaxLen
    OBVIOUS
  <2>2. known \in [Table -> 1..MaxLen]
    BY <2>1
  <2> QED BY <1>2, <2>2 DEF TypeOK
<1>4. ASSUME NEW r \in Table PROVE PassShape(r) /\ CacheShape(r)
  <2>1. \A l \in Layer : Filled(r, l) = 0
    BY DEF Filled
  <2> QED BY <1>1, <2>1 DEF PassShape, CacheShape
<1>5. ReadsOwnPast
  BY DEF ReadsOwnPast
<1> QED BY <1>3, <1>4, <1>5 DEF AttentionInv

\* A pass that starts where the caches of its requests end.
LEMMA StartKeeps ==
  ASSUME AttentionInv, NEW k \in {"forward", "resume", "batch"},
         NEW rs \in SUBSET Table, NEW n \in Nat,
         k = "batch" => n = 1,
         Start(k, rs, n), TypeOK',
         \A r \in rs :
           /\ offset'[r] \in Nat
           /\ \A l \in Layer : cache[r][l] = EntriesFrom(r, use[r], 0, offset'[r])
           /\ k = "resume" => offset'[r] + n = known[r] - 1
           /\ k # "resume" => /\ n > 0
                             /\ offset'[r] + n = known[r] /\ known[r] < MaxLen
  PROVE  AttentionInv'
<1> USE DEF Start
<1>1. kind = "none" /\ batch = {} /\ kind' = k /\ batch' = rs /\ n_new' = n /\ layer' = 1
  BY DEF AttentionInv
<1>2. ASSUME NEW r \in Table PROVE PassShape(r)' /\ CacheShape(r)'
  <2>0. PassShape(r) /\ CacheShape(r) /\ cache' = cache /\ use' = use
    BY DEF AttentionInv
  <2>1. CASE r \in rs
    <3>1. PassShape(r)'
      BY <1>1, <2>1 DEF PassShape
    <3>2. \A l \in Layer : Filled(r, l)' = offset'[r]
      <4> SUFFICES ASSUME NEW l \in Layer PROVE Filled(r, l)' = offset'[r]
        OBVIOUS
      <4>1. ~(l < 1)
        BY AttentionAssumption DEF Layer
      <4> QED BY <1>1, <2>1, <4>1 DEF Filled
    <3> QED BY <2>0, <2>1, <3>1, <3>2 DEF CacheShape
  <2>2. CASE r \notin rs
    <3>1. PassShape(r)'
      BY <1>1, <2>0, <2>2 DEF PassShape
    <3>2. \A l \in Layer : Filled(r, l)' = Filled(r, l)
      BY <1>1, <2>0, <2>2 DEF Filled
    <3> QED BY <2>0, <3>1, <3>2 DEF CacheShape
  <2> QED BY <2>1, <2>2
<1>3. ReadsOwnPast'
  BY DEF ReadsOwnPast
<1>4. /\ TypeOK' /\ k # "none"
      /\ (\A r \in Table \ (prefilled \cup preempted) : known[r] \in PromptLens)'
  BY DEF AttentionInv
<1> QED BY <1>1, <1>2, <1>3, <1>4 DEF AttentionInv

\* What is known of a request that no pass runs over.
LEMMA AtRest ==
  ASSUME AttentionInv, kind = "none", NEW r \in Table
  PROVE  /\ known[r] \in Nat /\ known[r] > 0 /\ known[r] <= MaxLen
         /\ known[r] - 1 \in Nat /\ (known[r] - 1) + 1 = known[r]
         /\ r \in prefilled =>
              \A l \in Layer : cache[r][l] = EntriesFrom(r, use[r], 0, known[r] - 1)
         /\ r \notin prefilled =>
              \A l \in Layer : cache[r][l] = EntriesFrom(r, use[r], 0, 0)
         /\ r \notin prefilled /\ r \notin preempted => known[r] < MaxLen
<1>1. /\ TypeOK /\ batch = {} /\ CacheShape(r)
  BY DEF AttentionInv
<1>2. /\ known[r] \in Nat /\ known[r] > 0 /\ known[r] <= MaxLen
      /\ known[r] - 1 \in Nat /\ (known[r] - 1) + 1 = known[r]
  BY <1>1, AttentionAssumption DEF TypeOK
<1>3. \A l \in Layer : Filled(r, l) = IF r \in prefilled THEN known[r] - 1 ELSE 0
  BY <1>1 DEF Filled
<1>4. ASSUME r \notin prefilled, r \notin preempted PROVE known[r] < MaxLen
  <2>1. r \in Table \ (prefilled \cup preempted)
    BY <1>4
  <2>2. known[r] \in PromptLens
    BY <2>1 DEF AttentionInv
  <2>3. known[r] \in 1..(MaxLen - 1) /\ MaxLen \in Nat
    BY <2>2, AttentionAssumption
  <2> QED BY <2>3
<1> QED BY <1>1, <1>2, <1>3, <1>4 DEF CacheShape

\* forward(prompt_ids, cache, 0)
LEMMA PrefillKeeps ==
  ASSUME AttentionInv, NEW r \in Table, Prefill(r)
  PROVE  AttentionInv'
<1> USE AttentionAssumption
<1> DEFINE n == known[r]
<1>1. /\ Start("forward", {r}, n) /\ kind = "none"
      /\ r \notin prefilled /\ r \notin preempted
      /\ offset' = [offset EXCEPT ![r] = 0]
  BY DEF Prefill, Start
<1>2. n \in Nat /\ n > 0 /\ n < MaxLen /\ 0 + n = known[r]
  BY <1>1, AtRest
<1>3. TypeOK
  BY DEF AttentionInv
<1>4. TypeOK'
  <2>1. 1 \in Layer
    BY DEF Layer
  <2> QED BY <1>1, <1>2, <1>3, <2>1 DEF TypeOK, Start
<1>5. \A l \in Layer : cache[r][l] = EntriesFrom(r, use[r], 0, 0)
  BY <1>1, AtRest
<1>6. offset'[r] = 0
  BY <1>1, <1>3 DEF TypeOK
<1> HIDE DEF n
<1> QED BY <1>1, <1>2, <1>4, <1>5, <1>6, StartKeeps DEF n

\* forward(all_ids[:-1], cache, 0)
LEMMA ResumeKeeps ==
  ASSUME AttentionInv, NEW r \in Table, Resume(r)
  PROVE  AttentionInv'
<1> USE AttentionAssumption
<1> DEFINE n == known[r] - 1
<1>1. /\ Start("resume", {r}, n) /\ kind = "none" /\ r \notin prefilled
      /\ offset' = [offset EXCEPT ![r] = 0]
  BY DEF Resume, Start
<1>2. n \in Nat /\ 0 + n = known[r] - 1
  BY <1>1, AtRest
<1>3. TypeOK
  BY DEF AttentionInv
<1>4. TypeOK'
  <2>1. 1 \in Layer
    BY DEF Layer
  <2> QED BY <1>1, <1>2, <1>3, <2>1 DEF TypeOK, Start
<1>5. \A l \in Layer : cache[r][l] = EntriesFrom(r, use[r], 0, 0)
  BY <1>1, AtRest
<1>6. offset'[r] = 0
  BY <1>1, <1>3 DEF TypeOK
<1> HIDE DEF n
<1> QED BY <1>1, <1>2, <1>4, <1>5, <1>6, StartKeeps

\* The decode loop of generate.
LEMMA DecodeKeeps ==
  ASSUME AttentionInv, NEW r \in Table, Decode(r)
  PROVE  AttentionInv'
<1> USE AttentionAssumption
<1>1. Start("forward", {r}, 1)
  BY DEF Decode
<1>2. /\ known[r] < MaxLen /\ r \in prefilled /\ kind = "none"
      /\ offset' = [offset EXCEPT ![r] = known[r] - 1]
  BY <1>1 DEF Decode, Start, CanDecode, Offset
<1>3. known[r] - 1 \in Nat /\ (known[r] - 1) + 1 = known[r]
  BY <1>2, AtRest
<1>4. TypeOK
  BY DEF AttentionInv
<1>5. TypeOK'
  <2>1. 1 \in Layer
    BY DEF Layer
  <2> QED BY <1>1, <1>2, <1>3, <1>4, <2>1 DEF TypeOK, Start
<1>7. \A l \in Layer : cache[r][l] = EntriesFrom(r, use[r], 0, known[r] - 1)
  BY <1>2, AtRest
<1>8. offset'[r] = known[r] - 1
  BY <1>2, <1>4 DEF TypeOK
<1>9. 1 \in Nat /\ 1 > 0
  OBVIOUS
<1> QED BY <1>1, <1>2, <1>3, <1>5, <1>7, <1>8, <1>9, StartKeeps

\* decode_batch
LEMMA DecodeBatchKeeps ==
  ASSUME AttentionInv, DecodeBatch
  PROVE  AttentionInv'
<1> USE AttentionAssumption
<1>1. PICK S \in SUBSET {r \in Table : CanDecode(r)} :
        /\ Start("batch", S, 1)
        /\ offset' = [r \in Table |-> IF r \in S THEN Offset(r) ELSE offset[r]]
  BY DEF DecodeBatch
<1>2. kind = "none"
  BY <1>1 DEF Start
<1>3. ASSUME NEW r \in S
      PROVE  /\ r \in Table /\ known[r] < MaxLen
             /\ offset'[r] = known[r] - 1 /\ offset'[r] \in Nat
             /\ offset'[r] + 1 = known[r]
             /\ \A l \in Layer : cache[r][l] = EntriesFrom(r, use[r], 0, offset'[r])
  <2>1. r \in Table /\ known[r] < MaxLen /\ r \in prefilled
    BY DEF CanDecode
  <2>2. offset'[r] = known[r] - 1
    BY <1>1, <2>1 DEF Offset
  <2>3. known[r] - 1 \in Nat /\ (known[r] - 1) + 1 = known[r]
    BY <1>2, <2>1, AtRest
  <2>4. \A l \in Layer : cache[r][l] = EntriesFrom(r, use[r], 0, known[r] - 1)
    BY <1>2, <2>1, AtRest
  <2> QED BY <2>1, <2>2, <2>3, <2>4
<1>4. TypeOK
  BY DEF AttentionInv
<1>5. TypeOK'
  <2>1. 1 \in Layer
    BY DEF Layer
  <2>2. \A r \in Table : r \notin S => offset'[r] \in Nat
    BY <1>1, <1>4 DEF TypeOK
  <2>3. offset' \in [Table -> Nat]
    BY <1>1, <1>3, <2>2
  <2> QED BY <1>1, <1>2, <1>4, <2>1, <2>3 DEF TypeOK, Start
<1>6. S \in SUBSET Table
  BY <1>3
<1>9. 1 \in Nat /\ 1 > 0
  OBVIOUS
<1> QED BY <1>1, <1>2, <1>3, <1>5, <1>6, <1>9, StartKeeps

\* reset_for_resume
LEMMA DropKeeps ==
  ASSUME AttentionInv, NEW r \in Table, Drop(r)
  PROVE  AttentionInv'
<1> USE AttentionAssumption DEF Drop, pass
<1>1. TypeOK /\ batch = {} /\ 1 \in Layer
  BY DEF AttentionInv, Layer
<1>2. TypeOK'
  BY <1>1 DEF TypeOK
<1>3. ASSUME NEW t \in Table PROVE PassShape(t)' /\ CacheShape(t)'
  <2>1. PassShape(t) /\ CacheShape(t)
    BY DEF AttentionInv
  <2>2. PassShape(t)'
    BY <1>1, <2>1 DEF PassShape
  <2>3. CASE t = r
    <3>1. cache'[t] = [l \in Layer |-> <<>>]
      BY <1>1, <2>3 DEF TypeOK
    <3>2. t \notin prefilled' /\ t \notin batch'
      BY <1>1, <2>3
    <3>3. \A l \in Layer : Filled(t, l)' = 0
      BY <3>2 DEF Filled
    <3>4. <<>> = EntriesFrom(t, use'[t], 0, 0)
      BY DEF EntriesFrom
    <3> QED BY <2>2, <3>1, <3>3, <3>4 DEF CacheShape
  <2>4. CASE t # r
    <3>1. /\ cache'[t] = cache[t] /\ use'[t] = use[t]
          /\ t \in prefilled' <=> t \in prefilled
      BY <1>1, <2>4 DEF TypeOK
    <3>2. \A l \in Layer : Filled(t, l)' = Filled(t, l)
      BY <3>1 DEF Filled
    <3> QED BY <2>1, <2>2, <3>1, <3>2 DEF CacheShape
  <2> QED BY <2>3, <2>4
<1>4. ReadsOwnPast'
  <2> SUFFICES ASSUME NEW t \in Table, NEW q \in DOMAIN read'[t]
               PROVE  /\ IsInjective(read'[t][q])
                      /\ Range(read'[t][q]) = OwnPast(t, offset[t] + q - 1)'
    BY DEF ReadsOwnPast
  <2>1. DOMAIN read = Table /\ ReadsOwnPast
    BY DEF AttentionInv
  <2>2. t # r
    BY <2>1
  <2>3. read'[t] = read[t] /\ use'[t] = use[t]
    BY <1>1, <2>1, <2>2 DEF TypeOK
  <2> QED BY <2>1, <2>3 DEF ReadsOwnPast, OwnPast
<1>5. DOMAIN read' = Table
  BY DEF AttentionInv
<1>6. \A t \in Table \ (prefilled' \cup preempted') : known'[t] \in PromptLens
  BY DEF AttentionInv
<1> QED BY <1>1, <1>2, <1>3, <1>4, <1>5, <1>6 DEF AttentionInv

\* What a layer of a pass leaves in a cache: torch.cat([past, new]).
LEMMA GrownEntries ==
  ASSUME AttentionInv, NEW r \in batch
  PROVE  /\ r \in Table /\ layer \in Layer
         /\ offset[r] \in Nat /\ n_new \in Nat
         /\ Grown(r, layer) = EntriesFrom(r, use[r], 0, offset[r] + n_new)
         /\ Len(Grown(r, layer)) = offset[r] + n_new
<1>1. /\ r \in Table /\ layer \in Layer
      /\ offset[r] \in Nat /\ n_new \in Nat
      /\ CacheShape(r)
  BY DEF AttentionInv, TypeOK
<1>2. layer \in Int /\ ~(layer < layer)
  BY <1>1, AttentionAssumption DEF Layer
<1>3. Filled(r, layer) = offset[r]
  BY <1>2 DEF Filled
<1>4. cache[r][layer] = EntriesFrom(r, use[r], 0, offset[r])
  BY <1>1, <1>3 DEF CacheShape
<1>5. NewEntries(r) = EntriesFrom(r, use[r], offset[r], n_new)
  BY DEF NewEntries, EntriesFrom
<1>6. Grown(r, layer) = EntriesFrom(r, use[r], 0, offset[r] + n_new)
  BY <1>1, <1>4, <1>5, EntriesFollow, Zenon DEF Grown
<1>7. 0 \in Nat /\ offset[r] + n_new \in Nat
  BY <1>1
<1>8. Len(Grown(r, layer)) = offset[r] + n_new
  <2> DEFINE n == offset[r] + n_new
  <2>1. Len(EntriesFrom(r, use[r], 0, n)) = n
    <3> HIDE DEF n
    <3> QED BY <1>7, EntriesLen DEF n
  <2> QED BY <1>6, <2>1
<1> QED BY <1>1, <1>6, <1>8

\* Columns that hold the entries of a request for the positions up to p, one
\* after the other.
LEMMA ColumnsOfPast ==
  ASSUME NEW r \in Table, NEW p \in Int, NEW first \in Int, NEW D \in SUBSET Int,
         \A c \in D : c - first \in 0..p,
         \A k \in 0..p : k + first \in D,
         NEW f, f = [c \in D |-> f[c]],
         \A c \in D : f[c] = [owner |-> r, use |-> use[r], pos |-> c - first]
  PROVE  IsInjective(f) /\ Range(f) = OwnPast(r, p)
<1>1. IsInjective(f)
  <2> SUFFICES ASSUME NEW c \in D, NEW d \in D, f[c] = f[d] PROVE c = d
    BY DEF IsInjective
  <2>1. c - first = d - first
    <3>1. f[c].pos = c - first /\ f[d].pos = d - first
      OBVIOUS
    <3> QED BY <3>1
  <2>2. c \in Int /\ d \in Int
    OBVIOUS
  <2> QED BY <2>1, <2>2
<1>2. ASSUME NEW e \in Range(f) PROVE e \in OwnPast(r, p)
  <2>1. PICK c \in D : e = f[c]
    BY DEF Range
  <2> QED BY <2>1 DEF OwnPast
<1>3. ASSUME NEW e \in OwnPast(r, p) PROVE e \in Range(f)
  <2>1. PICK k \in 0..p : e = [owner |-> r, use |-> use[r], pos |-> k]
    BY DEF OwnPast
  <2>2. k + first \in D /\ (k + first) - first = k
    OBVIOUS
  <2>3. f[k + first] = e
    BY <2>1, <2>2
  <2> QED BY <2>2, <2>3 DEF Range
<1> QED BY <1>1, <1>2, <1>3

\* The causal mask keeps the past of each query of attention().
LEMMA ForwardReadsPast ==
  ASSUME AttentionInv, NEW r \in batch, NEW q \in 1..n_new
  PROVE  /\ IsInjective(ForwardReads(r, layer)[q])
         /\ Range(ForwardReads(r, layer)[q]) = OwnPast(r, offset[r] + q - 1)
<1> DEFINE keys == Grown(r, layer)
           n == offset[r] + n_new
           seen == {c \in 1..Len(keys) : Visible(r, q - 1, c - 1)}
           p == offset[r] + q - 1
<1>1. /\ r \in Table /\ offset[r] \in Nat /\ n_new \in Nat
      /\ q \in Nat /\ q > 0 /\ q <= n_new
      /\ keys = EntriesFrom(r, use[r], 0, n)
      /\ Len(keys) = n
  BY GrownEntries
<1> DEFINE f == ForwardReads(r, layer)[q]
<1>2. f = [c \in seen |-> keys[c]]
  BY DEF ForwardReads
<1> HIDE DEF keys, f
<1>3. \A k \in 1..n : keys[k] = [owner |-> r, use |-> use[r], pos |-> k - 1]
  <2>1. \A k \in 1..n : 0 + k - 1 = k - 1
    BY <1>1
  <2> QED BY <1>1, <2>1 DEF EntriesFrom
<1>4. \A c \in 1..n : c \in seen <=> c - 1 \in 0..p
  <2> SUFFICES ASSUME NEW c \in 1..n PROVE c \in seen <=> c - 1 \in 0..p
    OBVIOUS
  <2>1. c \in seen <=> (n_new = 1 \/ c - 1 <= q - 1 + offset[r])
    BY <1>1 DEF Visible
  <2> HIDE DEF seen
  <2>2. c - 1 <= q - 1 + offset[r] <=> c - 1 \in 0..p
    BY <1>1
  <2>3. n_new = 1 => c - 1 \in 0..p
    BY <1>1
  <2> QED BY <2>1, <2>2, <2>3
<1>5. seen \subseteq 1..n
  BY <1>1
<1>6. \A k \in 0..p : k + 1 \in 1..n /\ (k + 1) - 1 = k
  BY <1>1
<1>7. p \in Int /\ 1 \in Int
  BY <1>1
<1> HIDE DEF seen, n, p
<1>8. seen \in SUBSET Int /\ \A c \in seen : c - 1 \in 0..p
  BY <1>4, <1>5
<1>9. \A k \in 0..p : k + 1 \in seen
  BY <1>4, <1>6
<1>10. /\ f = [c \in seen |-> f[c]]
       /\ \A c \in seen : f[c] = [owner |-> r, use |-> use[r], pos |-> c - 1]
  BY <1>2, <1>3, <1>5
<1>11. IsInjective(f) /\ Range(f) = OwnPast(r, p)
  BY <1>1, <1>7, <1>8, <1>9, <1>10, ColumnsOfPast
<1> QED BY <1>11 DEF p, f

\* The padding that pad_mask hides is the padding that was put in, and no more,
\* in every row of a batch, so that the query reads its own past.
LEMMA BatchReadsPast ==
  ASSUME AttentionInv, kind = "batch", NEW r \in batch
  PROVE  /\ DOMAIN BatchReads(r, layer) = 1..1
         /\ IsInjective(BatchReads(r, layer)[1])
         /\ Range(BatchReads(r, layer)[1]) = OwnPast(r, offset[r])
<1> DEFINE keys == Grown(r, layer)
           offsets == {offset[t] : t \in batch}
           m == Max(offsets)
           pad == m - offset[r]
<1>1. /\ n_new = 1 /\ offset[r] \in Nat
      /\ keys = EntriesFrom(r, use[r], 0, offset[r] + 1)
      /\ Len(keys) = offset[r] + 1
  BY GrownEntries DEF AttentionInv
<1>2. m \in Nat /\ offset[r] <= m
  <2>1. \A t \in batch : offset[t] \in Nat /\ offset[t] <= MaxLen
    <3> SUFFICES ASSUME NEW t \in batch PROVE offset[t] \in Nat /\ offset[t] <= MaxLen
      OBVIOUS
    <3>1. t \in Table /\ offset[t] \in Nat /\ known[t] \in 0..MaxLen
      BY DEF AttentionInv, TypeOK
    <3>2. offset[t] + 1 = known[t]
      BY <1>1, <3>1 DEF AttentionInv, PassShape
    <3> QED BY <3>1, <3>2, AttentionAssumption
  <2>2. offsets \in SUBSET Nat /\ offsets # {} /\ offset[r] \in offsets
    BY <2>1
  <2>3. \A x \in offsets : x <= MaxLen
    BY <2>1
  <2> HIDE DEF offsets
  <2>4. MaxLen \in Nat
    BY AttentionAssumption
  <2>5. m \in offsets /\ \A y \in offsets : y <= m
    BY <2>2, <2>3, <2>4, MaxOfBounded, Zenon
  <2> QED BY <2>2, <2>5
<1>3. PaddedLen = m + 1
  BY DEF PaddedLen
<1> HIDE DEF keys, offsets, m
<1>4. /\ PadStart(r) = pad /\ pad \in Nat
      /\ PaddedLen - Len(keys) = pad /\ PaddedLen - 1 = m
  BY <1>1, <1>2, <1>3 DEF PadStart
<1>5. \A c \in pad..m : /\ c - pad \in 0..offset[r] /\ c >= pad
                        /\ c - pad + 1 \in 1..(offset[r] + 1)
                        /\ 0 + (c - pad + 1) - 1 = c - pad
  BY <1>1, <1>2
<1>6. ASSUME NEW c \in pad..m
      PROVE  Column(r, layer, c) = [owner |-> r, use |-> use[r], pos |-> c - pad]
  <2>1. Column(r, layer, c) = keys[c - pad + 1]
    BY <1>4, <1>5 DEF Column, keys
  <2>2. keys[c - pad + 1] = [owner |-> r, use |-> use[r], pos |-> 0 + (c - pad + 1) - 1]
    BY <1>1, <1>5 DEF EntriesFrom
  <2> QED BY <1>5, <2>1, <2>2
<1>7. /\ pad \in Int /\ offset[r] \in Int /\ pad..m \in SUBSET Int /\ r \in Table
      /\ \A c \in pad..m : c - pad \in 0..offset[r]
      /\ \A k \in 0..offset[r] : k + pad \in pad..m
  BY <1>1, <1>2 DEF AttentionInv, TypeOK
<1> HIDE DEF pad
<1> DEFINE f == [c \in pad..m |-> Column(r, layer, c)]
           D == pad..m
<1>8. /\ f = [c \in D |-> f[c]]
      /\ \A c \in D : f[c] = [owner |-> r, use |-> use[r], pos |-> c - pad]
  BY <1>6
<1>9. BatchReads(r, layer) = [q \in 1..1 |-> f]
  BY <1>4 DEF BatchReads
<1> DEFINE p == offset[r]
<1>10. /\ r \in Table /\ p \in Int /\ pad \in Int /\ D \in SUBSET Int
       /\ \A c \in D : c - pad \in 0..p
       /\ \A k \in 0..p : k + pad \in D
  BY <1>7
<1> HIDE DEF f, D, p
<1>11. IsInjective(f) /\ Range(f) = OwnPast(r, p)
  BY <1>8, <1>10, ColumnsOfPast
<1> QED BY <1>9, <1>11 DEF p

\* What a layer of a pass does to the cache of a request of it.
LEMMA RunLayerCache ==
  ASSUME AttentionInv, RunLayer, NEW r \in batch
  PROVE  /\ r \in Table
         /\ cache'[r] = [cache[r] EXCEPT ![layer] = Grown(r, layer)]
         /\ \A l \in Layer :
              cache'[r][l] = IF l = layer
                             THEN EntriesFrom(r, use[r], 0, offset[r] + n_new)
                             ELSE cache[r][l]
<1>1. r \in Table /\ layer \in Layer /\ cache \in [Table -> [Layer -> Seq(Entry)]]
  BY DEF AttentionInv, TypeOK
<1>2. cache'[r] = [cache[r] EXCEPT ![layer] = Grown(r, layer)]
  BY <1>1 DEF RunLayer
<1>3. cache[r] \in [Layer -> Seq(Entry)]
  BY <1>1
<1>4. Grown(r, layer) = EntriesFrom(r, use[r], 0, offset[r] + n_new)
  BY GrownEntries
<1> QED BY <1>1, <1>2, <1>3, <1>4

\* The types after a layer.
LEMMA RunLayerTypes ==
  ASSUME AttentionInv, RunLayer
  PROVE  TypeOK' /\ DOMAIN read' = Table
<1> USE AttentionAssumption
<1>1. TypeOK
  BY DEF AttentionInv
<1>2. ASSUME NEW r \in Table PROVE cache'[r] \in [Layer -> Seq(Entry)]
  <2>1. CASE r \in batch
    <3>1. /\ cache[r] \in [Layer -> Seq(Entry)]
          /\ cache'[r] = [cache[r] EXCEPT ![layer] = Grown(r, layer)]
      BY <1>1, <2>1, RunLayerCache DEF TypeOK
    <3>2. Grown(r, layer) \in Seq(Entry)
      <4> DEFINE n == offset[r] + n_new
                 S == [owner : {r}, use : {use[r]}, pos : Nat]
      <4>1. Grown(r, layer) = EntriesFrom(r, use[r], 0, n) /\ n \in Nat
        BY <2>1, GrownEntries
      <4>2. S \subseteq Entry
        BY <1>1 DEF TypeOK, Entry
      <4> HIDE DEF n
      <4>3. EntriesFrom(r, use[r], 0, n) \in Seq(S)
        BY <4>1, EntriesLen
      <4> HIDE DEF S
      <4> QED BY <4>1, <4>2, <4>3
    <3> QED BY <3>1, <3>2
  <2>2. CASE r \notin batch
    BY <1>1, <2>2 DEF RunLayer, TypeOK
  <2> QED BY <2>1, <2>2
<1>3. DOMAIN cache' = Table /\ cache' = [r \in Table |-> cache'[r]]
  BY DEF RunLayer
<1>4. cache' \in [Table -> [Layer -> Seq(Entry)]]
  BY <1>2, <1>3
<1>5. known' \in [Table -> 1..MaxLen]
  <2>1. CASE layer < NumLayers
    BY <1>1, <2>1 DEF RunLayer, TypeOK
  <2>2. CASE ~(layer < NumLayers)
    <3>1. known' = [r \in Table |-> IF r \in batch /\ kind # "resume"
                                   THEN known[r] + 1 ELSE known[r]]
      BY <2>2 DEF RunLayer
    <3>2. ASSUME NEW r \in Table PROVE known'[r] \in 1..MaxLen
      <4>1. known[r] \in 1..MaxLen /\ PassShape(r)
        BY <1>1 DEF TypeOK, AttentionInv
      <4> QED BY <3>1, <4>1 DEF PassShape
    <3> QED BY <3>1, <3>2
  <2> QED BY <2>1, <2>2
<1>6. layer' \in Layer
  BY <1>1 DEF RunLayer, TypeOK, Layer
<1>7. /\ kind' \in {"none", "forward", "resume", "batch"} /\ batch' \subseteq Table
      /\ prefilled' \subseteq Table /\ preempted' \subseteq Table
  BY <1>1 DEF RunLayer, TypeOK
<1> QED BY <1>1, <1>4, <1>5, <1>6, <1>7 DEF RunLayer, TypeOK

\* The queries of a layer.
LEMMA RunLayerReads ==
  ASSUME AttentionInv, RunLayer
  PROVE  ReadsOwnPast'
<1> SUFFICES ASSUME NEW r \in Table, NEW q \in DOMAIN read'[r]
             PROVE  /\ IsInjective(read'[r][q])
                    /\ Range(read'[r][q]) = OwnPast(r, offset[r] + q - 1)'
  BY DEF ReadsOwnPast
<1>1. \A p : OwnPast(r, p)' = OwnPast(r, p)
  BY DEF OwnPast, RunLayer
<1>2. offset' = offset
  BY DEF RunLayer
<1>3. read'[r] = IF r \notin batch THEN read[r]
                 ELSE IF kind = "batch" THEN BatchReads(r, layer)
                 ELSE ForwardReads(r, layer)
  BY DEF RunLayer
<1>4. /\ IsInjective(read'[r][q])
      /\ Range(read'[r][q]) = OwnPast(r, offset[r] + q - 1)
  <2>1. CASE r \notin batch
    <3>1. read'[r] = read[r]
      BY <1>3, <2>1, Zenon
    <3> QED BY <3>1 DEF AttentionInv, ReadsOwnPast
  <2>2. CASE r \in batch /\ kind = "batch"
    <3>1. read'[r] = BatchReads(r, layer)
      BY <1>3, <2>2, Zenon
    <3>2. offset[r] \in Nat
      BY <2>2, GrownEntries
    <3>3. q = 1 /\ offset[r] + q - 1 = offset[r]
      BY <2>2, <3>1, <3>2, BatchReadsPast
    <3> QED BY <2>2, <3>1, <3>3, BatchReadsPast
  <2>3. CASE r \in batch /\ kind # "batch"
    <3>1. read'[r] = ForwardReads(r, layer)
      BY <1>3, <2>3
    <3>2. q \in 1..n_new
      BY <3>1 DEF ForwardReads
    <3> QED BY <2>3, <3>1, <3>2, ForwardReadsPast
  <2> QED BY <2>1, <2>2, <2>3
<1> QED BY <1>1, <1>2, <1>4

\* One layer of a pass.
LEMMA RunLayerKeeps ==
  ASSUME AttentionInv, RunLayer
  PROVE  AttentionInv'
<1> USE AttentionAssumption
<1>1. TypeOK /\ layer \in Layer /\ 1 \in Layer
  BY DEF AttentionInv, TypeOK, Layer
<1>2. n_new' = n_new /\ offset' = offset /\ use' = use
  BY DEF RunLayer
<1>3. ASSUME NEW r \in Table, r \notin batch
      PROVE  PassShape(r)' /\ CacheShape(r)'
  <2>1. /\ cache'[r] = cache[r] /\ known'[r] = known[r] /\ r \notin batch'
        /\ r \in prefilled' <=> r \in prefilled
    BY <1>1, <1>3 DEF RunLayer, TypeOK
  <2>2. PassShape(r) /\ CacheShape(r)
    BY DEF AttentionInv
  <2>3. \A l \in Layer : Filled(r, l)' = Filled(r, l)
    BY <1>3, <2>1 DEF Filled
  <2>4. PassShape(r)'
    BY <1>3, <2>1, <2>2 DEF PassShape
  <2> QED BY <1>2, <2>1, <2>2, <2>3, <2>4 DEF CacheShape
<1>4. ASSUME NEW r \in batch
      PROVE  PassShape(r)' /\ CacheShape(r)'
  <2> DEFINE n == offset[r] + n_new
  <2>1. r \in Table /\ offset[r] \in Nat /\ n_new \in Nat /\ n \in Nat
    BY GrownEntries
  <2>2. PassShape(r) /\ CacheShape(r) /\ known[r] \in Nat
    BY <1>1, <2>1 DEF AttentionInv, TypeOK
  <2>3. ASSUME NEW l \in Layer PROVE cache'[r][l] = IF l <= layer
                                                   THEN EntriesFrom(r, use[r], 0, n)
                                                   ELSE EntriesFrom(r, use[r], 0, offset[r])
    <3>0. cache'[r][l] = IF l = layer THEN EntriesFrom(r, use[r], 0, n) ELSE cache[r][l]
      BY RunLayerCache, Zenon
    <3>1. l \in Nat /\ layer \in Nat
      BY <1>1 DEF Layer
    <3> HIDE DEF n
    <3>2. CASE l = layer
      BY <3>0, <3>1, <3>2
    <3>3. CASE l < layer
      <4>1. Filled(r, l) = n
        BY <3>3 DEF Filled, n
      <4>2. cache'[r][l] = cache[r][l] /\ l <= layer
        BY <3>0, <3>1, <3>3
      <4> QED BY <2>2, <4>1, <4>2 DEF CacheShape
    <3>4. CASE l > layer
      <4>1. Filled(r, l) = offset[r]
        BY <3>1, <3>4 DEF Filled
      <4>2. cache'[r][l] = cache[r][l] /\ ~(l <= layer)
        BY <3>0, <3>1, <3>4
      <4> QED BY <2>2, <4>1, <4>2 DEF CacheShape
    <3> QED BY <3>1, <3>2, <3>3, <3>4
  <2>4. CASE layer < NumLayers
    <3>1. layer' = layer + 1 /\ kind' = kind /\ batch' = batch /\ known' = known
      BY <2>4 DEF RunLayer
    <3>2. PassShape(r)'
      BY <1>2, <2>2, <3>1 DEF PassShape
    <3>3. ASSUME NEW l \in Layer
          PROVE  Filled(r, l)' = IF l <= layer THEN n ELSE offset[r]
      <4>1. l < layer + 1 <=> l <= layer
        BY <1>1 DEF Layer
      <4> QED BY <1>2, <3>1, <4>1 DEF Filled
    <3>4. CacheShape(r)'
      BY <1>2, <2>1, <2>3, <3>3 DEF CacheShape
    <3> QED BY <3>2, <3>4
  <2>5. CASE ~(layer < NumLayers)
    <3>1. /\ layer' = 1 /\ kind' = "none" /\ batch' = {} /\ r \in prefilled'
          /\ known'[r] = IF kind # "resume" THEN known[r] + 1 ELSE known[r]
      BY <2>1, <2>5 DEF RunLayer
    <3>2. known'[r] - 1 = n
      BY <2>1, <2>2, <3>1 DEF PassShape
    <3>3. \A l \in Layer : l <= layer
      BY <1>1, <2>5 DEF Layer
    <3>4. \A l \in Layer : cache'[r][l] = EntriesFrom(r, use[r], 0, n)
      BY <2>3, <3>3
    <3>6. PassShape(r)'
      BY <3>1 DEF PassShape
    <3>7. \A l \in Layer : Filled(r, l)' = n
      BY <3>1, <3>2 DEF Filled
    <3>8. CacheShape(r)'
      BY <1>2, <2>1, <3>4, <3>7 DEF CacheShape
    <3> QED BY <3>6, <3>8
  <2> QED BY <2>4, <2>5
<1>5. /\ kind' = "none" => batch' = {} /\ layer' = 1
      /\ kind' = "batch" => n_new' = 1
  BY DEF RunLayer, AttentionInv
<1>6. (\A r \in Table \ (prefilled \cup preempted) : known[r] \in PromptLens)'
  <2>1. CASE layer < NumLayers
    BY <2>1 DEF RunLayer, AttentionInv
  <2>2. CASE ~(layer < NumLayers)
    BY <2>2 DEF RunLayer, AttentionInv
  <2> QED BY <2>1, <2>2
<1> QED BY <1>3, <1>4, <1>5, <1>6, RunLayerTypes, RunLayerReads DEF AttentionInv

\* The invariant of the contiguous caches: what each layer of each cache holds
\* is told by the tokens of its request and by the pass that runs, and every
\* query reads its own past.
THEOREM AttentionCorrect == Spec => []AttentionInv
<1>1. AttentionInv /\ [Next]_vars => AttentionInv'
  <2> SUFFICES ASSUME AttentionInv, [Next]_vars PROVE AttentionInv'
    OBVIOUS
  <2>1. ASSUME NEW r \in Table, Prefill(r) PROVE AttentionInv'
    BY <2>1, PrefillKeeps
  <2>2. ASSUME NEW r \in Table, Resume(r) PROVE AttentionInv'
    BY <2>2, ResumeKeeps
  <2>3. ASSUME NEW r \in Table, Decode(r) PROVE AttentionInv'
    BY <2>3, DecodeKeeps
  <2>4. ASSUME NEW r \in Table, Drop(r) PROVE AttentionInv'
    BY <2>4, DropKeeps
  <2>5. CASE DecodeBatch
    BY <2>5, DecodeBatchKeeps
  <2>6. CASE RunLayer
    BY <2>6, RunLayerKeeps
  <2>7. CASE UNCHANGED vars
    BY <2>7 DEF vars, pass, AttentionInv, TypeOK, PassShape, CacheShape, Filled,
                ReadsOwnPast, OwnPast
  <2> QED BY <2>1, <2>2, <2>3, <2>4, <2>5, <2>6, <2>7 DEF Next
<1> QED BY AttentionInit, <1>1, PTL DEF Spec

\* The type invariant.
THEOREM AttentionTypeCorrect == Spec => []TypeOK
<1>1. AttentionInv => TypeOK
  BY DEF AttentionInv
<1> QED BY AttentionCorrect, <1>1, PTL

\* No query of a prefill, a resumed prefill, a single decode or a padded batch
\* reads a later position, padding or an old entry, or misses one of its own.
THEOREM QueriesReadTheirPast == Spec => []ReadsOwnPast
<1>1. AttentionInv => ReadsOwnPast
  BY DEF AttentionInv
<1> QED BY AttentionCorrect, <1>1, PTL

\* A layer of a pass over some tokens extends the cache of a request of it.
LEMMA RunLayerExtends ==
  ASSUME AttentionInv, RunLayer, NEW r \in batch, n_new > 0
  PROVE  Own(r)!Next
<1> DEFINE kv == [t \in {r} |-> cache[t]]
           kvn == [t \in {r} |-> cache'[t]]
           n == n_new
           m == offset[r]
<1>1. /\ r \in Table /\ layer \in Layer /\ m \in Nat /\ n \in Nat /\ n > 0
      /\ Grown(r, layer) = EntriesFrom(r, use[r], 0, m + n)
      /\ Len(Grown(r, layer)) = m + n
      /\ CacheShape(r)
  BY GrownEntries DEF AttentionInv
<1>2. cache'[r] = [cache[r] EXCEPT ![layer] = Grown(r, layer)]
  BY RunLayerCache
<1>3. layer \in Int /\ ~(layer < layer)
  BY <1>1, AttentionAssumption DEF Layer
<1>4. cache[r][layer] = EntriesFrom(r, use[r], 0, m)
  <2>1. Filled(r, layer) = m
    BY <1>3 DEF Filled
  <2> QED BY <1>1, <2>1 DEF CacheShape
<1>5. Len(cache[r][layer]) = m
  <2> HIDE DEF m
  <2>1. Len(EntriesFrom(r, use[r], 0, m)) = m
    BY <1>1, EntriesLen
  <2> QED BY <1>4, <2>1
<1>6. cache[r] \in [Layer -> Seq(Entry)]
  BY <1>1 DEF AttentionInv, TypeOK
<1>7. kvn[r][layer] = Grown(r, layer) /\ kv[r][layer] = cache[r][layer]
  BY <1>1, <1>2, <1>6
<1>8. Len(kvn[r][layer]) - Len(kv[r][layer]) = n
  <2>1. Len(kvn[r][layer]) = m + n
    BY <1>1, <1>7, Zenon
  <2>2. Len(kv[r][layer]) = m
    BY <1>5, <1>7, Zenon
  <2> HIDE DEF kv, kvn, m, n
  <2> QED BY <1>1, <2>1, <2>2
<1>9. kvn = [kv EXCEPT ![r][layer] = Grown(r, layer)]
  BY <1>2
<1>10. Grown(r, layer) = cache[r][layer] \o
         [k \in 1..n |-> [owner |-> r, use |-> use[r], pos |-> m + k - 1]]
  BY DEF Grown, NewEntries
<1>11. ASSUME layer > 1
       PROVE  Len(cache[r][layer]) + n = Len(cache[r][layer - 1])
  <2>1. layer - 1 \in Layer /\ layer - 1 < layer
    BY <1>1, <1>11, AttentionAssumption DEF Layer
  <2>2. Filled(r, layer - 1) = m + n
    BY <2>1 DEF Filled
  <2>3. cache[r][layer - 1] = EntriesFrom(r, use[r], 0, m + n)
    BY <1>1, <2>1, <2>2 DEF CacheShape
  <2> QED BY <1>1, <1>5, <2>3
<1>12. use' = use
  BY DEF RunLayer
<1>13. PICK l \in Layer : l = layer
  BY <1>1
<1>14. Own(r)!Extend(r, l)
  <2>1. kvn[r][layer] = kv[r][layer] \o
          [k \in 1..n |-> [owner |-> r, use |-> use[r], pos |-> Len(kv[r][layer]) + k - 1]]
    BY <1>5, <1>7, <1>10
  <2>2. layer > 1 => Len(kv[r][layer]) + n = Len(kv[r][layer - 1])
    BY <1>11
  <2>3. kvn = [kv EXCEPT ![r][layer] = kv[r][layer] \o
          [k \in 1..n |-> [owner |-> r, use |-> use[r], pos |-> Len(kv[r][layer]) + k - 1]]]
    BY <1>7, <1>9, <2>1
  <2> HIDE DEF n, m
  <2> QED BY <1>1, <1>8, <1>12, <1>13, <2>2, <2>3 DEF Own!Extend, Own!Following
<1>15. r \in {r}
  OBVIOUS
<1>16. l \in Own(r)!Layer
  BY <1>13 DEF Own!Layer, Layer
<1> QED BY <1>14, <1>15, <1>16, Zenon DEF Own!Next

\* A layer of a pass over no token leaves it as it was.
LEMMA RunLayerOverNothing ==
  ASSUME AttentionInv, RunLayer, NEW r \in batch, ~(n_new > 0)
  PROVE  cache'[r] = cache[r]
<1>1. r \in Table /\ layer \in Layer /\ offset[r] \in Nat /\ n_new \in Nat /\ CacheShape(r)
  BY GrownEntries DEF AttentionInv
<1>2. n_new = 0 /\ offset[r] + n_new = offset[r] /\ ~(layer < layer)
  BY <1>1, AttentionAssumption DEF Layer
<1>3. Filled(r, layer) = offset[r]
  BY <1>2 DEF Filled
<1>4. cache[r][layer] = EntriesFrom(r, use[r], 0, offset[r])
  BY <1>1, <1>3 DEF CacheShape
<1>5. Grown(r, layer) = cache[r][layer]
  BY <1>2, <1>4, GrownEntries
<1>6. cache[r] \in [Layer -> Seq(Entry)]
  BY <1>1 DEF AttentionInv, TypeOK
<1>7. cache'[r] = [cache[r] EXCEPT ![layer] = Grown(r, layer)]
  BY RunLayerCache
<1> QED BY <1>1, <1>5, <1>6, <1>7

\* Dropping a cache clears it.
LEMMA DropClears ==
  ASSUME AttentionInv, NEW r \in Table, Drop(r)
  PROVE  Own(r)!Next
<1>1. /\ cache \in [Table -> [Layer -> Seq(Entry)]]
      /\ use \in [Table -> 0..MaxUses]
  BY DEF AttentionInv, TypeOK
<1>2. /\ cache'[r] = [l \in Layer |-> <<>>] /\ use'[r] = use[r] + 1
  BY <1>1 DEF Drop
<1>3. Own(r)!Clear(r)
  BY <1>2 DEF Own!Clear, Own!Layer, Layer
<1>4. r \in {r}
  OBVIOUS
<1> QED BY <1>3, <1>4, Zenon DEF Own!Next

\* The contiguous path implements the cache that the paged path implements too:
\* each cache grows by whole passes, layer by layer, each entry its own and at
\* its own position, and is emptied as a whole, whatever passes, evictions and
\* batches it goes through.
THEOREM AttentionImplementsContiguous == Spec => ImplementsContiguous
<1>1. Init => \A r \in Table : Own(r)!Init
  BY DEF Init, Own!Init, Own!Layer, Layer
<1>2. AttentionInv /\ [Next]_vars
        => \A r \in Table : [Own(r)!Next]_(Own(r)!vars)
  <2> SUFFICES ASSUME AttentionInv, [Next]_vars, NEW r \in Table
               PROVE  [Own(r)!Next]_(Own(r)!vars)
    OBVIOUS
  <2>1. ASSUME cache'[r] = cache[r], use'[r] = use[r]
        PROVE  UNCHANGED Own(r)!vars
    BY <2>1 DEF Own!vars
  <2>2. ASSUME NEW t \in Table, Prefill(t) \/ Resume(t) \/ Decode(t)
        PROVE  UNCHANGED Own(r)!vars
    BY <2>1, <2>2 DEF Prefill, Resume, Decode, Start
  <2>3. CASE DecodeBatch
    BY <2>1, <2>3 DEF DecodeBatch, Start
  <2>4. ASSUME NEW t \in Table, Drop(t)
        PROVE  [Own(r)!Next]_(Own(r)!vars)
    <3>1. CASE t = r
      BY <2>4, <3>1, DropClears
    <3>2. CASE t # r
      BY <2>1, <2>4, <3>2 DEF Drop, AttentionInv, TypeOK
    <3> QED BY <3>1, <3>2
  <2>5. CASE RunLayer
    <3>1. CASE r \in batch /\ n_new > 0
      BY <2>5, <3>1, RunLayerExtends
    <3>2. CASE r \in batch /\ ~(n_new > 0)
      BY <2>1, <2>5, <3>2, RunLayerOverNothing DEF RunLayer
    <3>3. CASE r \notin batch
      BY <2>1, <2>5, <3>3 DEF RunLayer
    <3> QED BY <3>1, <3>2, <3>3
  <2>6. CASE UNCHANGED vars
    BY <2>1, <2>6 DEF vars
  <2> QED BY <2>2, <2>3, <2>4, <2>5, <2>6 DEF Next
<1> QED BY AttentionCorrect, <1>1, <1>2, PTL DEF Spec, ImplementsContiguous

-----------------------------------------------------------------------------
(* The sharded layers *)

\* What an integer division returns.
LEMMA Quotient ==
  ASSUME NEW b \in Nat \ {0}, NEW q \in Nat, NEW r \in 0..(b - 1)
  PROVE  (q * b + r) \div b = q
<1> DEFINE n == q * b + r
           d == n \div b
<1>1. n \in Nat /\ n = q * b + r
  <2>1. q * b \in Nat
    OBVIOUS
  <2> QED BY <2>1
<1>2. d \in Nat /\ n % b \in 0..(b - 1) /\ n = b * d + (n % b)
  <2> HIDE DEF n
  <2> QED BY <1>1, DivMod
<1>3. PICK e \in 0..(b - 1) : n = b * d + e
  BY <1>2
<1> HIDE DEF d, n
<1>4. \A x \in Nat, y \in Nat : x >= y + 1 => b * x >= b * y + b
  OBVIOUS
<1>5. b * d = d * b /\ q * b = b * q
  BY <1>2
<1>6. ~(d >= q + 1)
  <2> SUFFICES ASSUME d >= q + 1 PROVE FALSE
    OBVIOUS
  <2>1. b * d >= b * q + b
    BY <1>2, <1>4
  <2>2. b * d \in Nat /\ b * q \in Nat
    BY <1>2
  <2> QED BY <1>1, <1>3, <1>5, <2>1, <2>2
<1>7. ~(q >= d + 1)
  <2> SUFFICES ASSUME q >= d + 1 PROVE FALSE
    OBVIOUS
  <2>1. b * q >= b * d + b
    BY <1>2, <1>4
  <2>2. b * d \in Nat /\ b * q \in Nat
    BY <1>2
  <2> QED BY <1>1, <1>3, <1>5, <2>1, <2>2
<1>8. d = q
  BY <1>2, <1>6, <1>7
<1> QED BY <1>8 DEF d, n

\* A number that divides another.
LEMMA Multiple ==
  ASSUME NEW d \in Nat \ {0}, NEW m \in Nat, Divides(d, m)
  PROVE  m \div d \in Nat /\ m = (m \div d) * d
<1>1. m \div d \in Nat /\ m = d * (m \div d) + (m % d)
  BY DivMod
<1>2. m % d = 0
  BY DEF Divides
<1> QED BY <1>1, <1>2

\* The n blocks of b numbers each: each number is in one of them.
LEMMA InOneBlock ==
  ASSUME NEW n \in Nat, NEW b \in Nat
  PROVE  /\ \A x \in 0..(n * b - 1) :
              /\ b # 0 /\ x \div b \in 0..(n - 1) /\ x % b \in 0..(b - 1)
              /\ x = (x \div b) * b + (x % b)
         /\ \A s \in 0..(n - 1), j \in 0..(b - 1) :
              /\ s * b + j \in 0..(n * b - 1)
              /\ (s * b + j) \div b = s
<1>1. n * b \in Nat
  OBVIOUS
<1>2. ASSUME NEW x \in 0..(n * b - 1)
      PROVE  /\ b # 0 /\ x \div b \in 0..(n - 1) /\ x % b \in 0..(b - 1)
             /\ x = (x \div b) * b + (x % b)
  <2>1. x \in Nat /\ x < n * b
    BY <1>1
  <2>2. b # 0
    <3>1. b = 0 => n * b = 0
      OBVIOUS
    <3> QED BY <2>1, <3>1
  <2>3. /\ x \div b \in Nat /\ x % b \in 0..(b - 1)
        /\ x = b * (x \div b) + (x % b)
    BY <2>1, <2>2, DivMod
  <2>4. x \div b < n
    BY <2>1, <2>2, RowMajor
  <2> QED BY <2>2, <2>3, <2>4
<1>3. ASSUME NEW s \in 0..(n - 1), NEW j \in 0..(b - 1)
      PROVE  /\ s * b + j \in 0..(n * b - 1)
             /\ (s * b + j) \div b = s
  <2>1. s \in Nat /\ b \in Nat \ {0} /\ j \in Nat /\ j < b
    OBVIOUS
  <2>2. (s * b + j) \div b = s
    BY <2>1, Quotient
  <2>3. s + 1 <= n
    OBVIOUS
  <2>4. (s + 1) * b <= n * b
    <3>1. \A x, y \in Nat : x <= y => x * b <= y * b
      OBVIOUS
    <3>2. s + 1 \in Nat
      BY <2>1
    <3> QED BY <2>3, <3>1, <3>2
  <2>5. (s + 1) * b = s * b + b /\ s * b \in Nat
    BY <2>1
  <2>6. s * b + j \in 0..(n * b - 1)
    BY <1>1, <2>1, <2>4, <2>5
  <2> QED BY <2>2, <2>6
<1> QED BY <1>2, <1>3

Sizes == [n : Nat \ {0}, inter : Nat, q_heads : Nat \ {0}, kv_heads : Nat \ {0}]

HeadTerms == [q : Nat, kv : Nat, col : Nat]

\* The partial sums so far are the ones of the shards so far.
PartialsInv ==
  /\ op \in {"none", "mlp", "attention"} /\ size \in Sizes
  /\ outcome \in {"computing", "done", "raised"}
  /\ op = "mlp" =>
       /\ outcome # "raised" => Divides(size.n, size.inter)
       /\ partials \in Seq(SUBSET Nat)
       /\ \A s \in 1..Len(partials) : partials[s] = MlpPartial(s - 1)
  /\ op = "attention" =>
       /\ Divides(size.kv_heads, size.q_heads)
       /\ Len(partials) > 0 => ~Mismatch
       /\ outcome = "raised" => Mismatch
       /\ partials \in Seq(SUBSET HeadTerms)
       /\ \A s \in 1..Len(partials) : partials[s] = AttentionPartial(s - 1)
  /\ op # "none" => /\ Len(partials) <= size.n
                    /\ outcome = "done" => Len(partials) = size.n

ShardInv ==
  /\ PartialsInv /\ MlpIsWhole
  /\ op = "attention" /\ outcome = "done" /\ Divides(size.n, size.q_heads)
       => total = Once(AttentionWhole)

\* all_reduce adds a term once if it is in the partial sum of one shard only.
LEMMA AddedOnce ==
  ASSUME AllReduce, NEW S, partials \in Seq(S), NEW W,
         \A s \in DOMAIN partials : partials[s] \subseteq W,
         \A x \in W : \E s \in DOMAIN partials :
           \A t \in DOMAIN partials : x \in partials[t] <=> t = s
  PROVE  total' = Once(W)
<1>1. UNION {partials[s] : s \in DOMAIN partials} = W
  <2>1. ASSUME NEW x \in W PROVE \E s \in DOMAIN partials : x \in partials[s]
    OBVIOUS
  <2> QED BY <2>1
<1>2. ASSUME NEW x \in W PROVE Copies(x) = 1
  <2>1. PICK s \in DOMAIN partials :
          \A t \in DOMAIN partials : x \in partials[t] <=> t = s
    OBVIOUS
  <2>2. {t \in DOMAIN partials : x \in partials[t]} = {s}
    BY <2>1
  <2> QED BY <2>2, FS_Singleton DEF Copies
<1>3. total' = [x \in W |-> Copies(x)]
  BY <1>1 DEF AllReduce
<1> QED BY <1>2, <1>3 DEF Once

\* The sizes as numbers.
LEMMA SizesTypes ==
  ASSUME PartialsInv
  PROVE  /\ size.n \in Nat \ {0} /\ size.inter \in Nat
         /\ size.q_heads \in Nat \ {0} /\ size.kv_heads \in Nat \ {0}
         /\ UnitsPerShard \in Nat /\ QPer \in Nat /\ KvPer \in Nat /\ Rep \in Nat
<1>1. /\ size.n \in Nat \ {0} /\ size.inter \in Nat
      /\ size.q_heads \in Nat \ {0} /\ size.kv_heads \in Nat \ {0}
  BY DEF PartialsInv, Sizes
<1> QED BY <1>1, DivMod DEF UnitsPerShard, QPer, KvPer, Rep

\* The kv head that a query head of a shard meets is the one it has on one
\* device, if the heads of the shard match.
LEMMA SameKvHead ==
  ASSUME PartialsInv, op = "attention", ~Mismatch,
         NEW s \in Nat, NEW j \in 0..(QPer - 1)
  PROVE  /\ s * QPer + j \in Nat
         /\ Expanded(j) \in Nat /\ s * KvPer + Expanded(j) \in Nat
         /\ (s * QPer + j) \div Rep = s * KvPer + Expanded(j)
<1>1. QPer \in Nat /\ KvPer \in Nat /\ Rep \in Nat /\ QPer = KvPer * Rep
  BY SizesTypes DEF Mismatch
<1>2. Rep # 0
  <2>1. Rep = 0 => KvPer * Rep = 0
    BY <1>1
  <2> QED BY <1>1, <2>1
<1> DEFINE e == j \div Rep
           f == j % Rep
<1>3. e \in Nat /\ f \in 0..(Rep - 1) /\ j = Rep * e + f /\ j \in Nat
  <2>1. j \in Nat
    BY <1>1
  <2> QED BY <1>1, <1>2, <2>1, DivMod
<1> HIDE DEF e, f
<1>4. s * KvPer + e \in Nat /\ s * QPer + j \in Nat
  BY <1>1, <1>3
<1>5. s * QPer + j = (s * KvPer + e) * Rep + f
  <2>1. s * QPer = (s * KvPer) * Rep
    BY <1>1
  <2>2. (s * KvPer + e) * Rep = (s * KvPer) * Rep + Rep * e
    BY <1>1, <1>3
  <2>3. s * QPer \in Nat /\ Rep * e \in Nat /\ f \in Nat
    BY <1>1, <1>3
  <2> QED BY <1>3, <2>1, <2>2, <2>3
<1>6. ((s * KvPer + e) * Rep + f) \div Rep = s * KvPer + e
  <2> DEFINE g == s * KvPer + e
  <2>1. g \in Nat
    BY <1>4
  <2> HIDE DEF g
  <2>2. (g * Rep + f) \div Rep = g
    BY <1>1, <1>2, <1>3, <2>1, Quotient
  <2> QED BY <2>2 DEF g
<1>7. Expanded(j) = e
  BY DEF Expanded, e
<1> QED BY <1>3, <1>4, <1>5, <1>6, <1>7

\* No layer is computed yet.
LEMMA ShardingInit == ShardInit => ShardInv
<1> SUFFICES ASSUME ShardInit PROVE ShardInv
  OBVIOUS
<1>1. size \in Sizes
  BY DEF ShardInit, Sizes
<1> QED BY <1>1 DEF ShardInit, ShardInv, PartialsInv, MlpIsWhole

\* The call of mlp, with its assertion.
LEMMA MlpCallKeeps ==
  ASSUME ShardInv, MlpCall
  PROVE  ShardInv'
<1>1. PICK n \in ShardCounts, inter \in UnitCounts :
        /\ op' = "mlp" /\ partials' = <<>>
        /\ size' = [n |-> n, inter |-> inter, q_heads |-> 1, kv_heads |-> 1]
        /\ outcome' = IF MlpRaises(n, inter) THEN "raised" ELSE "computing"
  BY DEF MlpCall, Call
<1>2. size' \in Sizes /\ size'.n = n /\ size'.inter = inter
  BY <1>1, ShardingAssumption DEF Sizes
<1>3. outcome' # "raised" => Divides(n, inter)
  BY <1>1 DEF MlpRaises
<1>4. Len(partials') = 0 /\ partials' \in Seq(SUBSET Nat) /\ 0 <= n
  BY <1>1, ShardingAssumption
<1>5. outcome' \in {"computing", "raised"}
  BY <1>1
<1> QED BY <1>1, <1>2, <1>3, <1>4, <1>5 DEF ShardInv, PartialsInv, MlpIsWhole

\* The call of attention, without one.
LEMMA AttentionCallKeeps ==
  ASSUME ShardInv, AttentionCall
  PROVE  ShardInv'
<1>1. PICK n \in ShardCounts, q_heads \in HeadCounts, kv_heads \in HeadCounts :
        /\ Divides(kv_heads, q_heads)
        /\ op' = "attention" /\ partials' = <<>> /\ outcome' = "computing"
        /\ size' = [n |-> n, inter |-> 0, q_heads |-> q_heads, kv_heads |-> kv_heads]
  BY DEF AttentionCall, Call
<1>2. /\ size' \in Sizes /\ size'.n = n
      /\ size'.q_heads = q_heads /\ size'.kv_heads = kv_heads
  BY <1>1, ShardingAssumption DEF Sizes
<1>4. Len(partials') = 0 /\ partials' \in Seq(SUBSET HeadTerms) /\ 0 <= n
  BY <1>1, ShardingAssumption
<1> QED BY <1>1, <1>2, <1>4 DEF ShardInv, PartialsInv, MlpIsWhole

\* The next shard of mlp.
LEMMA MlpShardKeeps ==
  ASSUME ShardInv, ComputeMlpShard
  PROVE  ShardInv'
<1> DEFINE k == Len(partials)
<1>1. /\ PartialsInv /\ op = "mlp" /\ outcome = "computing" /\ k < size.n
      /\ partials \in Seq(SUBSET Nat)
      /\ partials' = Append(partials, MlpPartial(k))
      /\ op' = op /\ size' = size /\ outcome' = outcome
  BY DEF ShardInv, ComputeMlpShard, PartialsInv
<1>2. k \in Nat
  BY <1>1, LenProperties
<1>3. MlpPartial(k) \in SUBSET Nat
  <2>1. UnitsPerShard \in Nat
    BY <1>1, SizesTypes
  <2>2. \A j \in 0..(UnitsPerShard - 1) : k * UnitsPerShard + j \in Nat
    BY <1>2, <2>1
  <2> QED BY <2>2 DEF MlpPartial
<1>4. /\ partials' \in Seq(SUBSET Nat) /\ Len(partials') = k + 1
      /\ \A s \in 1..k : partials'[s] = partials[s]
      /\ partials'[k + 1] = MlpPartial(k)
  <2> DEFINE e == MlpPartial(k)
             T == SUBSET Nat
  <2>1. e \in T /\ partials \in Seq(T) /\ partials' = Append(partials, e)
    BY <1>1, <1>3
  <2> HIDE DEF e, T
  <2>2. /\ partials' \in Seq(T) /\ Len(partials') = k + 1
        /\ \A s \in 1..k : partials'[s] = partials[s]
        /\ partials'[k + 1] = e
    BY <2>1, AppendProperties
  <2> QED BY <2>2 DEF e, T
<1>5. \A i : MlpPartial(i)' = MlpPartial(i)
  BY <1>1 DEF MlpPartial, UnitsPerShard
<1>6. ASSUME NEW s \in 1..(k + 1) PROVE partials'[s] = MlpPartial(s - 1)
  <2>1. CASE s \in 1..k
    BY <1>1, <1>4, <2>1 DEF PartialsInv
  <2>2. CASE s = k + 1
    <3>1. (k + 1) - 1 = k
      BY <1>2
    <3> QED BY <1>4, <2>2, <3>1
  <2> QED BY <1>2, <2>1, <2>2
<1>7. size.n \in Nat
  BY <1>1, SizesTypes
<1> HIDE DEF k
<1>8. k + 1 <= size.n
  BY <1>1, <1>2, <1>7
<1>9. \A s \in 1..Len(partials') : partials'[s] = MlpPartial(s - 1)'
  BY <1>4, <1>5, <1>6
<1>10. PartialsInv'
  <2>1. Divides(size.n, size.inter)'
    BY <1>1 DEF PartialsInv, Divides
  <2> QED BY <1>1, <1>4, <1>8, <1>9, <2>1 DEF PartialsInv
<1> QED BY <1>1, <1>10 DEF ShardInv, MlpIsWhole

\* The next shard of attention.
LEMMA AttentionShardKeeps ==
  ASSUME ShardInv, ComputeAttentionShard
  PROVE  ShardInv'
<1> DEFINE k == Len(partials)
<1>1. /\ PartialsInv /\ op = "attention" /\ outcome = "computing" /\ k < size.n
      /\ partials \in Seq(SUBSET HeadTerms)
      /\ op' = op /\ size' = size
  BY DEF ShardInv, ComputeAttentionShard, PartialsInv
<1>2. k \in Nat /\ size.n \in Nat
  BY <1>1, LenProperties, SizesTypes
<1>3. (Mismatch' <=> Mismatch) /\ \A i : AttentionPartial(i)' = AttentionPartial(i)
  BY <1>1 DEF Mismatch, AttentionPartial, Expanded, QPer, KvPer, Rep
<1>4. CASE Mismatch
  <2>1. outcome' = "raised" /\ partials' = partials
    BY <1>4 DEF ComputeAttentionShard
  <2>2. PartialsInv'
    BY <1>1, <1>2, <1>3, <1>4, <2>1 DEF PartialsInv, Divides
  <2> QED BY <1>1, <2>1, <2>2 DEF ShardInv, MlpIsWhole
<1>5. CASE ~Mismatch
  <2> DEFINE e == AttentionPartial(k)
             T == SUBSET HeadTerms
  <2>1. outcome' = "computing" /\ partials' = Append(partials, e)
    BY <1>1, <1>5 DEF ComputeAttentionShard
  <2>2. e \in T
    <3>1. ASSUME NEW j \in 0..(QPer - 1)
          PROVE  [q |-> k * QPer + j, kv |-> k * KvPer + Expanded(j),
                  col |-> k * QPer + j] \in HeadTerms
      BY <1>1, <1>2, <1>5, SameKvHead DEF HeadTerms
    <3> QED BY <3>1 DEF AttentionPartial
  <2>3. partials \in Seq(T)
    BY <1>1
  <2> HIDE DEF e, T
  <2>4. /\ partials' \in Seq(T) /\ Len(partials') = k + 1
        /\ \A s \in 1..k : partials'[s] = partials[s]
        /\ partials'[k + 1] = e
    BY <2>1, <2>2, <2>3, AppendProperties
  <2>5. ASSUME NEW s \in 1..(k + 1) PROVE partials'[s] = AttentionPartial(s - 1)
    <3>1. CASE s \in 1..k
      BY <1>1, <2>4, <3>1 DEF PartialsInv
    <3>2. CASE s = k + 1
      <4>1. (k + 1) - 1 = k
        BY <1>2
      <4> QED BY <2>4, <3>2, <4>1 DEF e
    <3> QED BY <1>2, <3>1, <3>2
  <2> HIDE DEF k
  <2>6. k + 1 <= size.n
    BY <1>1, <1>2
  <2>7. \A s \in 1..Len(partials') : partials'[s] = AttentionPartial(s - 1)'
    BY <1>3, <2>4, <2>5
  <2>8. PartialsInv'
    <3>1. partials' \in Seq(SUBSET HeadTerms)
      BY <2>4 DEF T
    <3>2. Divides(size.kv_heads, size.q_heads)'
      BY <1>1 DEF PartialsInv, Divides
    <3> QED BY <1>1, <1>3, <1>5, <2>1, <2>4, <2>6, <2>7, <3>1, <3>2 DEF PartialsInv
  <2> QED BY <1>1, <2>1, <2>8 DEF ShardInv, MlpIsWhole
<1> QED BY <1>4, <1>5

\* The sum of mlp.
LEMMA MlpReduced ==
  ASSUME ShardInv, AllReduce, op = "mlp"
  PROVE  total' = Once(MlpWhole)
<1> DEFINE u == UnitsPerShard
           n == size.n
<1>1. /\ PartialsInv /\ Len(partials) = n /\ partials \in Seq(SUBSET Nat)
      /\ Divides(n, size.inter)
      /\ \A s \in 1..Len(partials) : partials[s] = MlpPartial(s - 1)
  BY DEF ShardInv, AllReduce, PartialsInv
<1>2. n \in Nat \ {0} /\ u \in Nat /\ size.inter \in Nat
  BY <1>1, SizesTypes
<1>3. size.inter = n * u
  <2>1. size.inter = (size.inter \div n) * n
    BY <1>1, <1>2, Multiple
  <2>2. u * n = n * u
    BY <1>2
  <2> QED BY <2>1, <2>2 DEF UnitsPerShard
<1>4. DOMAIN partials = 1..n
  BY <1>1, LenProperties
<1>5. ASSUME NEW s \in DOMAIN partials
      PROVE  /\ s - 1 \in 0..(n - 1)
             /\ partials[s] = {(s - 1) * u + j : j \in 0..(u - 1)}
  <2>1. s - 1 \in 0..(n - 1)
    <3> HIDE DEF n
    <3> QED BY <1>2, <1>4
  <2>2. partials[s] = MlpPartial(s - 1)
    BY <1>1, <1>4
  <2> QED BY <2>1, <2>2, Zenon DEF MlpPartial
<1>6. MlpWhole = 0..(n * u - 1)
  BY <1>3 DEF MlpWhole
<1> HIDE DEF u, n
<1>7. ASSUME NEW s \in DOMAIN partials PROVE partials[s] \subseteq MlpWhole
  <2> DEFINE b == s - 1
  <2>1. b \in 0..(n - 1) /\ partials[s] = {b * u + j : j \in 0..(u - 1)}
    BY <1>5
  <2> HIDE DEF b
  <2>2. \A j \in 0..(u - 1) : b * u + j \in 0..(n * u - 1)
    BY <1>2, <2>1, InOneBlock
  <2> QED BY <1>6, <2>1, <2>2
<1>8. ASSUME NEW x \in MlpWhole
      PROVE  \E s \in DOMAIN partials :
               \A t \in DOMAIN partials : x \in partials[t] <=> t = s
  <2> DEFINE i == x \div u
  <2>1. /\ i \in 0..(n - 1) /\ x % u \in 0..(u - 1)
        /\ x = i * u + (x % u)
    BY <1>2, <1>6, InOneBlock
  <2>2. PICK f \in 0..(u - 1) : x = i * u + f
    BY <2>1
  <2>3. i + 1 \in DOMAIN partials /\ (i + 1) - 1 = i
    BY <1>2, <1>4, <2>1
  <2>4. x \in partials[i + 1]
    BY <1>5, <2>2, <2>3
  <2>5. ASSUME NEW t \in DOMAIN partials, x \in partials[t] PROVE t = i + 1
    <3>1. PICK j \in 0..(u - 1) : x = (t - 1) * u + j
      BY <1>5, <2>5
    <3>2. ((t - 1) * u + j) \div u = t - 1
      <4> DEFINE b == t - 1
      <4>1. b \in 0..(n - 1)
        BY <1>5
      <4> HIDE DEF b
      <4>2. (b * u + j) \div u = b
        BY <1>2, <4>1, InOneBlock
      <4> QED BY <4>2 DEF b
    <3>3. i = t - 1
      BY <3>1, <3>2
    <3> QED BY <1>2, <1>4, <2>1, <3>3
  <2> QED BY <2>3, <2>4, <2>5
<1> QED BY <1>1, <1>7, <1>8, AddedOnce

\* The sum of attention.
LEMMA AttentionReduced ==
  ASSUME ShardInv, AllReduce, op = "attention", Divides(size.n, size.q_heads)
  PROVE  total' = Once(AttentionWhole)
<1> DEFINE n == size.n
           q == QPer
           term(h) == [q |-> h, kv |-> h \div Rep, col |-> h]
<1>1. /\ PartialsInv /\ Len(partials) = n /\ partials \in Seq(SUBSET HeadTerms)
      /\ \A s \in 1..Len(partials) : partials[s] = AttentionPartial(s - 1)
      /\ Len(partials) > 0 => ~Mismatch
  BY DEF ShardInv, AllReduce, PartialsInv
<1>2. n \in Nat \ {0} /\ q \in Nat /\ size.q_heads \in Nat
  BY <1>1, SizesTypes
<1>3. ~Mismatch
  BY <1>1, <1>2
<1>4. size.q_heads = n * q
  <2>1. size.q_heads = (size.q_heads \div n) * n
    BY <1>2, Multiple
  <2>2. q * n = n * q
    BY <1>2
  <2> QED BY <2>1, <2>2 DEF QPer
<1>5. DOMAIN partials = 1..n
  BY <1>1, LenProperties
<1>6. ASSUME NEW s \in DOMAIN partials
      PROVE  /\ s - 1 \in 0..(n - 1)
             /\ partials[s] = {term((s - 1) * q + j) : j \in 0..(q - 1)}
  <2>1. s - 1 \in 0..(n - 1) /\ s - 1 \in Nat
    BY <1>2, <1>5
  <2>2. partials[s] = {[q |-> (s - 1) * QPer + j, kv |-> (s - 1) * KvPer + Expanded(j),
                        col |-> (s - 1) * QPer + j] : j \in 0..(QPer - 1)}
    BY <1>1, <1>5 DEF AttentionPartial
  <2>3. ASSUME NEW j \in 0..(QPer - 1)
        PROVE  ((s - 1) * QPer + j) \div Rep = (s - 1) * KvPer + Expanded(j)
    <3> DEFINE b == s - 1
    <3>1. b \in Nat
      BY <2>1
    <3> HIDE DEF b
    <3>2. (b * QPer + j) \div Rep = b * KvPer + Expanded(j)
      BY <1>1, <1>3, <3>1, SameKvHead
    <3> QED BY <3>2 DEF b
  <2>4. \A j \in 0..(QPer - 1) :
          term((s - 1) * QPer + j)
            = [q |-> (s - 1) * QPer + j, kv |-> (s - 1) * KvPer + Expanded(j),
               col |-> (s - 1) * QPer + j]
    BY <2>3, Zenon
  <2> HIDE DEF term
  <2>5. partials[s] = {term((s - 1) * QPer + j) : j \in 0..(QPer - 1)}
    BY <2>2, <2>4, Zenon
  <2> QED BY <2>1, <2>5
<1>7. AttentionWhole = {term(h) : h \in 0..(n * q - 1)}
  BY <1>4 DEF AttentionWhole
<1>8. \A g, h : term(g) = term(h) => g = h
  OBVIOUS
<1> HIDE DEF n, q, term
<1>9. ASSUME NEW s \in DOMAIN partials PROVE partials[s] \subseteq AttentionWhole
  <2>1. \A j \in 0..(q - 1) : (s - 1) * q + j \in 0..(n * q - 1)
    BY <1>2, <1>6, InOneBlock
  <2> QED BY <1>6, <1>7, <2>1
<1>10. ASSUME NEW x \in AttentionWhole
       PROVE  \E s \in DOMAIN partials :
                \A t \in DOMAIN partials : x \in partials[t] <=> t = s
  <2>0. PICK h \in 0..(n * q - 1) : x = term(h)
    BY <1>7
  <2> DEFINE i == h \div q
  <2>1. /\ i \in 0..(n - 1) /\ h % q \in 0..(q - 1)
        /\ h = i * q + (h % q)
    BY <1>2, InOneBlock
  <2>2. PICK f \in 0..(q - 1) : h = i * q + f
    BY <2>1
  <2>3. i + 1 \in DOMAIN partials /\ (i + 1) - 1 = i
    BY <1>2, <1>5, <2>1
  <2>4. x \in partials[i + 1]
    BY <1>6, <2>0, <2>2, <2>3
  <2>5. ASSUME NEW t \in DOMAIN partials, x \in partials[t] PROVE t = i + 1
    <3>1. PICK j \in 0..(q - 1) : x = term((t - 1) * q + j)
      BY <1>6, <2>5
    <3>2. ((t - 1) * q + j) \div q = t - 1
      <4> DEFINE b == t - 1
      <4>1. b \in 0..(n - 1)
        BY <1>6
      <4> HIDE DEF b
      <4>2. (b * q + j) \div q = b
        BY <1>2, <4>1, InOneBlock
      <4> QED BY <4>2 DEF b
    <3>3. i = t - 1
      BY <1>8, <2>0, <3>1, <3>2
    <3> QED BY <1>2, <1>5, <2>1, <3>3
  <2> QED BY <2>3, <2>4, <2>5
<1> QED BY <1>1, <1>9, <1>10, AddedOnce

\* all_reduce
LEMMA AllReduceKeeps ==
  ASSUME ShardInv, AllReduce
  PROVE  ShardInv'
<1>1. /\ PartialsInv /\ outcome' = "done" /\ Len(partials) = size.n
      /\ outcome = "computing" /\ op' = op /\ size' = size /\ partials' = partials
  BY DEF ShardInv, AllReduce
<1>2. PartialsInv'
  BY <1>1 DEF PartialsInv, Divides, Mismatch, MlpPartial, UnitsPerShard,
              AttentionPartial, Expanded, QPer, KvPer, Rep
<1>3. MlpIsWhole'
  BY <1>1, MlpReduced DEF MlpIsWhole, MlpWhole, Once
<1>4. op = "attention" /\ Divides(size.n, size.q_heads)
        => total' = Once(AttentionWhole)'
  BY <1>1, AttentionReduced DEF AttentionWhole, Once, Rep
<1> QED BY <1>1, <1>2, <1>3, <1>4 DEF ShardInv, Divides

\* The invariant of the sharded layers, for any number of shards, heads and
\* hidden units.
THEOREM ShardingCorrect == ShardSpec => []ShardInv
<1>1. ShardInv /\ [ShardNext]_shardVars => ShardInv'
  <2> SUFFICES ASSUME ShardInv, [ShardNext]_shardVars PROVE ShardInv'
    OBVIOUS
  <2>1. CASE MlpCall
    BY <2>1, MlpCallKeeps
  <2>2. CASE AttentionCall
    BY <2>2, AttentionCallKeeps
  <2>3. CASE ComputeMlpShard
    BY <2>3, MlpShardKeeps
  <2>4. CASE ComputeAttentionShard
    BY <2>4, AttentionShardKeeps
  <2>5. CASE AllReduce
    BY <2>5, AllReduceKeeps
  <2>6. CASE UNCHANGED shardVars
    BY <2>6 DEF shardVars, ShardInv, PartialsInv, Divides, Mismatch, MlpPartial,
                UnitsPerShard, AttentionPartial, Expanded, QPer, KvPer, Rep,
                MlpIsWhole, MlpWhole, AttentionWhole, Once
  <2> QED BY <2>1, <2>2, <2>3, <2>4, <2>5, <2>6 DEF ShardNext
<1> QED BY ShardingInit, <1>1, PTL DEF ShardSpec

\* The one all-reduce of mlp adds every hidden unit exactly once.
THEOREM MlpShardsAreWhole == ShardSpec => []MlpIsWhole
<1>1. ShardInv => MlpIsWhole
  BY DEF ShardInv
<1> QED BY ShardingCorrect, <1>1, PTL

\* The heads of a shard match if the kv heads divide by the number of shards.
LEMMA HeadsMatch ==
  ASSUME PartialsInv, op = "attention",
         Divides(size.n, size.q_heads), Divides(size.n, size.kv_heads)
  PROVE  ~Mismatch
<1>1. /\ size.n \in Nat \ {0} /\ size.q_heads \in Nat \ {0}
      /\ size.kv_heads \in Nat \ {0} /\ Divides(size.kv_heads, size.q_heads)
      /\ QPer \in Nat /\ KvPer \in Nat /\ Rep \in Nat
  BY SizesTypes DEF PartialsInv
<1>2. /\ size.q_heads = QPer * size.n
      /\ size.kv_heads = KvPer * size.n
      /\ size.q_heads = Rep * size.kv_heads
  BY <1>1, Multiple DEF QPer, KvPer, Rep
<1>3. PICK n \in Nat \ {0}, k \in Nat, m \in Nat, p \in Nat :
        n = size.n /\ k = KvPer /\ m = Rep /\ p = QPer
  BY <1>1
<1>4. p * n = m * (k * n)
  BY <1>2, <1>3
<1>5. m * (k * n) = (k * m) * n
  OBVIOUS
<1>6. p = k * m
  <2> DEFINE c == k * m
  <2>1. c \in Nat /\ p * n = c * n
    BY <1>4, <1>5
  <2> HIDE DEF c
  <2>2. (p * n + 0) \div n = p /\ (c * n + 0) \div n = c
    BY <2>1, Quotient
  <2> QED BY <2>1, <2>2 DEF c
<1> QED BY <1>3, <1>6 DEF Mismatch

\* If the query heads divide by the number of shards, attention is right or
\* raises, and it raises only if the kv heads do not divide.
THEOREM AttentionShardsAreWhole == ShardSpec => []AttentionIsWhole
<1>1. ShardInv => AttentionIsWhole
  BY HeadsMatch DEF ShardInv, PartialsInv, AttentionIsWhole
<1> QED BY ShardingCorrect, <1>1, PTL

-----------------------------------------------------------------------------
(* The percentiles *)

\* The position in the samples, rounded half to even, is a rank of one, and half
\* a place at most from where pct percent of the way lies.
LEMMA RankIsHalfway ==
  ASSUME NEW n \in Nat \ {0}, NEW pct \in 1..100
  PROVE  /\ Rank(n, pct) \in 0..(n - 1)
         /\ 100 * Rank(n, pct) - pct * (n - 1) \in -50..50
<1> DEFINE x == pct * (n - 1)
           whole == x \div 100
           rest == x % 100
<1>1. x \in Nat /\ x <= 100 * (n - 1)
  <2>1. n - 1 \in Nat /\ pct \in Nat /\ pct <= 100
    OBVIOUS
  <2>2. \A k, p \in Nat : p <= 100 => p * k <= 100 * k
    OBVIOUS
  <2>3. pct * (n - 1) \in Nat
    BY <2>1
  <2> QED BY <2>1, <2>2, <2>3
<1>2. whole \in Nat /\ rest \in 0..99 /\ x = 100 * whole + rest
  <2> HIDE DEF x
  <2>1. whole \in Nat /\ rest \in 0..(100 - 1) /\ x = 100 * whole + rest
    BY <1>1, DivMod
  <2> QED BY <2>1
<1>3. PICK e \in {0, 1} : e = whole % 2
  <2> HIDE DEF whole
  <2> QED BY <1>2
<1>4. Position(n, pct) = IF rest < 50 THEN whole
                         ELSE IF rest > 50 THEN whole + 1 ELSE whole + e
  <2>1. Position(n, pct) = CASE rest < 50 -> whole
                             [] rest > 50 -> whole + 1
                             [] OTHER -> whole + (whole % 2)
    BY DEF Position, Round
  <2> HIDE DEF x, whole, rest
  <2>2. CASE rest < 50
    <3>1. ~(rest > 50)
      BY <1>2, <2>2
    <3> QED BY <2>1, <2>2, <3>1
  <2>3. CASE rest > 50
    <3>1. ~(rest < 50)
      BY <1>2, <2>3
    <3> QED BY <2>1, <2>3, <3>1
  <2>4. CASE ~(rest < 50) /\ ~(rest > 50)
    BY <1>3, <2>1, <2>4
  <2> QED BY <2>2, <2>3, <2>4
<1> HIDE DEF x, whole, rest
<1>5. /\ Position(n, pct) \in Nat
      /\ 100 * Position(n, pct) <= x + 50 /\ x - 50 <= 100 * Position(n, pct)
  BY <1>1, <1>2, <1>3, <1>4
<1>6. PICK p \in Nat : p = Position(n, pct)
  BY <1>5
<1>7. p <= n - 1
  BY <1>1, <1>5, <1>6
<1>8. Rank(n, pct) = p
  BY <1>6, <1>7 DEF Rank
<1>9. 100 * p - x \in -50..50
  BY <1>1, <1>5, <1>6
<1> QED BY <1>7, <1>8, <1>9 DEF x

\* The counts of the samples below a value and up to it.
LEMMA Counts ==
  ASSUME NEW s \in Seq(Nat)
  PROVE  /\ Len(s) \in Nat
         /\ \A v : /\ Cardinality(Below(s, v)) \in Nat
                  /\ Cardinality(UpTo(s, v)) \in Nat
                  /\ Cardinality(UpTo(s, v)) <= Len(s)
                  /\ IsFiniteSet(Below(s, v)) /\ IsFiniteSet(UpTo(s, v))
         /\ \A u, v \in Nat : u < v =>
              Cardinality(UpTo(s, u)) <= Cardinality(Below(s, v))
         /\ \A k \in 1..Len(s) : Cardinality(UpTo(s, s[k])) < Len(s) =>
              \E j \in 1..Len(s) : s[k] < s[j]
<1> DEFINE D == DOMAIN s
<1>1. /\ Len(s) \in Nat /\ D = 1..Len(s)
      /\ \A k \in D : s[k] \in Nat
  BY ElementsByIndex, LenProperties
<1>2. IsFiniteSet(D) /\ Cardinality(D) = Len(s)
  <2>1. /\ IsFiniteSet(1..Len(s))
        /\ Cardinality(1..Len(s)) = IF 1 > Len(s) THEN 0 ELSE Len(s) - 1 + 1
    BY <1>1, FS_Interval
  <2> DEFINE n == Len(s)
  <2> HIDE DEF n
  <2>2. \A m \in Nat : (IF 1 > m THEN 0 ELSE m - 1 + 1) = m
    OBVIOUS
  <2> QED BY <1>1, <2>1, <2>2, Zenon
<1>3. ASSUME NEW v
      PROVE  /\ Cardinality(Below(s, v)) \in Nat
             /\ Cardinality(UpTo(s, v)) \in Nat
             /\ Cardinality(UpTo(s, v)) <= Len(s)
             /\ IsFiniteSet(Below(s, v)) /\ IsFiniteSet(UpTo(s, v))
  <2>1. Below(s, v) \in SUBSET D /\ UpTo(s, v) \in SUBSET D
    BY DEF Below, UpTo
  <2> HIDE DEF D
  <2> QED BY <1>2, <2>1, FS_Subset, FS_CardinalityType
<1>4. ASSUME NEW u \in Nat, NEW v \in Nat, u < v
      PROVE  Cardinality(UpTo(s, u)) <= Cardinality(Below(s, v))
  <2>1. UpTo(s, u) \in SUBSET Below(s, v)
    BY <1>1, <1>4 DEF UpTo, Below
  <2> QED BY <1>3, <2>1, FS_Subset
<1>5. ASSUME NEW k \in 1..Len(s), Cardinality(UpTo(s, s[k])) < Len(s)
      PROVE  \E j \in 1..Len(s) : s[k] < s[j]
  <2>1. UpTo(s, s[k]) # D
    BY <1>1, <1>2, <1>5
  <2>2. PICK j \in D : ~(s[j] <= s[k])
    BY <2>1 DEF UpTo
  <2> QED BY <1>1, <2>2
<1> QED BY <1>1, <1>3, <1>4, <1>5

\* A set of numbers has a least one.
LEMMA LeastOf ==
  ASSUME NEW S \in SUBSET Nat, S # {}
  PROVE  \E m \in S : \A x \in S : m <= x
<1> DEFINE R == OpToRel(<, Nat)
<1>1. PICK m \in S : \A x \in S : ~(<<x, m>> \in R)
  <2>1. IsWellFoundedOn(R, Nat)
    BY NatLessThanWellFounded DEF R
  <2> HIDE DEF R
  <2> QED BY <2>1, WFMin
<1>2. \A x \in S : ~(x < m)
  BY <1>1 DEF OpToRel
<1> QED BY <1>2

\* Each place of a sorted list has a sample.
LEMMA KthSmallest ==
  ASSUME NEW s \in Seq(Nat), NEW k \in 1..Len(s)
  PROVE  \E v \in ToSet(s) :
           Cardinality(Below(s, v)) < k /\ k <= Cardinality(UpTo(s, v))
<1> DEFINE n == Len(s)
           up(v) == Cardinality(UpTo(s, v))
           low(v) == Cardinality(Below(s, v))
           V == {v \in ToSet(s) : k <= up(v)}
<1>1. /\ n \in Nat /\ \A j \in 1..n : s[j] \in Nat /\ s[j] \in ToSet(s)
      /\ \A v \in ToSet(s) : v \in Nat /\ \E j \in 1..n : v = s[j]
  BY ElementsByIndex
<1>2. /\ \A v : low(v) \in Nat /\ up(v) \in Nat /\ up(v) <= n
      /\ \A u, v \in Nat : u < v => up(u) <= low(v)
      /\ \A j \in 1..n : up(s[j]) < n => \E i \in 1..n : s[j] < s[i]
  BY Counts
<1>3. \A v \in Nat : low(v) <= up(v)
  <2> SUFFICES ASSUME NEW v \in Nat PROVE low(v) <= up(v)
    OBVIOUS
  <2>1. Below(s, v) \in SUBSET UpTo(s, v)
    BY <1>1, LenProperties DEF Below, UpTo
  <2> QED BY <2>1, Counts, FS_Subset
<1>4. \E v \in ToSet(s) : up(v) = n
  <2> DEFINE U == {up(s[j]) : j \in 1..n}
  <2> HIDE DEF n, up, low
  <2>1. U \in SUBSET Nat /\ U # {} /\ \A x \in U : x <= n
    BY <1>1, <1>2 DEF n
  <2> HIDE DEF U
  <2>2. Max(U) \in U /\ \A y \in U : y <= Max(U)
    BY <1>1, <2>1, MaxOfBounded
  <2>3. PICK j \in 1..n : Max(U) = up(s[j])
    BY <2>2 DEF U
  <2>4. ASSUME NEW i \in 1..n, s[j] < s[i] PROVE up(s[j]) < up(s[i])
    <3>1. j \in UpTo(s, s[i]) /\ UpTo(s, s[j]) \in SUBSET UpTo(s, s[i])
      BY <1>1, <2>4, LenProperties DEF UpTo, n
    <3>2. i \in UpTo(s, s[i]) /\ i \notin UpTo(s, s[j])
      BY <1>1, <2>4, LenProperties DEF UpTo, n
    <3>3. /\ IsFiniteSet(UpTo(s, s[i]))
          /\ Cardinality(UpTo(s, s[i])) \in Nat /\ Cardinality(UpTo(s, s[j])) \in Nat
      BY Counts
    <3>4. /\ Cardinality(UpTo(s, s[j])) <= Cardinality(UpTo(s, s[i]))
          /\ Cardinality(UpTo(s, s[j])) = Cardinality(UpTo(s, s[i]))
               => UpTo(s, s[j]) = UpTo(s, s[i])
      BY <3>1, <3>3, FS_Subset
    <3> QED BY <3>2, <3>3, <3>4 DEF up
  <2>5. ~(up(s[j]) < n)
    <3> SUFFICES ASSUME up(s[j]) < n PROVE FALSE
      OBVIOUS
    <3>1. PICK i \in 1..n : s[j] < s[i]
      BY <1>2
    <3>2. up(s[j]) < up(s[i]) /\ up(s[i]) \in U
      BY <2>4, <3>1 DEF U
    <3>3. up(s[i]) <= up(s[j]) /\ up(s[i]) \in Nat /\ up(s[j]) \in Nat
      BY <1>2, <2>2, <2>3, <3>2
    <3> QED BY <3>2, <3>3
  <2>6. up(s[j]) \in Nat /\ up(s[j]) <= n
    BY <1>2
  <2> QED BY <1>1, <2>5, <2>6
<1>5. V \in SUBSET Nat /\ V # {}
  <2> HIDE DEF up, low
  <2>1. k <= n
    BY <1>1
  <2> QED BY <1>1, <1>4, <2>1
<1>6. PICK v \in V : \A x \in V : v <= x
  <2> HIDE DEF V
  <2> QED BY <1>5, LeastOf
<1>7. v \in ToSet(s) /\ v \in Nat /\ k <= up(v)
  BY <1>5, <1>6
<1>8. low(v) < k
  <2> SUFFICES ASSUME low(v) >= k PROVE FALSE
    <3> HIDE DEF low
    <3>1. low(v) \in Nat /\ k \in Nat
      BY <1>1, <1>2
    <3> QED BY <3>1
  <2> DEFINE B == {s[j] : j \in Below(s, v)}
  <2>1. Below(s, v) # {}
    <3>1. low(v) # 0
      <4> HIDE DEF low
      <4> QED BY <1>1, <1>2
    <3> QED BY <3>1, FS_EmptySet
  <2>2. \A j \in Below(s, v) : j \in 1..n /\ s[j] < v
    BY LenProperties DEF Below
  <2>3. B \in SUBSET Nat /\ B # {} /\ \A x \in B : x <= v
    BY <1>1, <1>7, <2>1, <2>2
  <2> HIDE DEF B
  <2>4. Max(B) \in B /\ \A y \in B : y <= Max(B)
    BY <1>7, <2>3, MaxOfBounded
  <2>5. PICK u \in B : \A y \in B : y <= u
    BY <2>4
  <2>6. PICK i \in Below(s, v) : u = s[i]
    BY <2>5 DEF B
  <2>7. u \in ToSet(s) /\ u \in Nat /\ u < v
    BY <1>1, <2>2, <2>6
  <2>8. Below(s, v) \in SUBSET UpTo(s, u)
    BY <2>5 DEF Below, UpTo, B
  <2>9. low(v) <= up(u)
    BY <2>8, Counts, FS_Subset
  <2> HIDE DEF low, up
  <2>10. k <= up(u)
    BY <1>1, <1>2, <2>9
  <2>11. v <= u
    BY <1>6, <2>7, <2>10
  <2> QED BY <1>7, <2>7, <2>11
<1> QED BY <1>7, <1>8

\* What sorted returns: as many samples, each one of the list, in order, with
\* fewer than k below the k-th, and k or more up to it.
LEMMA SortedIsRight ==
  ASSUME NEW s \in Seq(Nat)
  PROVE  /\ Sorted(s) \in Seq(Nat) /\ Len(Sorted(s)) = Len(s)
         /\ \A k \in 1..Len(s) : Sorted(s)[k] \in ToSet(s)
         /\ \A j, k \in 1..Len(s) : j <= k => Sorted(s)[j] <= Sorted(s)[k]
         /\ \A k \in 1..Len(s) : /\ Cardinality(Below(s, Sorted(s)[k])) < k
                                 /\ k <= Cardinality(UpTo(s, Sorted(s)[k]))
<1> DEFINE t == Sorted(s)
           n == Len(s)
           at(v, k) == Cardinality(Below(s, v)) < k /\ k <= Cardinality(UpTo(s, v))
<1>1. /\ n \in Nat /\ \A v \in ToSet(s) : v \in Nat
  BY ElementsByIndex
<1>2. ASSUME NEW k \in 1..n
      PROVE  t[k] \in ToSet(s) /\ t[k] \in Nat /\ at(t[k], k)
  <2>1. t[k] = CHOOSE v \in ToSet(s) : at(v, k)
    BY DEF Sorted
  <2>2. \E v \in ToSet(s) : at(v, k)
    BY KthSmallest
  <2> HIDE DEF t, at
  <2> QED BY <1>1, <2>1, <2>2
<1>3. DOMAIN t = 1..n /\ t = [k \in 1..n |-> t[k]]
  BY DEF Sorted
<1> HIDE DEF t
<1>4. t \in [1..n -> Nat]
  BY <1>2, <1>3
<1>5. t \in Seq(Nat) /\ Len(t) = n
  <2> HIDE DEF n
  <2>1. t \in Seq(Nat)
    BY <1>1, <1>4
  <2> QED BY <1>1, <1>3, <2>1, LenProperties
<1>6. ASSUME NEW j \in 1..n, NEW k \in 1..n, j <= k PROVE t[j] <= t[k]
  <2> SUFFICES ASSUME t[k] < t[j] PROVE FALSE
    BY <1>2
  <2>1. t[j] \in Nat /\ t[k] \in Nat /\ at(t[j], j) /\ at(t[k], k)
    BY <1>2
  <2>2. Cardinality(UpTo(s, t[k])) <= Cardinality(Below(s, t[j]))
    BY <2>1, Counts
  <2>3. Cardinality(UpTo(s, t[k])) \in Nat /\ Cardinality(Below(s, t[j])) \in Nat
    BY Counts
  <2>4. PICK a \in Nat, b \in Nat :
          a = Cardinality(UpTo(s, t[k])) /\ b = Cardinality(Below(s, t[j]))
    BY <2>3
  <2>5. b < j /\ k <= a /\ a <= b
    BY <2>1, <2>2, <2>4
  <2> QED BY <1>1, <1>6, <2>5
<1> QED BY <1>2, <1>5, <1>6 DEF t

\* The window holds the last latencies of all, in their order.
WindowInv ==
  /\ latencies \in Seq(Latencies) /\ recorded \in Seq(Latencies)
  /\ Len(latencies) = IF Len(recorded) > Window THEN Window ELSE Len(recorded)
  /\ \A k \in 1..Len(latencies) :
       latencies[k] = recorded[Len(recorded) - Len(latencies) + k]

\* A record enters the window, and the oldest leaves a full one.
LEMMA RecordKeepsWindow ==
  ASSUME WindowInv, RecordCompletion
  PROVE  WindowInv'
<1> DEFINE m == Len(latencies)
           r == Len(recorded)
<1>1. PICK e \in Latencies : /\ latencies' = Pushed(e)
                             /\ recorded' = Append(recorded, e)
  BY DEF RecordCompletion
<1>2. /\ latencies \in Seq(Latencies) /\ recorded \in Seq(Latencies)
      /\ m \in Nat /\ r \in Nat /\ Window \in Nat \ {0}
      /\ m = IF r > Window THEN Window ELSE r
      /\ \A k \in 1..m : latencies[k] = recorded[r - m + k]
  BY LenProperties, MetricsAssumption DEF WindowInv
<1>3. /\ recorded' \in Seq(Latencies) /\ Len(recorded') = r + 1
      /\ \A k \in 1..r : recorded'[k] = recorded[k]
      /\ recorded'[r + 1] = e
  BY <1>1, <1>2, AppendProperties
<1>4. CASE m < Window
  <2>1. latencies' = Append(latencies, e)
    BY <1>1, <1>4 DEF Pushed
  <2>2. /\ latencies' \in Seq(Latencies) /\ Len(latencies') = m + 1
        /\ \A k \in 1..m : latencies'[k] = latencies[k]
        /\ latencies'[m + 1] = e
    BY <1>2, <2>1, AppendProperties
  <2> HIDE DEF m, r
  <2>3. m = r /\ m + 1 = (IF r + 1 > Window THEN Window ELSE r + 1)
    BY <1>2, <1>4
  <2>4. ASSUME NEW k \in 1..(m + 1)
        PROVE  latencies'[k] = recorded'[(r + 1) - (m + 1) + k]
    <3>1. CASE k \in 1..m
      <4>1. r - m + k = k /\ (r + 1) - (m + 1) + k = k /\ k \in 1..r
        BY <1>2, <2>3, <3>1
      <4> QED BY <1>2, <1>3, <2>2, <3>1, <4>1
    <3>2. CASE k = m + 1
      <4>1. (r + 1) - (m + 1) + k = r + 1
        BY <1>2, <2>3, <3>2
      <4> QED BY <1>3, <2>2, <3>2, <4>1
    <3> QED BY <1>2, <3>1, <3>2
  <2>5. Len(latencies') = m + 1 /\ Len(recorded') = r + 1
    BY <1>3, <2>2
  <2>6. Len(latencies') = IF Len(recorded') > Window THEN Window ELSE Len(recorded')
    BY <2>3, <2>5
  <2>7. \A k \in 1..Len(latencies') :
          latencies'[k] = recorded'[Len(recorded') - Len(latencies') + k]
    BY <2>4, <2>5
  <2> QED BY <1>3, <2>2, <2>6, <2>7 DEF WindowInv
<1>5. CASE ~(m < Window)
  <2> DEFINE t == Tail(latencies)
  <2>1. latencies' = Append(t, e)
    BY <1>1, <1>5 DEF Pushed
  <2>2. m = Window /\ m > 0 /\ r >= m
    <3> HIDE DEF m, r
    <3> QED BY <1>2, <1>5
  <2>3. /\ t \in Seq(Latencies) /\ Len(t) = m - 1
        /\ \A k \in 1..(m - 1) : t[k] = latencies[k + 1]
    <3>1. latencies # <<>>
      BY <2>2
    <3> QED BY <1>2, <3>1, HeadTailProperties
  <2> HIDE DEF t
  <2>4. /\ latencies' \in Seq(Latencies) /\ Len(latencies') = m - 1 + 1
        /\ \A k \in 1..(m - 1) : latencies'[k] = t[k]
        /\ latencies'[m - 1 + 1] = e
    BY <2>1, <2>3, AppendProperties
  <2> HIDE DEF m, r
  <2>5. m - 1 + 1 = m /\ m = (IF r + 1 > Window THEN Window ELSE r + 1)
    BY <1>2, <2>2
  <2>6. ASSUME NEW k \in 1..m
        PROVE  latencies'[k] = recorded'[(r + 1) - m + k]
    <3>1. CASE k \in 1..(m - 1)
      <4>1. /\ k + 1 \in 1..m /\ r - m + (k + 1) = (r + 1) - m + k
            /\ (r + 1) - m + k \in 1..r
        BY <1>2, <2>2, <3>1
      <4>2. latencies'[k] = latencies[k + 1]
        BY <2>3, <2>4, <3>1
      <4>3. latencies[k + 1] = recorded[(r + 1) - m + k]
        BY <1>2, <4>1
      <4> QED BY <1>3, <4>1, <4>2, <4>3
    <3>2. CASE k = m
      <4>1. (r + 1) - m + k = r + 1
        BY <1>2, <3>2
      <4> QED BY <1>3, <2>4, <2>5, <3>2, <4>1
    <3> QED BY <1>2, <3>1, <3>2
  <2>7. Len(latencies') = m /\ Len(recorded') = r + 1
    BY <1>3, <2>4, <2>5
  <2>8. Len(latencies') = IF Len(recorded') > Window THEN Window ELSE Len(recorded')
    BY <2>5, <2>7
  <2>9. \A k \in 1..Len(latencies') :
          latencies'[k] = recorded'[Len(recorded') - Len(latencies') + k]
    BY <2>6, <2>7
  <2> QED BY <1>3, <2>4, <2>8, <2>9 DEF WindowInv
<1> QED BY <1>4, <1>5

\* The window is the end of the history, no longer than its length.
THEOREM WindowCorrect == MetricsSpec => []WindowInv
<1>1. MetricsInit => WindowInv
  <2> SUFFICES ASSUME MetricsInit PROVE WindowInv
    OBVIOUS
  <2>1. Len(<<>>) = 0 /\ <<>> \in Seq(Latencies) /\ ~(0 > Window)
    BY MetricsAssumption
  <2> QED BY <2>1 DEF MetricsInit, WindowInv
<1>2. WindowInv /\ [MetricsNext]_metricsVars => WindowInv'
  <2>1. WindowInv /\ UNCHANGED metricsVars => WindowInv'
    BY DEF metricsVars, WindowInv
  <2> QED BY <2>1, RecordKeepsWindow DEF MetricsNext
<1> QED BY <1>1, <1>2, PTL DEF MetricsSpec

LEMMA WindowType ==
  ASSUME WindowInv
  PROVE  latencies \in Seq(Nat)
<1>1. latencies \in Seq(Latencies) /\ Latencies \subseteq Nat
  BY MetricsAssumption DEF WindowInv
<1>2. /\ Len(latencies) \in Nat
      /\ latencies \in [1..Len(latencies) -> Latencies]
  BY <1>1, LenProperties
<1>3. latencies \in [1..Len(latencies) -> Nat]
  BY <1>1, <1>2
<1> QED BY <1>2, <1>3, IsASeq

\* Half a place of the index is half a place of the counts.
LEMMA HalfAPlace ==
  ASSUME NEW k \in Int, NEW a \in Int, NEW b \in Int, NEW n \in Int, NEW x \in Int,
         100 * k - x \in -50..50, a <= k, k + 1 <= b
  PROVE  100 * a <= x + 50 /\ 100 * (n - b) <= (100 * (n - 1) - x) + 50
<1>1. 100 * k - x <= 50 /\ -50 <= 100 * k - x
  OBVIOUS
<1> QED BY <1>1

\* Whatever the window holds and however long it is, at most pct percent of the
\* other samples are below the percentile and at most the rest above it, give or
\* take half a place: rounding half to even never moves it further.
THEOREM PercentilesCut == MetricsSpec => []PercentileCuts
<1>1. WindowInv => PercentileCuts
  <2> SUFFICES ASSUME WindowInv, latencies # <<>>, NEW pct \in Pcts,
                      NEW n, n = Len(latencies),
                      NEW v, v = Percentile(Sorted(latencies), pct)
               PROVE  /\ 100 * Cardinality(Below(latencies, v)) <= pct * (n - 1) + 50
                      /\ 100 * (n - Cardinality(UpTo(latencies, v)))
                           <= (100 - pct) * (n - 1) + 50
    BY DEF PercentileCuts
  <2>1. latencies \in Seq(Nat) /\ n \in Nat \ {0} /\ pct \in 1..100
    BY WindowType, LenProperties, EmptySeq, MetricsAssumption DEF WindowInv
  <2> DEFINE k == Rank(n, pct)
  <2>2. k \in 0..(n - 1) /\ 100 * k - pct * (n - 1) \in -50..50
    BY <2>1, RankIsHalfway
  <2>3. v = Sorted(latencies)[k + 1]
    BY <2>1, SortedIsRight, EmptySeq DEF Percentile
  <2> HIDE DEF k
  <2>4. k + 1 \in 1..n
    BY <2>1, <2>2
  <2>5. /\ Cardinality(Below(latencies, v)) < k + 1
        /\ k + 1 <= Cardinality(UpTo(latencies, v))
    BY <2>1, <2>3, <2>4, SortedIsRight
  <2>6. PICK a \in Nat, b \in Nat : /\ a = Cardinality(Below(latencies, v))
                                   /\ b = Cardinality(UpTo(latencies, v))
    BY <2>1, Counts
  <2>7. PICK x \in Nat, y \in Nat : /\ x = pct * (n - 1) /\ y = (100 - pct) * (n - 1)
                                   /\ y = 100 * (n - 1) - x
    <3>1. n - 1 \in Nat /\ pct \in Nat /\ 100 - pct \in Nat
      BY <2>1
    <3>2. \A p, q, m \in Nat : p * m \in Nat /\ (p + q) * m = p * m + q * m
      OBVIOUS
    <3>3. pct * (n - 1) \in Nat /\ (100 - pct) * (n - 1) \in Nat
      BY <3>1, <3>2
    <3>4. (pct + (100 - pct)) * (n - 1) = pct * (n - 1) + (100 - pct) * (n - 1)
      BY <3>1, <3>2
    <3>5. pct + (100 - pct) = 100
      BY <3>1
    <3> QED BY <3>1, <3>3, <3>4, <3>5
  <2>8. 100 * a <= x + 50 /\ 100 * (n - b) <= y + 50
    <3>1. 100 * k - x \in -50..50 /\ k \in Int
      BY <2>2, <2>7
    <3>2. a <= k /\ k + 1 <= b
      BY <3>1, <2>5, <2>6
    <3>3. a \in Int /\ b \in Int /\ x \in Int /\ n \in Int /\ y = 100 * (n - 1) - x
      BY <2>1, <2>6, <2>7
    <3> QED BY <3>1, <3>2, <3>3, HalfAPlace
  <2> QED BY <2>6, <2>7, <2>8
<1> QED BY WindowCorrect, <1>1, PTL

\* The samples of the window are the last ones that were recorded.
LEMMA RecentSamples ==
  ASSUME WindowInv
  PROVE  LET old == IF Len(recorded) > Window THEN Len(recorded) - Window ELSE 0 IN
         /\ Len(latencies) = Len(recorded) - old
         /\ ToSet(SubSeq(recorded, old + 1, Len(recorded))) = ToSet(latencies)
         /\ recorded # <<>> => latencies # <<>>
<1> DEFINE m == Len(latencies)
           r == Len(recorded)
           old == IF r > Window THEN r - Window ELSE 0
           b == SubSeq(recorded, old + 1, r)
<1>1. /\ latencies \in Seq(Latencies) /\ recorded \in Seq(Latencies)
      /\ m \in Nat /\ r \in Nat /\ Window \in Nat \ {0}
      /\ m = IF r > Window THEN Window ELSE r
      /\ \A k \in 1..m : latencies[k] = recorded[r - m + k]
      /\ \A k \in 1..r : recorded[k] \in Latencies
  BY ElementsByIndex, MetricsAssumption DEF WindowInv
<1>2. PICK d \in Nat : d = old /\ m = r - d /\ d <= r
  <2> HIDE DEF m, r
  <2>1. r \in Nat /\ m \in Nat /\ Window \in Nat /\ m = IF r > Window THEN Window ELSE r
    BY <1>1
  <2>2. CASE r > Window
    <3>1. old = r - Window /\ m = Window
      BY <2>1, <2>2
    <3>2. r - Window \in Nat /\ r - (r - Window) = Window /\ r - Window <= r
      BY <2>1, <2>2
    <3> QED BY <3>1, <3>2
  <2>3. CASE ~(r > Window)
    <3>1. old = 0 /\ m = r
      BY <2>1, <2>3
    <3>2. r - 0 = r /\ 0 <= r
      BY <2>1
    <3> QED BY <3>1, <3>2
  <2> QED BY <2>2, <2>3
<1>3. recorded # <<>> => latencies # <<>>
  <2>1. r # 0 => m # 0
    <3> HIDE DEF m, r
    <3> QED BY <1>1
  <2> QED BY <1>1, <2>1, EmptySeq
<1>4. /\ b \in Seq(Latencies) /\ Len(b) = m
      /\ \A k \in 1..m : b[k] = recorded[d + k]
  <2>1. b = SubSeq(recorded, d + 1, r)
    BY <1>2
  <2> HIDE DEF b, old
  <2>2. d + 1 \in Int /\ r \in Int /\ \A k \in (d + 1)..r : recorded[k] \in Latencies
    <3> HIDE DEF r
    <3> QED BY <1>1, <1>2
  <2>3. /\ b \in Seq(Latencies)
        /\ Len(b) = IF d + 1 <= r THEN r - (d + 1) + 1 ELSE 0
        /\ \A k \in 1..(r - (d + 1) + 1) : b[k] = recorded[(d + 1) + k - 1]
    BY <2>1, <2>2, SubSeqProperties
  <2> HIDE DEF m, r
  <2>4. /\ r - (d + 1) + 1 = m /\ (d + 1 <= r \/ m = 0)
        /\ \A k \in 1..m : (d + 1) + k - 1 = d + k
    BY <1>1, <1>2
  <2> QED BY <2>3, <2>4
<1>5. \A k \in 1..m : b[k] = latencies[k]
  <2> HIDE DEF b, old, m, r
  <2>1. r - m = d
    BY <1>1, <1>2
  <2> QED BY <1>1, <1>4, <2>1
<1>6. DOMAIN b = 1..m /\ DOMAIN latencies = 1..m
  BY <1>1, <1>4, LenProperties
<1> HIDE DEF b
<1>7. ToSet(b) = ToSet(latencies)
  BY <1>5, <1>6 DEF ToSet
<1> QED BY <1>2, <1>3, <1>7 DEF b

\* A snapshot tells of the last requests only, and its median is not above its
\* other percentile: both are samples of the window.
THEOREM SnapshotsAreRecent == MetricsSpec => []SnapshotIsRecent
<1>1. WindowInv => SnapshotIsRecent
  <2> SUFFICES ASSUME WindowInv PROVE SnapshotIsRecent
    OBVIOUS
  <2> DEFINE m == Len(latencies)
             t == Sorted(latencies)
  <2>1. latencies \in Seq(Nat)
    BY WindowType
  <2>2. /\ t \in Seq(Nat) /\ Len(t) = m /\ m \in Nat
        /\ \A k \in 1..m : t[k] \in ToSet(latencies) /\ t[k] \in Nat
        /\ \A j, k \in 1..m : j <= k => t[j] <= t[k]
    BY <2>1, SortedIsRight, ElementsByIndex
  <2>3. /\ Snapshot.p50 = Percentile(t, 50) /\ Snapshot.p99 = Percentile(t, 99)
        /\ Snapshot.samples = Len(t)
    BY DEF Snapshot
  <2> HIDE DEF t
  <2>4. ASSUME latencies # <<>>
        PROVE  /\ Snapshot.p50 \in ToSet(latencies)
               /\ Snapshot.p99 \in ToSet(latencies)
               /\ Snapshot.p50 <= Snapshot.p99
    <3>1. m \in Nat \ {0} /\ t # <<>>
      BY <2>1, <2>2, <2>4, EmptySeq
    <3> DEFINE i == Rank(m, 50)
               j == Rank(m, 99)
    <3>2. Snapshot.p50 = t[i + 1] /\ Snapshot.p99 = t[j + 1]
      BY <2>2, <2>3, <3>1 DEF Percentile
    <3> HIDE DEF m
    <3>3. /\ i \in 0..(m - 1) /\ 100 * i - 50 * (m - 1) \in -50..50
          /\ j \in 0..(m - 1) /\ 100 * j - 99 * (m - 1) \in -50..50
      <4>1. 50 \in 1..100 /\ 99 \in 1..100
        OBVIOUS
      <4> QED BY <3>1, <4>1, RankIsHalfway
    <3> HIDE DEF i, j
    <3>4. i + 1 \in 1..m /\ j + 1 \in 1..m /\ i + 1 <= j + 1
      BY <3>1, <3>3
    <3> QED BY <2>2, <3>2, <3>4
  <2>5. ASSUME latencies = <<>> PROVE Snapshot.p50 <= Snapshot.p99
    <3>1. t = <<>>
      BY <2>2, <2>5, EmptySeq
    <3>2. Snapshot.p50 = 0 /\ Snapshot.p99 = 0
      BY <2>3, <3>1 DEF Percentile
    <3> QED BY <3>2
  <2> HIDE DEF m
  <2> QED BY <2>2, <2>3, <2>4, <2>5, RecentSamples DEF SnapshotIsRecent, m
<1> QED BY WindowCorrect, <1>1, PTL
=============================================================================
