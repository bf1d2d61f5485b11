------------------------ MODULE SchedulerSafetyProofs -----------------------
(***************************************************************************)
(* No request is lost or duplicated, and preemption is lossless: the       *)
(* inductive invariant EngineInv of Scheduler.tla, part by part.           *)
(***************************************************************************)
EXTENDS SchedulerProofs

Lists == <<waiting, active, finished, still_active, arrived>>

-----------------------------------------------------------------------------
(* QueueInv *)

LEMMA QueueFrame ==
  ASSUME QueueInv, UNCHANGED Lists, pc # "retire", pc' # "retire"
  PROVE  QueueInv'
BY DEF QueueInv, Lists

LEMMA QueueToRetire ==
  ASSUME TypeOK, QueueInv, UNCHANGED Lists,
         pc # "retire", pc' = "retire", i' = 1
  PROVE  QueueInv'
<1>1. \A k \in 1..Len(active) : active[k] \in ToSet(active) /\ ~(k < 1)
  BY ElementsByIndex DEF TypeOK, QueuesOK
<1>2. \A k \in 1..Len(active) : active[k] \notin ToSet(still_active) \cup ToSet(finished)
  BY <1>1, EmptyElements DEF QueueInv
<1> QED BY <1>1, <1>2 DEF QueueInv, Lists

LEMMA QueueAddRequest ==
  ASSUME TypeOK, QueueInv, NEW r \in Req, AddRequest(r)
  PROVE  QueueInv'
<1>1. r \notin ToSet(waiting) /\ r \notin ToSet(active) /\ r \notin ToSet(finished)
  BY DEF AddRequest, QueueInv
<1>2. /\ ToSet(waiting') = ToSet(waiting) \cup {r}
      /\ IsInjective(waiting')
  BY <1>1, AppendElements DEF AddRequest, QueueInv, TypeOK, QueuesOK
<1>3. /\ UNCHANGED <<active, finished, still_active, pc>> /\ pc = "idle"
      /\ arrived' = arrived \cup {r}
  BY DEF AddRequest, results, locals
<1> QED BY <1>1, <1>2, <1>3 DEF QueueInv

LEMMA QueueAdmit ==
  ASSUME TypeOK, QueueInv, Admit
  PROVE  QueueInv'
<1> DEFINE req == Head(waiting)
<1>1. /\ waiting # <<>> /\ waiting' = Tail(waiting)
      /\ active' = Append(active, req) /\ pc = "admit"
      /\ UNCHANGED <<finished, still_active, arrived, pc>>
  BY DEF Admit, CanAdmit, results, locals, inputs
<1>2. /\ req \in Req /\ req \in ToSet(waiting)
      /\ ToSet(waiting') = ToSet(waiting) \ {req} /\ IsInjective(waiting')
  BY <1>1, TailElements DEF QueueInv, TypeOK, QueuesOK
<1> HIDE DEF req
<1>3. /\ ToSet(active') = ToSet(active) \cup {req} /\ IsInjective(active')
  BY <1>1, <1>2, AppendElements DEF QueueInv, TypeOK, QueuesOK
<1> QED BY <1>1, <1>2, <1>3 DEF QueueInv

LEMMA QueuePreempt ==
  ASSUME TypeOK, QueueInv, Preempt
  PROVE  QueueInv'
<1>1. PICK k \in Victims :
        /\ active' = RemoveAt(active, k)
        /\ waiting' = RequeueFirst(active[k])
  BY DEF Preempt
<1>2. /\ UNCHANGED <<finished, still_active, arrived, pc>>
      /\ pc \in {"reserve_prefill", "reserve_record"}
  BY DEF Preempt, Reserving, results, locals, inputs
<1>3. k \in 1..Len(active) /\ active[k] \in Req /\ active[k] \in ToSet(active)
  BY ElementsByIndex DEF Victims, TypeOK, QueuesOK
<1>4. ToSet(active') = ToSet(active) \ {active[k]} /\ IsInjective(active')
  BY <1>1, <1>3, RemoveAtElements DEF QueueInv, TypeOK, QueuesOK
<1>5. active[k] \notin ToSet(waiting) /\ active[k] \notin ToSet(finished)
  BY <1>2, <1>3 DEF QueueInv
<1>6. ToSet(waiting') = ToSet(waiting) \cup {active[k]} /\ IsInjective(waiting')
  BY <1>1, <1>3, <1>5, ConsElements DEF RequeueFirst, QueueInv, TypeOK, QueuesOK
<1>7. ToSet(still_active) = {}
  BY <1>2, EmptyElements DEF QueueInv
<1> QED BY <1>2, <1>3, <1>4, <1>5, <1>6, <1>7 DEF QueueInv

\* Settling the request at position i, by adding it to one of the two lists,
\* settles the positions before i + 1 and no other.
LEMMA Settle ==
  ASSUME TypeOK, QueueInv, pc = "retire", i <= Len(active),
         NEW old, NEW new,
         old = ToSet(still_active) \cup ToSet(finished),
         new = old \cup {active[i]}
  PROVE  /\ active[i] \in Req /\ active[i] \in ToSet(active) /\ active[i] \notin old
         /\ \A k \in 1..Len(active) : active[k] \in new <=> k < i + 1
<1>1. i \in 1..Len(active)
  BY ElementsByIndex DEF TypeOK, ControlOK, QueuesOK
<1>2. active[i] \in Req /\ active[i] \in ToSet(active) /\ active[i] \notin old
  BY <1>1, ElementsByIndex DEF QueueInv, TypeOK, QueuesOK
<1>3. ASSUME NEW k \in 1..Len(active)
      PROVE  active[k] \in new <=> k < i + 1
  <2>1. active[k] \in old <=> k < i
    BY DEF QueueInv
  <2>2. active[k] = active[i] <=> k = i
    BY <1>1, ElementsByIndex DEF QueueInv, TypeOK, QueuesOK
  <2>3. k < i + 1 <=> k < i \/ k = i
    BY <1>1
  <2> QED BY <2>1, <2>2, <2>3
<1> QED BY <1>2, <1>3

LEMMA QueueRetire ==
  ASSUME TypeOK, QueueInv, NEW r \in Req, Retire(r)
  PROVE  QueueInv'
<1>1. /\ pc = "retire" /\ i <= Len(active) /\ r = active[i] /\ i' = i + 1
      /\ UNCHANGED <<waiting, active, arrived, pc>>
  BY DEF Retire, RetireFailed, RetireDone, RetireKeep, AtRetire, queues, inputs
<1> DEFINE old == ToSet(still_active) \cup ToSet(finished)
<1>2. /\ r \in ToSet(active) /\ r \notin old
      /\ \A k \in 1..Len(active) : active[k] \in old \cup {r} <=> k < i + 1
  BY <1>1, Settle
<1>3. CASE RetireFailed(r) \/ RetireDone(r)
  <2>1. finished' = Append(finished, r) /\ UNCHANGED still_active
    BY <1>3 DEF RetireFailed, RetireDone, ReturnBlocks, locals
  <2>2. ToSet(finished') = ToSet(finished) \cup {r} /\ IsInjective(finished')
    BY <1>2, <2>1, AppendElements DEF QueueInv, TypeOK, ResultsOK
  <2> QED BY <1>1, <1>2, <2>1, <2>2 DEF QueueInv
<1>4. CASE RetireKeep(r)
  <2>1. still_active' = Append(still_active, r) /\ UNCHANGED finished
    BY <1>4 DEF RetireKeep, results
  <2>2. ToSet(still_active') = ToSet(still_active) \cup {r}
        /\ IsInjective(still_active')
    BY <1>2, <2>1, AppendElements DEF QueueInv, TypeOK, ListsOK
  <2> QED BY <1>1, <1>2, <2>1, <2>2 DEF QueueInv
<1> QED BY <1>3, <1>4 DEF Retire

LEMMA QueueRetireEnd ==
  ASSUME TypeOK, QueueInv, RetireEnd
  PROVE  QueueInv'
<1>1. /\ pc = "retire" /\ i > Len(active) /\ pc' = "idle"
      /\ active' = still_active /\ still_active' = <<>>
      /\ UNCHANGED <<waiting, finished, arrived>>
  BY DEF RetireEnd, results, inputs
<1>2. ToSet(active) \subseteq ToSet(still_active) \cup ToSet(finished)
  <2>1. \A k \in 1..Len(active) : k < i
    BY <1>1, ElementsByIndex DEF TypeOK, ControlOK, QueuesOK
  <2> QED BY <1>1, <2>1, ElementsByIndex DEF QueueInv, TypeOK, QueuesOK
<1> QED BY <1>1, <1>2, EmptyElements DEF QueueInv

LEMMA QueueNext ==
  ASSUME TypeOK, QueueInv, BatchInv, [Next]_vars
  PROVE  QueueInv'
<1> USE DEF inputs, queues, results, locals, Lists
<1>1. CASE Begin
  BY <1>1, QueueFrame DEF Begin
<1>2. CASE AdmitEnd \/ PrefillEnd
  BY <1>2, QueueFrame DEF AdmitEnd, PrefillEnd
<1>3. ASSUME NEW r \in Req, Prefill(r) PROVE QueueInv'
  BY <1>3, QueueFrame
     DEF Prefill, PrefillSkip, PrefillRaise, PrefillResume, PrefillFresh, AtPrefill
<1>4. CASE Collect \/ DecodeBatch \/ Record
  BY <1>4, QueueFrame DEF Collect, DecodeBatch, Record
<1>5. CASE CollectEnd
  <2>1. CASE decoding = <<>>
    BY <1>5, <2>1, QueueToRetire DEF CollectEnd
  <2>2. CASE decoding # <<>>
    BY <1>5, <2>2, QueueFrame DEF CollectEnd
  <2> QED BY <2>1, <2>2
<1>6. CASE RecordRaise \/ RecordEnd
  BY <1>6, QueueToRetire DEF RecordRaise, RecordEnd
<1>7. CASE DecodeRaise
  BY <1>7, QueueToRetire DEF DecodeRaise, BatchInv
<1>8. CASE StillFits \/ Charge
  BY <1>8, QueueFrame DEF StillFits, Charge, Return, Reserving
<1>9. CASE UNCHANGED vars
  BY <1>9 DEF vars, QueueInv
<1> QED
  BY <1>1, <1>2, <1>3, <1>4, <1>5, <1>6, <1>7, <1>8, <1>9, QueueAddRequest,
     QueueAdmit, QueuePreempt, QueueRetire, QueueRetireEnd
  DEF Next, Step
-----------------------------------------------------------------------------
(* BatchInv *)

Early == {"idle", "admit", "prefill", "reserve_prefill"}

LEMMA BatchEmpty == decoding = <<>> => Batch = {} /\ IsInjective(decoding)
  BY EmptyElements DEF Batch

\* Before the batch is built nothing but the end of the prefill loop matters.
LEMMA BatchEarly ==
  ASSUME BatchInv, pc \in Early, UNCHANGED decoding, pc' \in Early \cup {"collect"}
  PROVE  BatchInv'
<1>1. decoding' = <<>>
  BY DEF BatchInv, Early
<1>2. Batch' = {} /\ IsInjective(decoding')
  BY <1>1, EmptyElements DEF Batch
<1> QED BY <1>1, <1>2 DEF BatchInv, Early

\* Retiring does not look at the batch.
LEMMA BatchToRetire ==
  ASSUME BatchInv, UNCHANGED decoding, pc' = "retire"
  PROVE  BatchInv'
BY DEF BatchInv

LEMMA BatchCollect ==
  ASSUME TypeOK, QueueInv, BatchInv, Collect
  PROVE  BatchInv'
<1>1. /\ pc = "collect" /\ i <= Len(active) /\ i' = i + 1
      /\ UNCHANGED <<pc, active, prefilled, failed>>
      /\ decoding' = IF Decodable(active[i]) THEN Append(decoding, active[i])
                                             ELSE decoding
  BY DEF Collect, kv, queues
<1>2. i \in 1..Len(active) /\ active[i] \in Req
  BY <1>1, ElementsByIndex DEF TypeOK, ControlOK, QueuesOK
<1>3. active[i] \notin Batch
  BY <1>1, <1>2 DEF BatchInv
<1>4. CASE Decodable(active[i])
  <2>1. Batch' = Batch \cup {active[i]} /\ IsInjective(decoding')
    BY <1>1, <1>2, <1>3, <1>4, AppendElements DEF Batch, BatchInv, TypeOK, ListsOK
  <2>2. Batch' \subseteq prefilled' \ failed'
    BY <1>1, <1>4, <2>1 DEF Decodable, BatchInv
  <2>3. \A k \in 1..Len(active) : k >= i + 1 => active[k] # active[i]
    BY <1>2, ElementsByIndex DEF QueueInv, TypeOK, QueuesOK
  <2>4. \A k \in 1..Len(active) : k >= i + 1 => active[k] \notin Batch
    BY <1>1, <1>2 DEF BatchInv
  <2> QED BY <1>1, <2>1, <2>2, <2>3, <2>4 DEF BatchInv
<1>5. CASE ~Decodable(active[i])
  <2>1. decoding' = decoding /\ Batch' = Batch
    BY <1>1, <1>5 DEF Batch
  <2>2. \A k \in 1..Len(active) : k >= i + 1 => active[k] \notin Batch
    BY <1>1, <1>2 DEF BatchInv
  <2> QED BY <1>1, <2>1, <2>2 DEF BatchInv
<1> QED BY <1>4, <1>5

LEMMA BatchPreempt ==
  ASSUME BatchInv, Preempt
  PROVE  BatchInv'
<1>1. PICK victim : ResetForResume(victim)
  BY DEF Preempt
<1>2. prefilled \cup preempted \subseteq prefilled' \cup preempted'
  BY <1>1 DEF ResetForResume
<1>3. /\ pc \in {"reserve_prefill", "reserve_record"}
      /\ UNCHANGED <<pc, decoding>> /\ Batch' = Batch
  BY DEF Preempt, Reserving, locals, Batch
<1> QED BY <1>2, <1>3 DEF BatchInv

LEMMA BatchNext ==
  ASSUME TypeOK, QueueInv, BatchInv, [Next]_vars
  PROVE  BatchInv'
<1> USE DEF kv, queues, results, locals
<1>1. ASSUME NEW r \in Req, AddRequest(r) PROVE BatchInv'
  BY <1>1, BatchEarly DEF AddRequest, Early
<1>2. CASE Begin \/ Admit \/ AdmitEnd \/ PrefillEnd
  BY <1>2, BatchEarly DEF Begin, Admit, AdmitEnd, PrefillEnd, Early
<1>3. ASSUME NEW r \in Req, Prefill(r) PROVE BatchInv'
  BY <1>3, BatchEarly
     DEF Prefill, PrefillSkip, PrefillRaise, PrefillResume, PrefillFresh,
         AtPrefill, Early
<1>4. CASE CollectEnd
  BY <1>4 DEF CollectEnd, BatchInv, Batch
<1>5. CASE DecodeRaise \/ RecordRaise \/ RecordEnd
  BY <1>5, BatchToRetire DEF DecodeRaise, RecordRaise, RecordEnd
<1>6. CASE DecodeBatch
  BY <1>6 DEF DecodeBatch, BatchInv, Batch
<1>7. CASE Record
  BY <1>7 DEF Record, BatchInv, Batch
<1>8. CASE StillFits \/ Charge
  <2>1. /\ pc \in {"reserve_prefill", "reserve_record"}
        /\ pc' = IF pc = "reserve_prefill" THEN "prefill" ELSE "record"
        /\ UNCHANGED <<decoding, prefilled, preempted>>
    BY <1>8 DEF StillFits, Charge, Return, Reserving
  <2>2. CASE pc = "reserve_prefill"
    BY <2>1, <2>2, BatchEarly DEF Early
  <2>3. CASE pc = "reserve_record"
    BY <2>1, <2>3 DEF BatchInv, Batch
  <2> QED BY <2>1, <2>2, <2>3
<1>9. ASSUME NEW r \in Req, Retire(r) PROVE BatchInv'
  BY <1>9, BatchToRetire
     DEF Retire, RetireFailed, RetireDone, RetireKeep, AtRetire
<1>10. CASE RetireEnd
  BY <1>10, EmptyElements DEF RetireEnd, BatchInv, Batch
<1>11. CASE UNCHANGED vars
  BY <1>11 DEF vars, BatchInv, Batch
<1> QED
  BY <1>1, <1>2, <1>3, <1>4, <1>5, <1>6, <1>7, <1>8, <1>9, <1>10, <1>11,
     BatchCollect, BatchPreempt
  DEF Next, Step
-----------------------------------------------------------------------------
(* CacheInv *)

\* Outside the record loop no token is pending.
LEMMA NoPending ==
  pc \notin {"record", "reserve_record"} => Pending = {}
BY DEF Pending

\* The tokens and the caches are untouched, and so is what is pending.
LEMMA CacheFrame ==
  ASSUME CacheInv, UNCHANGED <<inputs, tokens, kv, corrupt>>, Pending' = Pending,
         failed \subseteq failed'
  PROVE  CacheInv'
BY DEF CacheInv, Lossless, AllIds, inputs, tokens, kv

LEMMA CacheAddRequest ==
  ASSUME TypeOK, CacheInv, NEW r \in Req, AddRequest(r)
  PROVE  CacheInv'
<1>1. /\ arrived' = arrived \cup {r} /\ r \notin prefilled
      /\ UNCHANGED <<tokens, kv, corrupt, failed>>
      /\ \A q \in Req \ {r} : prompt_len'[q] = prompt_len[q]
      /\ Pending = {} /\ Pending' = {}
  BY DEF AddRequest, CacheInv, TypeOK, InputsOK, history, Pending
<1>2. \A q \in prefilled : AllIds(q)' = AllIds(q)
  BY <1>1 DEF AllIds, tokens, TypeOK, KVOK
<1> QED BY <1>1, <1>2 DEF CacheInv, Lossless, tokens, kv

LEMMA CachePrefillResume ==
  ASSUME TypeOK, QueueInv, CacheInv, NEW r \in Req, PrefillResume(r)
  PROVE  CacheInv'
<1>1. /\ r \notin prefilled /\ r \in preempted
      /\ prefilled' = prefilled \cup {r} /\ preempted' = preempted \ {r}
      /\ next_token' = [next_token EXCEPT ![r] = AllIds(r) - 1]
      /\ UNCHANGED <<arrived, prompt_len, generated, failed>>
      /\ pc = "prefill" /\ pc' = "reserve_prefill"
  BY DEF PrefillResume, AtPrefill, inputs
<1>2. PrefillSpan(r) = AllIds(r) - 1 /\ PrefillSpan(r) \in Nat
  BY <1>1, PrefillSpanNat DEF PrefillResume, PrefillSpan
<1>3. cached[r] = 0
  BY <1>1 DEF CacheInv
<1>4. /\ cached' = [cached EXCEPT ![r] = AllIds(r) - 1]
      /\ corrupt' = corrupt
  <2>1. /\ cached' = [cached EXCEPT ![r] = cached[r] + PrefillSpan(r)]
        /\ corrupt' = corrupt
    BY <1>3 DEF PrefillResume, Forward
  <2>2. cached[r] + PrefillSpan(r) = AllIds(r) - 1
    BY <1>2, <1>3
  <2> QED BY <2>1, <2>2
<1>5. Pending = {} /\ Pending' = {}
  BY <1>1, NoPending DEF Pending
<1>6. r \in arrived
  BY ElementsByIndex
     DEF PrefillResume, AtPrefill, QueueInv, TypeOK, QueuesOK, ControlOK
<1>7. \A q \in Req : AllIds(q)' = AllIds(q)
  BY <1>1 DEF AllIds
<1>8. prefilled' \subseteq Req
  BY <1>1 DEF TypeOK, KVOK
<1> QED BY <1>1, <1>3, <1>4, <1>5, <1>6, <1>7, <1>8
        DEF CacheInv, Lossless, TypeOK, KVOK, TokensOK

LEMMA CachePrefillFresh ==
  ASSUME TypeOK, QueueInv, CacheInv, NEW r \in Req, PrefillFresh(r)
  PROVE  CacheInv'
<1>1. /\ r \notin prefilled /\ r \notin preempted
      /\ prefilled' = prefilled \cup {r}
      /\ generated' = [generated EXCEPT ![r] = @ + 1]
      /\ next_token' = [next_token EXCEPT ![r] = AllIds(r)]
      /\ UNCHANGED <<arrived, prompt_len, preempted, failed>>
      /\ pc = "prefill" /\ pc' = "reserve_prefill"
  BY DEF PrefillFresh, AtPrefill, RecordToken, inputs
<1>2. PrefillSpan(r) = prompt_len[r] /\ prompt_len[r] \in Nat
  BY <1>1 DEF PrefillSpan, TypeOK, InputsOK
<1>3. cached[r] = 0 /\ generated[r] = 0
  BY <1>1 DEF CacheInv
<1>4. /\ cached' = [cached EXCEPT ![r] = prompt_len[r]]
      /\ corrupt' = corrupt
  <2>1. /\ cached' = [cached EXCEPT ![r] = cached[r] + PrefillSpan(r)]
        /\ corrupt' = corrupt
    BY <1>3 DEF PrefillFresh, Forward
  <2>2. cached[r] + PrefillSpan(r) = prompt_len[r]
    BY <1>2, <1>3
  <2> QED BY <2>1, <2>2
<1>5. Pending = {} /\ Pending' = {}
  BY <1>1, NoPending DEF Pending
<1>6. r \in arrived
  BY ElementsByIndex
     DEF PrefillFresh, AtPrefill, QueueInv, TypeOK, QueuesOK, ControlOK
<1>7. /\ AllIds(r) = prompt_len[r] /\ AllIds(r)' - 1 = prompt_len[r]
      /\ \A q \in Req \ {r} : AllIds(q)' = AllIds(q)
  BY <1>1, <1>2, <1>3 DEF AllIds, TypeOK, TokensOK
<1>8. prefilled' \subseteq Req
  BY <1>1 DEF TypeOK, KVOK
<1> QED BY <1>1, <1>3, <1>4, <1>5, <1>6, <1>7, <1>8
        DEF CacheInv, Lossless, TypeOK, KVOK, TokensOK

LEMMA CacheDecodeBatch ==
  ASSUME TypeOK, BatchInv, CacheInv, DecodeBatch
  PROVE  CacheInv'
<1>1. /\ pc = "decode" /\ pc' = "record" /\ i' = 1
      /\ cached' = [r \in Req |-> IF r \in Batch THEN cached[r] + 1 ELSE cached[r]]
      /\ corrupt' = corrupt \cup {r \in Batch : ~DecodeIsExact(r)}
      /\ UNCHANGED <<inputs, tokens, prefilled, preempted, decoding, failed>>
  BY DEF DecodeBatch, BatchInv, locals
<1>2. Pending = {} /\ Pending' = Batch
  <2>1. Pending' = {decoding[k] : k \in 1..Len(decoding)}
    BY <1>1, ElementsByIndex DEF Pending, TypeOK, ListsOK
  <2>2. Batch = {decoding[k] : k \in 1..Len(decoding)}
    BY ElementsByIndex DEF Batch, TypeOK, ListsOK
  <2> QED BY <1>1, <2>1, <2>2, NoPending
<1>3. Batch \subseteq prefilled \ failed /\ prefilled \subseteq Req
  BY <1>1 DEF BatchInv, TypeOK, KVOK
<1>4. \A r \in prefilled \ failed :
        next_token[r] = AllIds(r) - 1 /\ cached[r] = AllIds(r) - 1
  BY <1>2 DEF CacheInv
<1>5. corrupt' = {}
  <2>1. ASSUME NEW r \in Batch PROVE DecodeIsExact(r)
    <3>1. r \in prefilled \ failed
      BY <1>3
    <3>2. next_token[r] = AllIds(r) - 1 /\ cached[r] = AllIds(r) - 1
      BY <1>4, <3>1
    <3>3. PositionOffset(r) = AllIds(r) - 1
      BY <1>3, <3>1 DEF PositionOffset, AllIds, TypeOK, InputsOK, TokensOK
    <3> QED BY <3>2, <3>3 DEF DecodeIsExact
  <2> QED BY <1>1, <2>1 DEF CacheInv, Lossless
<1>6. \A r \in Req : AllIds(r)' = AllIds(r) /\ AllIds(r) \in Nat
  BY <1>1, AllIdsNat DEF AllIds, inputs, tokens
<1>7. \A r \in prefilled \ failed :
        cached'[r] = IF r \in Batch THEN AllIds(r) ELSE AllIds(r) - 1
  BY <1>1, <1>3, <1>4, <1>6
<1> QED BY <1>1, <1>2, <1>3, <1>5, <1>6, <1>7
        DEF CacheInv, Lossless, inputs, tokens

LEMMA CacheRecord ==
  ASSUME TypeOK, BatchInv, CacheInv, Record, NEW r, r = decoding[i]
  PROVE  CacheInv'
<1>1. /\ pc = "record" /\ pc' = "reserve_record" /\ i <= Len(decoding)
      /\ UNCHANGED <<inputs, kv, corrupt, decoding, i, failed>>
      /\ generated' = [generated EXCEPT ![r] = @ + 1]
      /\ next_token' = [next_token EXCEPT ![r] = AllIds(r)]
  BY DEF Record, RecordToken
<1>2. i \in 1..Len(decoding) /\ r \in Req /\ r \in Batch
  BY <1>1, ElementsByIndex DEF TypeOK, ControlOK, ListsOK, Batch
<1>3. r \in prefilled \cup preempted
  BY <1>1, <1>2 DEF BatchInv
<1>4. r \in Pending
  BY <1>1, <1>2 DEF Pending
<1>5. Pending' = Pending \ {r}
  <2>1. Pending = {decoding[k] : k \in {j \in 1..Len(decoding) : j >= i}}
    BY <1>1 DEF Pending
  <2>2. Pending' = {decoding[k] : k \in {j \in 1..Len(decoding) : j > i}}
    BY <1>1 DEF Pending
  <2>3. \A k \in 1..Len(decoding) : k > i <=> k >= i /\ decoding[k] # r
    BY <1>2, ElementsByIndex DEF BatchInv, TypeOK, ListsOK
  <2> QED BY <2>1, <2>2, <2>3
<1>6. /\ AllIds(r) \in Nat /\ AllIds(r)' - 1 = AllIds(r)
      /\ \A q \in Req \ {r} : AllIds(q)' = AllIds(q)
  <2>1. /\ AllIds(r) \in Nat /\ AllIds(r) = prompt_len[r] + generated[r]
        /\ prompt_len[r] \in Nat /\ generated[r] \in Nat
    BY <1>2, AllIdsNat DEF AllIds, TypeOK, TokensOK, InputsOK
  <2>2. /\ prompt_len' = prompt_len /\ generated'[r] = generated[r] + 1
        /\ \A q \in Req \ {r} : generated'[q] = generated[q]
    BY <1>1, <1>2 DEF inputs, TypeOK, TokensOK
  <2>3. AllIds(r)' = AllIds(r) + 1
    BY <2>1, <2>2 DEF AllIds
  <2>4. \A q \in Req \ {r} : AllIds(q)' = AllIds(q)
    BY <2>2 DEF AllIds
  <2> QED BY <2>1, <2>3, <2>4
<1>7. prefilled \subseteq Req /\ UNCHANGED <<prefilled, preempted, cached, arrived>>
  BY <1>1 DEF TypeOK, KVOK, kv, inputs
<1>8. ASSUME NEW q \in prefilled \ failed
      PROVE  /\ next_token'[q] = AllIds(q)' - 1
             /\ cached[q] = IF q \in Pending' THEN AllIds(q)' ELSE AllIds(q)' - 1
  <2>1. /\ next_token[q] = AllIds(q) - 1
        /\ cached[q] = IF q \in Pending THEN AllIds(q) ELSE AllIds(q) - 1
    BY DEF CacheInv
  <2>2. CASE q = r
    BY <1>1, <1>2, <1>4, <1>5, <1>6, <2>1, <2>2 DEF TypeOK, TokensOK
  <2>3. CASE q # r
    <3>1. AllIds(q)' = AllIds(q) /\ next_token'[q] = next_token[q]
      BY <1>1, <1>6, <1>7, <2>3 DEF TypeOK, TokensOK
    <3> QED BY <1>5, <2>1, <2>3, <3>1
  <2> QED BY <2>2, <2>3
<1>9. \A q \in Req \ (prefilled \cup preempted) : generated'[q] = 0
  BY <1>1, <1>3 DEF CacheInv, TypeOK, TokensOK
<1> QED BY <1>1, <1>7, <1>8, <1>9 DEF CacheInv, Lossless

\* The tokens that are still pending are all of requests that now fail.
LEMMA CacheRecordRaise ==
  ASSUME TypeOK, CacheInv, RecordRaise
  PROVE  CacheInv'
<1>1. /\ UNCHANGED <<inputs, tokens, kv, corrupt>>
      /\ failed' = failed \cup Batch /\ Pending' = {}
  BY DEF RecordRaise, Pending, history
<1>2. Pending \subseteq Batch
  BY ElementsByIndex DEF Pending, Batch, TypeOK, ListsOK
<1> QED BY <1>1, <1>2 DEF CacheInv, Lossless, AllIds, inputs, tokens, kv

LEMMA CachePreempt ==
  ASSUME TypeOK, CacheInv, Preempt
  PROVE  CacheInv'
<1>1. PICK k \in Victims : ResetForResume(active[k])
  BY DEF Preempt
<1> DEFINE v == active[k]
<1>2. v \in Req
  BY ElementsByIndex DEF Victims, TypeOK, QueuesOK
<1>3. /\ cached' = [cached EXCEPT ![v] = 0] /\ prefilled' = prefilled \ {v}
      /\ preempted' = preempted \cup {v}
  BY <1>1 DEF ResetForResume
<1>4. /\ UNCHANGED <<inputs, tokens, corrupt, failed>> /\ Pending' = Pending
  BY DEF Preempt, locals, history, Pending
<1> HIDE DEF v
<1> QED BY <1>2, <1>3, <1>4
        DEF CacheInv, Lossless, AllIds, inputs, tokens, TypeOK, KVOK

LEMMA CacheReserve ==
  ASSUME TypeOK, CacheInv, StillFits \/ Charge
  PROVE  CacheInv'
<1>1. /\ UNCHANGED <<inputs, tokens, kv, corrupt, decoding, failed>>
      /\ pc \in {"reserve_prefill", "reserve_record"}
      /\ pc' = IF pc = "reserve_prefill" THEN "prefill" ELSE "record"
      /\ i' = i + 1
  BY DEF StillFits, Charge, Return, Reserving, history
<1>2. CASE pc = "reserve_prefill"
  BY <1>1, <1>2, NoPending, CacheFrame DEF Pending
<1>3. CASE pc = "reserve_record"
  <2>1. \A k \in 1..Len(decoding) : k > i <=> k >= i + 1
    BY ElementsByIndex DEF TypeOK, ControlOK, ListsOK
  <2>2. Pending' = Pending
    BY <1>1, <1>3, <2>1 DEF Pending
  <2> QED BY <1>1, <2>2, CacheFrame
<1> QED BY <1>1, <1>2, <1>3

LEMMA CacheNext ==
  ASSUME TypeOK, QueueInv, BatchInv, CacheInv, [Next]_vars
  PROVE  CacheInv'
<1>1. CASE Begin \/ Admit \/ AdmitEnd \/ PrefillEnd \/ Collect \/ CollectEnd
  BY <1>1, CacheFrame
     DEF Begin, Admit, AdmitEnd, PrefillEnd, Collect, CollectEnd, Pending, history
<1>2. ASSUME NEW r \in Req, PrefillSkip(r) \/ PrefillRaise(r) PROVE CacheInv'
  BY <1>2, CacheFrame DEF PrefillSkip, PrefillRaise, AtPrefill, Pending, history
<1>3. CASE DecodeRaise
  BY <1>3, CacheFrame DEF DecodeRaise, Pending, history
<1>4. CASE RecordEnd
  <2>1. Pending = {} /\ Pending' = {}
    BY <1>4, ElementsByIndex
       DEF RecordEnd, Pending, TypeOK, ControlOK, ListsOK, locals
  <2> QED BY <1>4, <2>1, CacheFrame DEF RecordEnd, history
<1>5. ASSUME NEW r \in Req, Retire(r) PROVE CacheInv'
  BY <1>5, CacheFrame
     DEF Retire, RetireFailed, RetireDone, RetireKeep, AtRetire, Pending, history
<1>6. CASE RetireEnd
  BY <1>6, CacheFrame DEF RetireEnd, Pending, history
<1>7. CASE UNCHANGED vars
  BY <1>7, CacheFrame DEF vars, Pending, locals, history
<1>8. CASE Record
  <2>1. PICK r : r = decoding[i]
    OBVIOUS
  <2> QED BY <1>8, <2>1, CacheRecord
<1> QED
  BY <1>1, <1>2, <1>3, <1>4, <1>5, <1>6, <1>7, <1>8, CacheAddRequest,
     CachePrefillResume, CachePrefillFresh, CacheDecodeBatch, CacheRecordRaise,
     CachePreempt, CacheReserve
  DEF Next, Step, Prefill

-----------------------------------------------------------------------------
LEMMA EngineInit == Init => EngineInv
<1> SUFFICES ASSUME Init PROVE EngineInv
  OBVIOUS
<1>1. QueueInv
  BY EmptyElements DEF Init, QueueInv
<1>2. BatchInv
  BY EmptyElements DEF Init, BatchInv
<1>3. CacheInv
  BY DEF Init, CacheInv, Lossless
<1> QED BY <1>1, <1>2, <1>3 DEF EngineInv

\* The inductive invariant holds in every state of the engine.
THEOREM EngineCorrect == Spec => []EngineInv
<1>1. Init => TypeOK /\ EngineInv
  BY TypeInit, EngineInit
<1>2. TypeOK /\ EngineInv /\ [Next]_vars => (TypeOK /\ EngineInv)'
  BY TypeNext, QueueNext, BatchNext, CacheNext DEF EngineInv
<1> QED BY <1>1, <1>2, PTL DEF Spec

\* Preemption is lossless, whatever the budget, the batch and the order in
\* which requests are evicted and resumed: no token is ever computed from a
\* cache that misses or repeats positions, or fed another token than the last.
THEOREM PreemptionIsLossless == Spec => []Lossless
<1>1. EngineInv => Lossless
  BY DEF EngineInv, CacheInv
<1> QED BY <1>1, EngineCorrect, PTL

LEMMA InFlightElements ==
  ASSUME TypeOK, QueueInv
  PROVE  /\ IsInjective(InFlight)
         /\ ToSet(InFlight) \cap ToSet(waiting) = {}
         /\ ToSet(InFlight) \cap ToSet(finished) = {}
         /\ ToSet(InFlight) \cup ToSet(finished) = ToSet(active) \cup ToSet(finished)
<1>1. CASE pc # "retire"
  BY <1>1 DEF InFlight, QueueInv
<1>2. CASE pc = "retire"
  <2>1. /\ InFlight = still_active \o SubSeq(active, i, Len(active))
        /\ i \in Nat \ {0}
    BY <1>2 DEF InFlight, TypeOK, ControlOK
  <2>2. \A k \in 1..Len(active) :
          active[k] \in ToSet(still_active) \cup ToSet(finished) <=> k < i
    BY <1>2 DEF QueueInv
  <2>3. \A k \in 1..Len(active) : k >= i <=> ~(k < i)
    BY <2>1, ElementsByIndex DEF TypeOK, QueuesOK
  <2>4. /\ ToSet(InFlight) = ToSet(still_active)
              \cup {active[k] : k \in {j \in 1..Len(active) : j >= i}}
        /\ IsInjective(InFlight)
    <3>1. \A k \in 1..Len(active) : k >= i => active[k] \notin ToSet(still_active)
      BY <2>2, <2>3
    <3> QED BY <2>1, <3>1, ConcatSuffixElements
            DEF QueueInv, TypeOK, QueuesOK, ListsOK
  <2>5. \A x \in ToSet(InFlight) : x \notin ToSet(finished) /\ x \in ToSet(active)
    BY <2>2, <2>3, <2>4, ElementsByIndex DEF QueueInv, TypeOK, QueuesOK
  <2>6. \A x \in ToSet(active) : x \in ToSet(InFlight) \cup ToSet(finished)
    BY <2>2, <2>3, <2>4, ElementsByIndex DEF TypeOK, QueuesOK
  <2> QED BY <2>4, <2>5, <2>6 DEF QueueInv
<1> QED BY <1>1, <1>2

\* No request is lost or duplicated by admission, preemption in the middle of
\* a loop over the list it changes, failure or retirement.
THEOREM RequestsExactlyOnce == Spec => []ExactlyOnce
<1>1. TypeOK /\ EngineInv => ExactlyOnce
  BY InFlightElements DEF EngineInv, ExactlyOnce, QueueInv
<1> QED BY <1>1, TypeCorrect, EngineCorrect, PTL
=============================================================================
