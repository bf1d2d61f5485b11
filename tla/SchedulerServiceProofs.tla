----------------------- MODULE SchedulerServiceProofs -----------------------
(***************************************************************************)
(* What a client of the engine is promised: the engine implements          *)
(* RequestService.tla; a tick gives a request at most one token; evicted   *)
(* requests resume first; a request that the model cannot run yields       *)
(* nothing, and takes others with it only in the way that the known        *)
(* finding describes.                                                      *)
(***************************************************************************)
EXTENDS SchedulerSafetyProofs

\* The batch exists, from its first element to the last recorded token.
WithBatch == {"collect", "decode", "record", "reserve_record"}

\* The tick has not recorded a token of the batch.
BeforeRecord == {"admit", "prefill", "reserve_prefill", "collect", "decode"}

\* The requests of the batch whose token is still to come.
Undecoded ==
  {decoding[k] : k \in {j \in 1..Len(decoding) :
                          \/ pc \in {"collect", "decode"}
                          \/ pc = "record" /\ j >= i
                          \/ pc = "reserve_record" /\ j > i}}

\* A finished request is done or failed; the batch holds no finished request,
\* and those whose token is still to come want one and have had none in this
\* tick, because only requests prefilled in this tick have.
ServiceInv ==
  /\ preempted \subseteq arrived
  /\ \A r \in ToSet(finished) : r \in failed \/ IsDone(r)
  /\ pc \in WithBatch => Batch \cap ToSet(finished) = {}
  /\ \A r \in Undecoded : ~IsDone(r) /\ r \notin advanced
  /\ \A r \in advanced : generated[r] > 0
  /\ pc \in BeforeRecord => advanced \subseteq just_prefilled

\* Nothing that ServiceInv is about changes but the batch, which only shrinks.
LEMMA ServiceFrame ==
  ASSUME ServiceInv,
         UNCHANGED <<arrived, preempted, generated, max_new_tokens, failed,
                     finished, advanced, just_prefilled>>,
         Undecoded' \subseteq Undecoded,
         pc' \in WithBatch => Batch' = {} \/ (Batch' = Batch /\ pc \in WithBatch),
         pc' \in BeforeRecord => pc \in BeforeRecord
  PROVE  ServiceInv'
BY DEF ServiceInv, IsDone

\* add_request brings a request that nothing is recorded of.
LEMMA ServiceAddRequest ==
  ASSUME TypeOK, QueueInv, BatchInv, ServiceInv, NEW r \in Req, AddRequest(r)
  PROVE  ServiceInv'
<1>1. /\ pc = "idle" /\ pc' = "idle" /\ r \notin arrived
      /\ arrived' = arrived \cup {r}
      /\ \A q \in Req \ {r} : max_new_tokens'[q] = max_new_tokens[q]
      /\ UNCHANGED <<preempted, generated, failed, finished, advanced>>
  BY DEF AddRequest, kv, tokens, results, history, TypeOK, InputsOK
<1>2. ToSet(finished) \subseteq Req /\ r \notin ToSet(finished)
  BY <1>1, ElementsByIndex DEF QueueInv, TypeOK, ResultsOK
<1>3. Undecoded' = {}
  BY <1>1 DEF Undecoded
<1> QED BY <1>1, <1>2, <1>3 DEF ServiceInv, IsDone, WithBatch, BeforeRecord

\* The first token of a request is the prefill's, in the tick of that prefill.
LEMMA ServicePrefillFresh ==
  ASSUME TypeOK, QueueInv, BatchInv, CacheInv, ServiceInv,
         NEW r \in Req, PrefillFresh(r)
  PROVE  ServiceInv'
<1>1. /\ pc = "prefill" /\ pc' = "reserve_prefill" /\ i <= Len(active)
      /\ r = active[i] /\ decoding = <<>> /\ decoding' = <<>>
      /\ generated' = [generated EXCEPT ![r] = @ + 1]
      /\ advanced' = advanced \cup {r}
      /\ just_prefilled' = just_prefilled \cup {r}
      /\ UNCHANGED <<arrived, max_new_tokens, preempted, failed, finished>>
  BY DEF PrefillFresh, AtPrefill, RecordToken, inputs, results, BatchInv
<1>2. r \notin ToSet(finished)
  BY <1>1, ElementsByIndex DEF QueueInv, TypeOK, QueuesOK, ControlOK
<1>3. Undecoded' = {}
  BY <1>1 DEF Undecoded
<1>4. generated'[r] > 0 /\ \A q \in Req \ {r} : generated'[q] = generated[q]
  BY <1>1 DEF TypeOK, TokensOK
<1>5. ToSet(finished) \subseteq Req /\ advanced \subseteq Req
  BY ElementsByIndex DEF TypeOK, ResultsOK, HistoryOK
<1> QED BY <1>1, <1>2, <1>3, <1>4, <1>5
        DEF ServiceInv, IsDone, WithBatch, BeforeRecord

\* The batch takes prefilled requests, and none that had a token in this tick.
LEMMA ServiceCollect ==
  ASSUME TypeOK, QueueInv, BatchInv, ServiceInv, Collect
  PROVE  ServiceInv'
<1>1. /\ pc = "collect" /\ pc' = "collect" /\ i <= Len(active)
      /\ decoding' = IF Decodable(active[i]) THEN Append(decoding, active[i])
                                             ELSE decoding
      /\ UNCHANGED <<arrived, max_new_tokens, generated, preempted, failed,
                     finished, advanced, just_prefilled>>
  BY DEF Collect, inputs, tokens, kv, results, history
<1>2. /\ active[i] \in Req /\ active[i] \in ToSet(active)
      /\ active[i] \notin ToSet(finished)
  BY <1>1, ElementsByIndex DEF QueueInv, TypeOK, QueuesOK, ControlOK
<1>3. Undecoded = Batch /\ Undecoded' = Batch'
  <2>1. decoding \in Seq(Req) /\ decoding' \in Seq(Req)
    BY <1>1, <1>2, AppendProperties DEF TypeOK, ListsOK
  <2>2. /\ Undecoded = {decoding[k] : k \in 1..Len(decoding)}
        /\ Undecoded' = {decoding'[k] : k \in 1..Len(decoding')}
    BY <1>1 DEF Undecoded
  <2> QED BY <2>1, <2>2, ElementsByIndex DEF Batch
<1>4. CASE Decodable(active[i])
  <2>1. Batch' = Batch \cup {active[i]}
    BY <1>1, <1>2, <1>4, AppendElements DEF Batch, TypeOK, ListsOK
  <2>2. ~IsDone(active[i]) /\ active[i] \notin advanced
    BY <1>1, <1>4 DEF Decodable, ServiceInv, BeforeRecord
  <2> QED BY <1>1, <1>2, <1>3, <2>1, <2>2
          DEF ServiceInv, IsDone, WithBatch, BeforeRecord
<1>5. CASE ~Decodable(active[i])
  <2>1. Batch' = Batch
    BY <1>1, <1>5 DEF Batch
  <2> QED BY <1>1, <1>3, <2>1, ServiceFrame DEF WithBatch, BeforeRecord
<1> QED BY <1>4, <1>5

\* A recorded request leaves those whose token is still to come.
LEMMA ServiceRecord ==
  ASSUME TypeOK, BatchInv, ServiceInv, Record, NEW r, r = decoding[i]
  PROVE  ServiceInv' /\ r \in Undecoded /\ r \in Req
<1>1. /\ pc = "record" /\ pc' = "reserve_record" /\ i <= Len(decoding)
      /\ generated' = [generated EXCEPT ![r] = @ + 1]
      /\ advanced' = advanced \cup {r}
      /\ UNCHANGED <<arrived, max_new_tokens, preempted, failed, finished,
                     decoding, i>>
  BY DEF Record, RecordToken, inputs, kv, results
<1>2. i \in 1..Len(decoding) /\ r \in Req /\ r \in Batch
  BY <1>1, ElementsByIndex DEF TypeOK, ControlOK, ListsOK, Batch
<1>3. r \in Undecoded /\ Undecoded' = Undecoded \ {r}
  <2>1. Undecoded = {decoding[k] : k \in {j \in 1..Len(decoding) : j >= i}}
    BY <1>1 DEF Undecoded
  <2>2. Undecoded' = {decoding[k] : k \in {j \in 1..Len(decoding) : j > i}}
    BY <1>1 DEF Undecoded
  <2>3. \A k \in 1..Len(decoding) : k > i <=> k >= i /\ decoding[k] # r
    BY <1>2, ElementsByIndex DEF BatchInv, TypeOK, ListsOK
  <2> QED BY <1>2, <2>1, <2>2, <2>3
<1>4. r \notin ToSet(finished) /\ Batch' = Batch
  BY <1>1, <1>2 DEF ServiceInv, WithBatch, Batch
<1>5. generated'[r] > 0 /\ \A q \in Req \ {r} : generated'[q] = generated[q]
  BY <1>1, <1>2 DEF TypeOK, TokensOK
<1>6. ToSet(finished) \subseteq Req /\ advanced \subseteq Req /\ Undecoded \subseteq Req
  BY ElementsByIndex DEF TypeOK, ResultsOK, HistoryOK, ListsOK, Undecoded
<1>7. \A q \in Undecoded' : ~IsDone(q)' /\ q \notin advanced'
  BY <1>1, <1>3, <1>5, <1>6 DEF ServiceInv, IsDone
<1>8. \A q \in ToSet(finished) : q \in failed \/ IsDone(q)'
  BY <1>1, <1>4, <1>5, <1>6 DEF ServiceInv, IsDone
<1> QED BY <1>1, <1>2, <1>3, <1>4, <1>5, <1>6, <1>7, <1>8
        DEF ServiceInv, WithBatch, BeforeRecord

\* A preempted request has arrived, and has no fewer tokens than before.
LEMMA ServicePreempt ==
  ASSUME TypeOK, QueueInv, ServiceInv, Preempt
  PROVE  ServiceInv'
<1>1. PICK k \in Victims : ResetForResume(active[k])
  BY DEF Preempt
<1>2. active[k] \in arrived
  BY ElementsByIndex DEF Victims, QueueInv, TypeOK, QueuesOK
<1>3. /\ preempted' = preempted \cup {active[k]}
      /\ UNCHANGED <<arrived, max_new_tokens, generated, failed, finished,
                     advanced, just_prefilled, pc, i, decoding>>
  BY <1>1 DEF Preempt, ResetForResume, inputs, tokens, results, history, locals
<1>4. Undecoded' = Undecoded /\ Batch' = Batch
  BY <1>3 DEF Undecoded, Batch
<1> QED BY <1>2, <1>3, <1>4 DEF ServiceInv, IsDone

\* The retire loop answers only what is done or failed.
LEMMA ServiceRetire ==
  ASSUME TypeOK, QueueInv, ServiceInv, NEW r \in Req, Retire(r)
  PROVE  ServiceInv'
<1>1. /\ pc = "retire" /\ pc' = "retire"
      /\ UNCHANGED <<arrived, max_new_tokens, generated, preempted, failed,
                     advanced>>
  BY DEF Retire, RetireFailed, RetireDone, RetireKeep, AtRetire, inputs,
         tokens, kv, history
<1>2. \/ finished' = finished
      \/ finished' = Append(finished, r) /\ (r \in failed \/ IsDone(r))
  <2>1. CASE RetireFailed(r)
    BY <2>1 DEF RetireFailed, ReturnBlocks
  <2>2. CASE RetireDone(r)
    BY <2>2 DEF RetireDone, ReturnBlocks
  <2>3. CASE RetireKeep(r)
    BY <2>3 DEF RetireKeep, results
  <2> QED BY <2>1, <2>2, <2>3 DEF Retire
<1>3. \A q \in ToSet(finished') :
        q \in ToSet(finished) \/ (q = r /\ (r \in failed \/ IsDone(r)))
  <2>1. ToSet(Append(finished, r)) = ToSet(finished) \cup {r}
    BY AppendElements DEF TypeOK, ResultsOK
  <2> QED BY <1>2, <2>1
<1>4. Undecoded' = {}
  BY <1>1 DEF Undecoded
<1> QED BY <1>1, <1>3, <1>4 DEF ServiceInv, IsDone, WithBatch, BeforeRecord

\* Before the first request there is nothing to keep.
LEMMA ServiceInit == Init => ServiceInv
<1> SUFFICES ASSUME Init PROVE ServiceInv
  OBVIOUS
<1>1. Undecoded = {} /\ ToSet(finished) = {}
  BY EmptyElements DEF Init, Undecoded
<1> QED BY <1>1 DEF Init, ServiceInv, WithBatch, BeforeRecord

\* Every step keeps ServiceInv.
LEMMA ServiceNext ==
  ASSUME TypeOK, EngineInv, ServiceInv, [Next]_vars
  PROVE  ServiceInv'
<1> USE DEF EngineInv
<1>0. BatchInv /\ QueueInv /\ CacheInv
  OBVIOUS
<1>1. CASE Begin
  <2>1. /\ pc' = "admit" /\ decoding' = <<>> /\ advanced' = {}
        /\ UNCHANGED <<arrived, max_new_tokens, generated, preempted, failed,
                       finished>>
    BY <1>0, <1>1 DEF Begin, inputs, tokens, kv, results, locals, BatchInv
  <2>2. Undecoded' = {}
    BY <2>1 DEF Undecoded
  <2> QED BY <2>1, <2>2 DEF ServiceInv, IsDone, WithBatch
<1>2. CASE Admit \/ AdmitEnd \/ PrefillEnd
  <2>1. /\ UNCHANGED <<arrived, preempted, generated, max_new_tokens, failed,
                       finished, advanced, just_prefilled, decoding>>
        /\ pc \in {"admit", "prefill"} /\ decoding = <<>>
        /\ pc' \in {"admit", "prefill", "collect"}
    BY <1>0, <1>2 DEF Admit, AdmitEnd, PrefillEnd, inputs, tokens, kv, results, locals,
                history, BatchInv
  <2>2. Undecoded' = {} /\ Batch' = {}
    BY <2>1, EmptyElements DEF Undecoded, Batch
  <2> QED BY <2>1, <2>2, ServiceFrame DEF BeforeRecord
<1>3. ASSUME NEW r \in Req, PrefillSkip(r) \/ PrefillRaise(r) \/ PrefillResume(r)
      PROVE  ServiceInv'
  <2>1. /\ UNCHANGED <<arrived, generated, max_new_tokens, finished, advanced,
                       just_prefilled>>
        /\ failed \subseteq failed' /\ preempted' \subseteq preempted
        /\ decoding' = <<>>
        /\ pc = "prefill" /\ pc' \in {"prefill", "reserve_prefill"}
    BY <1>0, <1>3 DEF PrefillSkip, PrefillRaise, PrefillResume, AtPrefill, inputs,
                tokens, kv, results, locals, history, BatchInv
  <2>2. Undecoded' = {} /\ Batch' = {}
    BY <2>1, EmptyElements DEF Undecoded, Batch
  <2> QED BY <2>1, <2>2 DEF ServiceInv, IsDone, WithBatch, BeforeRecord
<1>4. CASE CollectEnd
  <2>1. /\ UNCHANGED <<arrived, preempted, generated, max_new_tokens, failed,
                       finished, advanced, just_prefilled, decoding>>
        /\ pc = "collect" /\ pc' \in {"decode", "retire"}
    BY <1>4 DEF CollectEnd, inputs, tokens, kv, results, locals, history
  <2>2. Undecoded' \subseteq Undecoded /\ Batch' = Batch
    BY <2>1 DEF Undecoded, Batch
  <2> QED BY <2>1, <2>2, ServiceFrame DEF WithBatch, BeforeRecord
<1>5. CASE DecodeRaise \/ RecordRaise \/ RecordEnd
  <2>1. /\ UNCHANGED <<arrived, preempted, generated, max_new_tokens, finished,
                       advanced, just_prefilled, decoding>>
        /\ failed \subseteq failed' /\ pc' = "retire"
    BY <1>5 DEF DecodeRaise, RecordRaise, RecordEnd, inputs, tokens, kv, results,
         locals, history
  <2>2. Undecoded' = {}
    BY <2>1 DEF Undecoded
  <2> QED BY <2>1, <2>2 DEF ServiceInv, IsDone, WithBatch, BeforeRecord
<1>6. CASE DecodeBatch
  <2>1. /\ UNCHANGED <<arrived, preempted, generated, max_new_tokens, failed,
                       finished, advanced, just_prefilled, decoding>>
        /\ pc = "decode" /\ pc' = "record"
    BY <1>6 DEF DecodeBatch, inputs, tokens, results, locals
  <2>2. Undecoded' \subseteq Undecoded /\ Batch' = Batch
    BY <2>1 DEF Undecoded, Batch
  <2> QED BY <2>1, <2>2, ServiceFrame DEF WithBatch, BeforeRecord
<1>7. CASE Record
  <2>1. PICK r : r = decoding[i]
    OBVIOUS
  <2> QED BY <1>0, <1>7, <2>1, ServiceRecord
<1>8. CASE StillFits \/ Charge
  <2>1. /\ UNCHANGED <<arrived, preempted, generated, max_new_tokens, failed,
                       finished, advanced, just_prefilled, decoding>>
        /\ pc \in {"reserve_prefill", "reserve_record"}
        /\ pc' = IF pc = "reserve_prefill" THEN "prefill" ELSE "record"
        /\ i' = i + 1
    BY <1>8 DEF StillFits, Charge, Return, Reserving, inputs, tokens, kv,
                results, history
  <2>2. \A k \in 1..Len(decoding) : k > i <=> k >= i + 1
    BY ElementsByIndex DEF TypeOK, ControlOK, ListsOK
  <2>3. Undecoded' \subseteq Undecoded /\ Batch' = Batch
    BY <2>1, <2>2 DEF Undecoded, Batch
  <2> QED BY <2>1, <2>3, ServiceFrame DEF WithBatch, BeforeRecord
<1>9. CASE RetireEnd
  <2>1. /\ UNCHANGED <<arrived, preempted, generated, max_new_tokens, failed,
                       finished, advanced>>
        /\ pc' = "idle"
    BY <1>9 DEF RetireEnd, inputs, tokens, kv, results, history
  <2>2. Undecoded' = {}
    BY <2>1 DEF Undecoded
  <2> QED BY <2>1, <2>2 DEF ServiceInv, IsDone, WithBatch, BeforeRecord
<1>10. CASE UNCHANGED vars
  BY <1>10 DEF vars, inputs, tokens, kv, results, locals, history, ServiceInv,
               IsDone, Undecoded, Batch
<1> QED
  BY <1>0, <1>1, <1>2, <1>3, <1>4, <1>5, <1>6, <1>7, <1>8, <1>9, <1>10,
     ServiceAddRequest, ServicePrefillFresh, ServiceCollect, ServicePreempt,
     ServiceRetire
  DEF Next, Step, Prefill

\* The invariant of the refinement: what is answered is done or failed, no
\* answered request is in a batch, and the batch gives nobody a second token in
\* a tick.
THEOREM ServiceCorrect == Spec => []ServiceInv
<1>1. Init => ServiceInv
  BY ServiceInit
<1>2. TypeOK /\ EngineInv /\ ServiceInv /\ [Next]_vars => ServiceInv'
  BY ServiceNext
<1> QED BY <1>1, <1>2, TypeCorrect, EngineCorrect, PTL DEF Spec

\* The request at which the retire loop is has not been answered.
LEMMA RetiresOnce ==
  ASSUME TypeOK, QueueInv, NEW r \in Req, AtRetire(r)
  PROVE  r \notin ToSet(finished)
<1>1. pc = "retire" /\ i \in 1..Len(active) /\ r = active[i]
  BY ElementsByIndex DEF AtRetire, TypeOK, ControlOK, QueuesOK
<1>2. i \in Nat /\ ~(i < i)
  BY <1>1
<1> QED BY <1>1, <1>2 DEF QueueInv

\* A failure hits requests that have not been answered.
LEMMA FailsBeforeAnswer ==
  ASSUME TypeOK, QueueInv, ServiceInv,
         DecodeRaise \/ RecordRaise \/ \E r \in Req : PrefillRaise(r)
  PROVE  /\ UNCHANGED <<arrived, requests_total, results>>
         /\ \A q \in ToSet(finished) : q \in failed' <=> q \in failed
<1>1. CASE DecodeRaise \/ RecordRaise
  <2>1. Batch \cap ToSet(finished) = {} /\ failed' = failed \cup Batch
    BY <1>1 DEF DecodeRaise, RecordRaise, ServiceInv, WithBatch
  <2> QED BY <1>1, <2>1 DEF DecodeRaise, RecordRaise, inputs
<1>2. ASSUME NEW r \in Req, PrefillRaise(r)
      PROVE  /\ UNCHANGED <<arrived, requests_total, results>>
             /\ \A q \in ToSet(finished) : q \in failed' <=> q \in failed
  <2>1. /\ pc = "prefill" /\ i <= Len(active) /\ r = active[i]
        /\ failed' = failed \cup {r}
    BY <1>2 DEF PrefillRaise, AtPrefill
  <2>2. r \in ToSet(active)
    BY <2>1, ElementsByIndex DEF TypeOK, QueuesOK, ControlOK
  <2>3. r \notin ToSet(finished)
    BY <2>1, <2>2 DEF QueueInv
  <2> QED BY <1>2, <2>1, <2>3 DEF PrefillRaise, inputs
<1> QED BY <1>1, <1>2

-----------------------------------------------------------------------------
(* The engine implements RequestService *)

\* A step that answers nobody and generates nothing is not seen by a client.
LEMMA ClientSeesNothing ==
  ASSUME UNCHANGED <<arrived, finished, generated, max_new_tokens>>,
         \A r \in ToSet(finished) : r \in failed' <=> r \in failed
  PROVE  UNCHANGED Service!vars
<1>1. \A r \in Req : Status(r)' = Status(r)
  BY DEF Status
<1> QED BY <1>1 DEF Service!vars

\* add_request is Submit.
LEMMA ClientSubmits ==
  ASSUME TypeOK, QueueInv, NEW r \in Req, AddRequest(r)
  PROVE  Service!Submit(r)
<1>1. /\ r \notin arrived /\ arrived' = arrived \cup {r}
      /\ UNCHANGED <<generated, failed, finished>>
  BY DEF AddRequest, tokens, results
<1>2. \E n \in MaxNews : max_new_tokens' = [max_new_tokens EXCEPT ![r] = n]
  BY DEF AddRequest
<1>3. r \notin ToSet(finished)
  BY <1>1 DEF QueueInv
<1>4. Status(r) = "absent" /\ Status(r)' = "pending"
  BY <1>1, <1>3 DEF Status
<1>5. \A q \in Req \ {r} : Status(q)' = Status(q)
  BY <1>1 DEF Status
<1> QED BY <1>1, <1>2, <1>4, <1>5 DEF Service!Submit

\* A first token, or one within the limit, is Emit.
LEMMA ClientGetsToken ==
  ASSUME NEW r \in arrived \cap Req, r \notin ToSet(finished),
         generated[r] < max_new_tokens[r] \/ generated[r] = 0,
         generated' = [generated EXCEPT ![r] = @ + 1],
         UNCHANGED <<arrived, max_new_tokens, failed, finished>>
  PROVE  Service!Emit(r)
<1>1. Status(r) = "pending"
  BY DEF Status
<1>2. \A q \in Req : Status(q)' = Status(q)
  BY DEF Status
<1> QED BY <1>1, <1>2 DEF Service!Emit

\* The prefill gives a fresh request its first token.
LEMMA ClientGetsFirst ==
  ASSUME TypeOK, QueueInv, CacheInv, NEW r \in Req, PrefillFresh(r)
  PROVE  Service!Emit(r)
<1>1. /\ pc = "prefill" /\ i <= Len(active) /\ r = active[i]
      /\ r \notin prefilled \cup preempted
      /\ generated' = [generated EXCEPT ![r] = @ + 1]
      /\ UNCHANGED <<arrived, max_new_tokens, failed, finished>>
  BY DEF PrefillFresh, AtPrefill, RecordToken, inputs, results
<1>2. r \in ToSet(active)
  BY <1>1, ElementsByIndex DEF TypeOK, QueuesOK, ControlOK
<1>3. r \in arrived /\ r \notin ToSet(finished)
  BY <1>1, <1>2 DEF QueueInv
<1>4. generated[r] = 0
  BY <1>1 DEF CacheInv
<1> QED BY <1>1, <1>3, <1>4, ClientGetsToken

\* A token recorded by the batch is Emit.
LEMMA ClientGetsNext ==
  ASSUME TypeOK, BatchInv, CacheInv, QueueInv, ServiceInv, Record,
         NEW r, r = decoding[i]
  PROVE  r \in Req /\ Service!Emit(r)
<1>1. /\ pc = "record" /\ i <= Len(decoding)
      /\ generated' = [generated EXCEPT ![r] = @ + 1]
      /\ UNCHANGED <<arrived, max_new_tokens, failed, finished>>
  BY DEF Record, RecordToken, inputs, results
<1>2. r \in Req /\ r \in Undecoded
  BY ServiceRecord
<1>3. r \in Batch
  BY <1>1, ElementsByIndex DEF Batch, TypeOK, ControlOK, ListsOK
<1>4. r \in arrived
  BY <1>1, <1>3 DEF BatchInv, CacheInv, ServiceInv
<1>5. r \notin ToSet(finished)
  BY <1>1, <1>3 DEF ServiceInv, WithBatch
<1>6. generated[r] < max_new_tokens[r]
  BY <1>2 DEF ServiceInv, IsDone, TypeOK, InputsOK, TokensOK
<1> QED BY <1>1, <1>2, <1>4, <1>5, <1>6, ClientGetsToken

\* The retire loop's appending to finished is Complete or Fail.
LEMMA ClientIsAnswered ==
  ASSUME TypeOK, QueueInv, NEW r \in Req, AtRetire(r),
         finished' = Append(finished, r),
         UNCHANGED <<arrived, generated, max_new_tokens, failed>>
  PROVE  /\ r \in failed => Service!Fail(r)
         /\ r \notin failed /\ IsDone(r) => Service!Complete(r)
<1>1. r \in arrived /\ r \notin ToSet(finished)
  <2>1. r \in ToSet(active)
    BY ElementsByIndex DEF AtRetire, TypeOK, QueuesOK, ControlOK
  <2> QED BY <2>1, RetiresOnce DEF QueueInv
<1>2. ToSet(finished') = ToSet(finished) \cup {r}
  BY AppendElements DEF TypeOK, ResultsOK
<1>3. Status(r) = "pending"
  BY <1>1 DEF Status
<1>4. Status(r)' = IF r \in failed THEN "failed" ELSE "completed"
  BY <1>1, <1>2 DEF Status
<1>5. \A q \in Req \ {r} : Status(q)' = Status(q)
  BY <1>2 DEF Status
<1> QED BY <1>3, <1>4, <1>5 DEF Service!Fail, Service!Complete, IsDone

\* Every branch of the retire loop is one of these, or a stutter.
LEMMA ClientRetire ==
  ASSUME TypeOK, QueueInv, NEW r \in Req, Retire(r)
  PROVE  Service!Fail(r) \/ Service!Complete(r) \/ UNCHANGED Service!vars
<1>1. CASE RetireFailed(r)
  BY <1>1, ClientIsAnswered DEF RetireFailed, ReturnBlocks, inputs, tokens
<1>2. CASE RetireDone(r)
  BY <1>2, ClientIsAnswered DEF RetireDone, ReturnBlocks, inputs, tokens
<1>3. CASE RetireKeep(r)
  BY <1>3, ClientSeesNothing DEF RetireKeep, results, inputs, tokens
<1> QED BY <1>1, <1>2, <1>3 DEF Retire

\* A request that is marked as failed is answered by the retire loop only.
LEMMA ClientFailsLater ==
  ASSUME TypeOK, QueueInv, ServiceInv,
         DecodeRaise \/ RecordRaise \/ \E r \in Req : PrefillRaise(r)
  PROVE  UNCHANGED Service!vars
<1>1. UNCHANGED <<arrived, finished, generated, max_new_tokens>>
  BY DEF DecodeRaise, RecordRaise, PrefillRaise, inputs, tokens, results
<1> QED BY <1>1, FailsBeforeAnswer, ClientSeesNothing

\* Every step of the engine is a step of RequestService or a stutter.
LEMMA ServiceStep ==
  ASSUME TypeOK, EngineInv, ServiceInv, [Next]_vars
  PROVE  [Service!Next]_(Service!vars)
<1>0. QueueInv /\ BatchInv /\ CacheInv
  BY DEF EngineInv
<1>1. CASE Begin \/ Admit \/ AdmitEnd \/ PrefillEnd \/ Collect \/ CollectEnd
  BY <1>1, ClientSeesNothing
     DEF Begin, Admit, AdmitEnd, PrefillEnd, Collect, CollectEnd, inputs,
         tokens, results
<1>2. CASE DecodeBatch \/ RecordEnd \/ StillFits \/ Preempt \/ Charge \/ RetireEnd
  BY <1>2, ClientSeesNothing
     DEF DecodeBatch, RecordEnd, StillFits, Preempt, Charge, RetireEnd, inputs,
         tokens, results
<1>3. ASSUME NEW r \in Req, PrefillSkip(r) \/ PrefillResume(r)
      PROVE  UNCHANGED Service!vars
  BY <1>3, ClientSeesNothing
     DEF PrefillSkip, PrefillResume, inputs, tokens, results
<1>4. CASE Record
  <2>1. PICK r : r = decoding[i]
    OBVIOUS
  <2> QED BY <1>0, <1>4, <2>1, ClientGetsNext DEF Service!Next
<1>5. CASE UNCHANGED vars
  BY <1>5, ClientSeesNothing DEF vars, inputs, tokens, results
<1>6. ASSUME NEW r \in Req, AddRequest(r) \/ PrefillFresh(r) \/ Retire(r)
      PROVE  [Service!Next]_(Service!vars)
  BY <1>0, <1>6, ClientSubmits, ClientGetsFirst, ClientRetire DEF Service!Next
<1> QED
  BY <1>0, <1>1, <1>2, <1>3, <1>4, <1>5, <1>6, ClientFailsLater
  DEF Next, Step, Prefill, Retire

\* Whatever the engine does with batches, queues and memory, a client sees its
\* tokens one at a time and within its limit, one final answer, and nothing
\* after it.
THEOREM EngineImplementsService == Spec => ImplementsService
<1>1. Init => Service!Init
  <2> SUFFICES ASSUME Init PROVE Service!Init
    OBVIOUS
  <2>1. \A r \in Req : Status(r) = "absent"
    BY EmptyElements DEF Init, Status
  <2> QED BY <2>1 DEF Init, Service!Init
<1>2. TypeOK /\ EngineInv /\ ServiceInv /\ [Next]_vars
        => [Service!Next]_(Service!vars)
  BY ServiceStep
<1> QED
  BY <1>1, <1>2, TypeCorrect, EngineCorrect, ServiceCorrect, PTL
  DEF Spec, Service!Spec, ImplementsService
-----------------------------------------------------------------------------
(* One token per tick *)

\* Only the prefill of a fresh request and the record loop generate a token.
LEMMA WhoGenerates ==
  ASSUME [Next]_vars, ~Record, \A r \in Req : ~PrefillFresh(r)
  PROVE  generated' = generated
<1>1. CASE Begin \/ Admit \/ AdmitEnd \/ PrefillEnd \/ Collect \/ CollectEnd
  BY <1>1 DEF Begin, Admit, AdmitEnd, PrefillEnd, Collect, CollectEnd, tokens
<1>2. CASE DecodeRaise \/ DecodeBatch \/ RecordRaise \/ RecordEnd \/ StillFits
           \/ Preempt \/ Charge \/ RetireEnd
  BY <1>2 DEF DecodeRaise, DecodeBatch, RecordRaise, RecordEnd, StillFits, Preempt,
       Charge, RetireEnd, tokens
<1>3. ASSUME NEW r \in Req,
             AddRequest(r) \/ PrefillSkip(r) \/ PrefillRaise(r) \/ PrefillResume(r)
      PROVE  generated' = generated
  BY <1>3 DEF AddRequest, PrefillSkip, PrefillRaise, PrefillResume, tokens
<1>4. ASSUME NEW r \in Req, Retire(r)
      PROVE  generated' = generated
  BY <1>4 DEF Retire, RetireFailed, RetireDone, RetireKeep, tokens
<1>5. CASE UNCHANGED vars
  BY <1>5 DEF vars, tokens
<1> QED BY <1>1, <1>2, <1>3, <1>4, <1>5 DEF Next, Step, Prefill

\* A step that gives a token gives one, to a request that had none in the tick.
LEMMA OneTokenStep ==
  ASSUME TypeOK, EngineInv, ServiceInv, [Next]_vars,
         NEW q \in Req, generated'[q] # generated[q]
  PROVE  generated'[q] = generated[q] + 1 /\ q \notin advanced
<1>0. QueueInv /\ BatchInv /\ CacheInv
  BY DEF EngineInv
<1>1. ASSUME NEW r \in Req, PrefillFresh(r)
      PROVE  generated'[q] = generated[q] + 1 /\ q \notin advanced
  <2>1. generated' = [generated EXCEPT ![r] = @ + 1] /\ r \notin prefilled \cup preempted
    BY <1>1 DEF PrefillFresh, RecordToken
  <2>2. q = r /\ generated'[q] = generated[q] + 1
    BY <2>1 DEF TypeOK, TokensOK
  <2>3. generated[q] = 0
    BY <1>0, <2>1, <2>2 DEF CacheInv
  <2> QED BY <2>2, <2>3 DEF ServiceInv
<1>2. CASE Record
  <2>1. PICK r : r = decoding[i]
    OBVIOUS
  <2>2. generated' = [generated EXCEPT ![r] = @ + 1]
    BY <1>2, <2>1 DEF Record, RecordToken
  <2>3. r \in Undecoded
    BY <1>0, <1>2, <2>1, ServiceRecord
  <2>4. q = r /\ generated'[q] = generated[q] + 1
    BY <2>2 DEF TypeOK, TokensOK
  <2> QED BY <2>3, <2>4 DEF ServiceInv
<1> QED BY <1>1, <1>2, WhoGenerates

\* A tick gives no request two tokens: not one by its prefill and another by
\* the batch, and not one for each place it has in the loops.
THEOREM TicksAreFair == Spec => OneTokenPerTick
<1>1. TypeOK /\ EngineInv /\ ServiceInv /\ [Next]_vars
        => [\A r \in Req : generated'[r] # generated[r] =>
              generated'[r] = generated[r] + 1 /\ r \notin advanced]_vars
  BY OneTokenStep
<1> QED
  BY <1>1, TypeCorrect, EngineCorrect, ServiceCorrect, PTL
  DEF Spec, OneTokenPerTick

-----------------------------------------------------------------------------
(* Evicted requests resume first *)

\* A new request joins at the end, and is not a preempted one.
LEMMA ResumedFirstAdd ==
  ASSUME TypeOK, ServiceInv, ResumedFirst, NEW r \in Req, AddRequest(r)
  PROVE  ResumedFirst'
<1>1. /\ r \notin preempted /\ preempted' = preempted
      /\ waiting' = Append(waiting, r) /\ waiting \in Seq(Req)
  BY DEF AddRequest, kv, ServiceInv, TypeOK, QueuesOK
<1>2. /\ Len(waiting') = Len(waiting) + 1 /\ Len(waiting) \in Nat
      /\ waiting'[Len(waiting) + 1] = r
      /\ \A k \in 1..Len(waiting) : waiting'[k] = waiting[k]
  BY <1>1, AppendProperties
<1> SUFFICES ASSUME NEW j \in 1..Len(waiting'), NEW k \in 1..Len(waiting'),
                    j < k, waiting'[k] \in preempted
             PROVE  waiting'[j] \in preempted
  BY <1>1 DEF ResumedFirst
<1>3. k # Len(waiting) + 1
  BY <1>1, <1>2
<1>4. j \in 1..Len(waiting) /\ k \in 1..Len(waiting)
  BY <1>2, <1>3
<1> QED BY <1>2, <1>4 DEF ResumedFirst

\* Admission takes the first of the queue.
LEMMA ResumedFirstAdmit ==
  ASSUME TypeOK, ResumedFirst, Admit
  PROVE  ResumedFirst'
<1>1. /\ preempted' = preempted /\ waiting' = Tail(waiting)
      /\ waiting \in Seq(Req) /\ waiting # <<>>
  BY DEF Admit, CanAdmit, kv, TypeOK, QueuesOK
<1>2. /\ Len(waiting') = Len(waiting) - 1 /\ Len(waiting) \in Nat
      /\ \A k \in 1..Len(waiting') : waiting'[k] = waiting[k + 1]
  BY <1>1, HeadTailProperties
<1> SUFFICES ASSUME NEW j \in 1..Len(waiting'), NEW k \in 1..Len(waiting'),
                    j < k, waiting'[k] \in preempted
             PROVE  waiting'[j] \in preempted
  BY <1>1 DEF ResumedFirst
<1>3. j + 1 \in 1..Len(waiting) /\ k + 1 \in 1..Len(waiting) /\ j + 1 < k + 1
  BY <1>2
<1> QED BY <1>2, <1>3 DEF ResumedFirst

\* An evicted request is put in front.
LEMMA ResumedFirstPreempt ==
  ASSUME TypeOK, QueueInv, ResumedFirst, Preempt
  PROVE  ResumedFirst'
<1>1. PICK n \in Victims :
        ResetForResume(active[n]) /\ waiting' = RequeueFirst(active[n])
  BY DEF Preempt
<1> DEFINE v == active[n]
<1>2. v \in Req /\ v \in ToSet(active)
  BY ElementsByIndex DEF Victims, TypeOK, QueuesOK
<1>3. /\ preempted' = preempted \cup {v} /\ waiting' = <<v>> \o waiting
      /\ waiting \in Seq(Req) /\ v \notin ToSet(waiting)
  BY <1>1, <1>2 DEF ResetForResume, RequeueFirst, TypeOK, QueuesOK, QueueInv
<1> HIDE DEF v
<1>4. /\ Len(waiting') = 1 + Len(waiting) /\ Len(waiting) \in Nat
      /\ waiting'[1] = v
      /\ \A k \in 2..(1 + Len(waiting)) : waiting'[k] = waiting[k - 1]
  <2>1. <<v>> \in Seq(Req) /\ Len(<<v>>) = 1 /\ <<v>>[1] = v
    BY <1>2
  <2> QED BY <1>3, <2>1, ConcatProperties, LenProperties
<1> SUFFICES ASSUME NEW j \in 1..Len(waiting'), NEW k \in 1..Len(waiting'),
                    j < k, waiting'[k] \in preempted'
             PROVE  waiting'[j] \in preempted'
  BY DEF ResumedFirst
<1>5. CASE j = 1
  BY <1>3, <1>4, <1>5
<1>6. CASE j # 1
  <2>1. /\ j - 1 \in 1..Len(waiting) /\ k - 1 \in 1..Len(waiting) /\ j - 1 < k - 1
        /\ waiting'[j] = waiting[j - 1] /\ waiting'[k] = waiting[k - 1]
    BY <1>4, <1>6
  <2>2. waiting[k - 1] # v
    BY <1>3, <2>1, ElementsByIndex
  <2> QED BY <1>3, <2>1, <2>2 DEF ResumedFirst
<1> QED BY <1>5, <1>6

\* A resumed request is not waiting.
LEMMA ResumedFirstResume ==
  ASSUME TypeOK, QueueInv, ResumedFirst, NEW r \in Req, PrefillResume(r)
  PROVE  ResumedFirst'
<1>1. /\ pc = "prefill" /\ i <= Len(active) /\ r = active[i]
      /\ preempted' = preempted \ {r} /\ waiting' = waiting
  BY DEF PrefillResume, AtPrefill, queues
<1>2. r \in ToSet(active)
  BY <1>1, ElementsByIndex DEF TypeOK, QueuesOK, ControlOK
<1>3. \A k \in 1..Len(waiting) : waiting[k] # r
  BY <1>2, ElementsByIndex DEF QueueInv, TypeOK, QueuesOK
<1> QED BY <1>1, <1>3 DEF ResumedFirst

\* Every step keeps ResumedFirst.
LEMMA ResumedFirstNext ==
  ASSUME TypeOK, QueueInv, ServiceInv, ResumedFirst, [Next]_vars
  PROVE  ResumedFirst'
<1>0. ASSUME UNCHANGED <<waiting, preempted>> PROVE ResumedFirst'
  BY <1>0 DEF ResumedFirst
<1>1. CASE Begin \/ AdmitEnd \/ PrefillEnd \/ Collect \/ CollectEnd
  BY <1>0, <1>1 DEF Begin, AdmitEnd, PrefillEnd, Collect, CollectEnd, kv, queues
<1>2. CASE DecodeRaise \/ DecodeBatch \/ Record \/ RecordRaise \/ RecordEnd
           \/ StillFits \/ Charge \/ RetireEnd
  BY <1>0, <1>2 DEF DecodeRaise, DecodeBatch, Record, RecordRaise, RecordEnd,
       StillFits, Charge, RetireEnd, kv, queues
<1>3. ASSUME NEW r \in Req, PrefillSkip(r) \/ PrefillRaise(r) \/ PrefillFresh(r)
      PROVE  ResumedFirst'
  BY <1>0, <1>3 DEF PrefillSkip, PrefillRaise, PrefillFresh, kv, queues
<1>4. ASSUME NEW r \in Req, Retire(r)
      PROVE  ResumedFirst'
  BY <1>0, <1>4 DEF Retire, RetireFailed, RetireDone, RetireKeep, kv, queues
<1>5. CASE UNCHANGED vars
  BY <1>0, <1>5 DEF vars, kv, queues
<1> QED
  BY <1>1, <1>2, <1>3, <1>4, <1>5, ResumedFirstAdd, ResumedFirstAdmit,
     ResumedFirstPreempt, ResumedFirstResume
  DEF Next, Step, Prefill

\* In every waiting queue the evicted requests come first, whatever arrives
\* and whoever is evicted meanwhile.
THEOREM EvictedResumeFirst == Spec => []ResumedFirst
<1>1. Init => ResumedFirst
  BY DEF Init, ResumedFirst
<1>2. TypeOK /\ EngineInv /\ ServiceInv /\ ResumedFirst /\ [Next]_vars
        => ResumedFirst'
  BY ResumedFirstNext DEF EngineInv
<1> QED
  BY <1>1, <1>2, TypeCorrect, EngineCorrect, ServiceCorrect, PTL DEF Spec
-----------------------------------------------------------------------------
(* Requests that the model cannot run *)

\* A bad token lies in the prompt.  A poisoned request with a cache can only
\* have got it by a resume, which leaves out the last token of the prompt; so
\* that token is the bad one, and the batch that is fed with it raises before
\* a token of it is pending.
PoisonInv ==
  /\ \A r \in Req : bad[r] < prompt_len[r]
  /\ PoisonedYieldsNothing
  /\ \A r \in prefilled :
       prompt_len[r] # 0 /\ (Poisoned(r) => bad[r] = prompt_len[r] - 1)
  /\ \A r \in Pending : ~Poisoned(r)

\* No tokens, and no prefilled or pending requests are added.
LEMMA PoisonFrame ==
  ASSUME PoisonInv, UNCHANGED <<prompt_len, bad, generated>>,
         prefilled' \subseteq prefilled, Pending' \subseteq Pending
  PROVE  PoisonInv'
BY DEF PoisonInv, PoisonedYieldsNothing, Poisoned

\* A request arrives with no tokens and no cache.
LEMMA PoisonAddRequest ==
  ASSUME TypeOK, CacheInv, ServiceInv, PoisonInv, NEW r \in Req, AddRequest(r)
  PROVE  PoisonInv'
<1>1. /\ r \notin arrived /\ pc' = "idle"
      /\ UNCHANGED <<generated, prefilled>>
  BY DEF AddRequest, tokens, kv
<1>2. PICK p \in PromptLens :
        \E b \in {None} \cup {x \in BadTokens : x < p} :
          /\ prompt_len' = [prompt_len EXCEPT ![r] = p]
          /\ bad' = [bad EXCEPT ![r] = b]
  BY DEF AddRequest
<1>3. PICK b : /\ b \in {None} \cup {x \in BadTokens : x < p}
               /\ prompt_len' = [prompt_len EXCEPT ![r] = p]
               /\ bad' = [bad EXCEPT ![r] = b]
  BY <1>2
<1>4. p \in Nat /\ b < p
  BY <1>3, ConfigAssumption DEF None
<1>5. r \notin prefilled /\ generated[r] = 0
  BY <1>1 DEF CacheInv, ServiceInv
<1>6. Pending' = {}
  BY <1>1 DEF Pending
<1>7. /\ prompt_len'[r] = p /\ bad'[r] = b
      /\ \A q \in Req \ {r} : prompt_len'[q] = prompt_len[q] /\ bad'[q] = bad[q]
  BY <1>3 DEF TypeOK, InputsOK
<1>8. prefilled \subseteq Req
  BY DEF TypeOK, KVOK
<1> QED BY <1>1, <1>4, <1>5, <1>6, <1>7, <1>8
        DEF PoisonInv, PoisonedYieldsNothing, Poisoned

\* A whole prompt that runs is not poisoned.
LEMMA PoisonPrefillFresh ==
  ASSUME TypeOK, PoisonInv, NEW r \in Req, PrefillFresh(r)
  PROVE  PoisonInv'
<1>1. /\ r \notin preempted /\ ~ForwardRaises(r, PrefillSpan(r))
      /\ prefilled' = prefilled \cup {r} /\ pc' = "reserve_prefill"
      /\ generated' = [generated EXCEPT ![r] = @ + 1]
      /\ UNCHANGED <<prompt_len, bad, decoding>> /\ pc = "prefill"
  BY DEF PrefillFresh, AtPrefill, RecordToken, inputs
<1>2. Pending' = {}
  BY <1>1 DEF Pending
<1>3. prompt_len[r] # 0 /\ ~Poisoned(r)
  <2>1. prompt_len[r] # 0 /\ bad[r] \notin 0..(prompt_len[r] - 1)
    BY <1>1 DEF ForwardRaises, PrefillSpan
  <2>2. bad[r] \in Nat \cup {None} /\ bad[r] < prompt_len[r] /\ prompt_len[r] \in Nat
    BY DEF PoisonInv, TypeOK, InputsOK
  <2> QED BY <2>1, <2>2 DEF Poisoned
<1>4. \A q \in Req \ {r} : generated'[q] = generated[q]
  BY <1>1 DEF TypeOK, TokensOK
<1> QED BY <1>1, <1>2, <1>3, <1>4 DEF PoisonInv, PoisonedYieldsNothing, Poisoned

\* A resumed prefill runs all but the last token.
LEMMA PoisonPrefillResume ==
  ASSUME TypeOK, PoisonInv, NEW r \in Req, PrefillResume(r)
  PROVE  PoisonInv'
<1>1. /\ r \in preempted /\ ~ForwardRaises(r, PrefillSpan(r))
      /\ prefilled' = prefilled \cup {r} /\ pc' = "reserve_prefill"
      /\ UNCHANGED <<prompt_len, bad, generated>>
  BY DEF PrefillResume, inputs
<1>2. Pending' = {}
  BY <1>1 DEF Pending
<1>3. prompt_len[r] # 0 /\ bad[r] \notin 0..(AllIds(r) - 1 - 1)
  BY <1>1 DEF ForwardRaises, PrefillSpan
<1>4. Poisoned(r) => bad[r] = prompt_len[r] - 1
  <2> SUFFICES ASSUME Poisoned(r) PROVE bad[r] = prompt_len[r] - 1
    OBVIOUS
  <2>1. generated[r] = 0 /\ bad[r] # None
    BY <1>3 DEF PoisonInv, PoisonedYieldsNothing, Poisoned
  <2>2. bad[r] \in Nat /\ bad[r] < prompt_len[r] /\ prompt_len[r] \in Nat
    BY <2>1 DEF PoisonInv, TypeOK, InputsOK
  <2>3. AllIds(r) - 1 - 1 = prompt_len[r] - 2
    BY <2>1, <2>2 DEF AllIds
  <2> QED BY <1>3, <2>2, <2>3
<1> QED BY <1>1, <1>2, <1>3, <1>4 DEF PoisonInv, PoisonedYieldsNothing, Poisoned

\* A batch that decodes holds no poisoned request.
LEMMA PoisonDecodeBatch ==
  ASSUME TypeOK, BatchInv, CacheInv, PoisonInv, DecodeBatch
  PROVE  PoisonInv'
<1>1. /\ pc = "decode" /\ \A r \in Batch : ~DecodeRaises(r)
      /\ UNCHANGED <<prompt_len, bad, generated, prefilled, decoding>>
  BY DEF DecodeBatch, inputs, tokens, locals
<1>2. Pending' \subseteq Batch
  BY <1>1, ElementsByIndex DEF Pending, Batch, TypeOK, ListsOK
<1>3. ASSUME NEW r \in Batch PROVE ~Poisoned(r)
  <2>1. r \in prefilled \ failed /\ r \in Req
    BY <1>1 DEF BatchInv, TypeOK, KVOK
  <2>2. next_token[r] = AllIds(r) - 1 /\ next_token[r] # bad[r]
    BY <1>1, <2>1 DEF CacheInv, DecodeRaises
  <2> SUFFICES ASSUME Poisoned(r) PROVE FALSE
    OBVIOUS
  <2>3. generated[r] = 0 /\ bad[r] = prompt_len[r] - 1
    BY <2>1 DEF PoisonInv, PoisonedYieldsNothing
  <2> QED BY <2>1, <2>2, <2>3 DEF AllIds, TypeOK, InputsOK
<1> QED BY <1>1, <1>2, <1>3 DEF PoisonInv, PoisonedYieldsNothing, Poisoned

\* A recorded request is one of those pending, and so not poisoned.
LEMMA PoisonRecord ==
  ASSUME TypeOK, PoisonInv, Record, NEW r, r = decoding[i]
  PROVE  PoisonInv'
<1>1. /\ pc = "record" /\ pc' = "reserve_record" /\ i <= Len(decoding)
      /\ generated' = [generated EXCEPT ![r] = @ + 1]
      /\ UNCHANGED <<prompt_len, bad, prefilled, decoding, i>>
  BY DEF Record, RecordToken, inputs, kv
<1>2. i \in 1..Len(decoding)
  BY <1>1, ElementsByIndex DEF TypeOK, ControlOK, ListsOK
<1>3. r \in Pending
  BY <1>1, <1>2 DEF Pending
<1>4. Pending' \subseteq Pending
  BY <1>1, <1>2 DEF Pending, TypeOK, ControlOK
<1>5. \A q \in Req \ {r} : generated'[q] = generated[q]
  BY <1>1 DEF TypeOK, TokensOK
<1> QED BY <1>1, <1>3, <1>4, <1>5 DEF PoisonInv, PoisonedYieldsNothing, Poisoned

\* Every step keeps PoisonInv.
LEMMA PoisonNext ==
  ASSUME TypeOK, EngineInv, ServiceInv, PoisonInv, [Next]_vars
  PROVE  PoisonInv'
<1>0. QueueInv /\ BatchInv /\ CacheInv
  BY DEF EngineInv
<1>1. CASE Begin \/ Admit \/ AdmitEnd \/ PrefillEnd \/ Collect \/ CollectEnd
           \/ DecodeRaise \/ RecordRaise \/ RecordEnd
  <2>1. UNCHANGED <<prompt_len, bad, generated, prefilled>> /\ Pending' = {}
    BY <1>1 DEF Begin, Admit, AdmitEnd, PrefillEnd, Collect, CollectEnd,
         DecodeRaise, RecordRaise, RecordEnd, inputs, tokens, kv, Pending
  <2> QED BY <2>1, PoisonFrame
<1>2. ASSUME NEW r \in Req, PrefillSkip(r) \/ PrefillRaise(r)
      PROVE  PoisonInv'
  <2>1. UNCHANGED <<prompt_len, bad, generated, prefilled>> /\ Pending' = {}
    BY <1>2 DEF PrefillSkip, PrefillRaise, AtPrefill, inputs, tokens, kv, Pending
  <2> QED BY <2>1, PoisonFrame
<1>3. CASE (\E r \in Req : Retire(r)) \/ RetireEnd
  <2>1. UNCHANGED <<prompt_len, bad, generated, prefilled>> /\ Pending' = {}
    BY <1>3 DEF Retire, RetireFailed, RetireDone, RetireKeep, AtRetire,
         RetireEnd, inputs, tokens, kv, Pending
  <2> QED BY <2>1, PoisonFrame
<1>4. CASE StillFits \/ Charge
  <2>1. /\ UNCHANGED <<prompt_len, bad, generated, prefilled, decoding>>
        /\ pc \in {"reserve_prefill", "reserve_record"}
        /\ pc' = IF pc = "reserve_prefill" THEN "prefill" ELSE "record"
        /\ i' = i + 1
    BY <1>4 DEF StillFits, Charge, Return, Reserving, inputs, tokens, kv
  <2>2. \A k \in 1..Len(decoding) : k > i <=> k >= i + 1
    BY ElementsByIndex DEF TypeOK, ControlOK, ListsOK
  <2>3. Pending' \subseteq Pending
    BY <2>1, <2>2 DEF Pending
  <2> QED BY <2>1, <2>3, PoisonFrame
<1>5. CASE Preempt
  <2>1. PICK k \in Victims : ResetForResume(active[k])
    BY <1>5 DEF Preempt
  <2>2. prefilled' \subseteq prefilled
    BY <2>1 DEF ResetForResume
  <2>3. UNCHANGED <<prompt_len, bad, generated>> /\ Pending' = Pending
    BY <1>5 DEF Preempt, inputs, tokens, locals, Pending
  <2> QED BY <2>2, <2>3, PoisonFrame
<1>6. CASE Record
  <2>1. PICK r : r = decoding[i]
    OBVIOUS
  <2> QED BY <1>6, <2>1, PoisonRecord
<1>7. CASE UNCHANGED vars
  BY <1>7, PoisonFrame DEF vars, inputs, tokens, kv, locals, Pending
<1> QED
  BY <1>0, <1>1, <1>2, <1>3, <1>4, <1>5, <1>6, <1>7, PoisonAddRequest,
     PoisonPrefillFresh, PoisonPrefillResume, PoisonDecodeBatch
  DEF Next, Step, Prefill

\* The invariant of the poisoned requests: none has a token; one may be
\* prefilled only if its bad token is the last of its prompt, which resuming
\* leaves out, and then decode_batch raises.
THEOREM PoisonCorrect == Spec => []PoisonInv
<1>1. Init => PoisonInv
  BY DEF Init, PoisonInv, PoisonedYieldsNothing, Pending, None
<1>2. TypeOK /\ EngineInv /\ ServiceInv /\ PoisonInv /\ [Next]_vars => PoisonInv'
  BY PoisonNext
<1> QED
  BY <1>1, <1>2, TypeCorrect, EngineCorrect, ServiceCorrect, PTL DEF Spec

\* A request that the model cannot run never yields a token, however often it
\* is evicted and resumed.
THEOREM PoisonIsContained == Spec => []PoisonedYieldsNothing
<1>1. PoisonInv => PoisonedYieldsNothing
  BY DEF PoisonInv
<1> QED BY <1>1, PoisonCorrect, PTL

\* When the model has no failures of its own, a request fails only because it
\* is poisoned itself, or in a batch that is fed with the bad last token of a
\* prompt: one that was evicted before it had run.
THEOREM FailuresHaveCauses ==
  ASSUME Faults = {}
  PROVE  Spec => FailureHasCause
<1> DEFINE Cause == \A r \in failed' \ failed :
             \/ Poisoned(r) /\ pc = "prefill"
             \/ /\ pc = "decode"
                /\ \E b \in Batch : bad[b] = prompt_len[b] - 1 /\ generated[b] = 0
<1>1. ASSUME TypeOK, EngineInv, PoisonInv, [Next]_vars
      PROVE  Cause
  <2>1. CASE DecodeRaise
    <3>1. PICK b \in Batch : DecodeRaises(b)
      BY <2>1 DEF DecodeRaise
    <3>2. pc = "decode" /\ b \in prefilled \ failed /\ b \in Req
      BY <1>1, <2>1 DEF DecodeRaise, EngineInv, BatchInv, TypeOK, KVOK
    <3>3. next_token[b] = AllIds(b) - 1 /\ prompt_len[b] # 0
      BY <1>1, <3>2 DEF EngineInv, CacheInv, PoisonInv
    <3>4. next_token[b] # None
      BY <1>1, <3>2, <3>3 DEF AllIds, None, TypeOK, InputsOK, TokensOK
    <3>5. Poisoned(b)
      BY <3>1, <3>4 DEF DecodeRaises, Poisoned
    <3>6. bad[b] = prompt_len[b] - 1 /\ generated[b] = 0
      BY <1>1, <3>2, <3>5 DEF PoisonInv, PoisonedYieldsNothing
    <3> QED BY <3>2, <3>6
  <2>2. ASSUME NEW r \in Req, PrefillRaise(r)
        PROVE  Cause
    <3>1. prompt_len[r] = 0 \/ bad[r] \in 0..(PrefillSpan(r) - 1)
      BY <2>2 DEF PrefillRaise, ForwardRaises
    <3>2. Poisoned(r)
      BY <3>1 DEF Poisoned, None
    <3> QED BY <2>2, <3>2 DEF PrefillRaise, AtPrefill
  <2>3. CASE failed' = failed
    BY <2>3
  <2> HIDE DEF Cause
  <2>4. CASE Begin \/ Admit \/ AdmitEnd \/ PrefillEnd \/ Collect \/ CollectEnd
    BY <2>3, <2>4 DEF Begin, Admit, AdmitEnd, PrefillEnd, Collect, CollectEnd
  <2>5. CASE DecodeBatch \/ Record \/ RecordEnd \/ StillFits \/ Preempt
             \/ Charge \/ RetireEnd
    BY <2>3, <2>5 DEF DecodeBatch, Record, RecordEnd, StillFits, Preempt, Charge,
         RetireEnd
  <2>6. ASSUME NEW r \in Req,
               AddRequest(r) \/ PrefillSkip(r) \/ PrefillResume(r) \/ PrefillFresh(r)
        PROVE  Cause
    BY <2>3, <2>6 DEF AddRequest, PrefillSkip, PrefillResume, PrefillFresh
  <2>7. ASSUME NEW r \in Req, Retire(r)
        PROVE  Cause
    BY <2>3, <2>7 DEF Retire, RetireFailed, RetireDone, RetireKeep
  <2>8. CASE UNCHANGED vars
    BY <2>3, <2>8 DEF vars
  <2>9. ~RecordRaise
    BY DEF RecordRaise
  <2> QED
    BY <1>1, <2>1, <2>2, <2>4, <2>5, <2>6, <2>7, <2>8, <2>9 DEF Next, Step, Prefill
<1>2. TypeOK /\ EngineInv /\ PoisonInv /\ [Next]_vars => [Cause]_vars
  BY <1>1
<1> QED
  BY <1>2, TypeCorrect, EngineCorrect, PoisonCorrect, PTL
  DEF Spec, FailureHasCause
=============================================================================
