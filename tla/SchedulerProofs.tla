--------------------------- MODULE SchedulerProofs --------------------------
(***************************************************************************)
(* Theorems about the engine of Scheduler.tla, for any number of requests, *)
(* any prompts and limits, any budget, and any failures of the model.      *)
(***************************************************************************)
EXTENDS Scheduler, QueueLemmas

LEMMA BlocksNeededNat ==
  ASSUME NEW n \in Nat
  PROVE  BlocksNeeded(n) \in Nat
BY ConfigAssumption DEF BlocksNeeded

LEMMA AllIdsNat ==
  ASSUME TypeOK, NEW r \in Req
  PROVE  AllIds(r) \in Nat
BY DEF TypeOK, InputsOK, TokensOK, AllIds

-----------------------------------------------------------------------------
(* Type correctness *)

LEMMA TypeInit == Init => TypeOK
<1> SUFFICES ASSUME Init PROVE TypeOK
  OBVIOUS
<1>1. InputsOK /\ TokensOK /\ KVOK
  BY DEF Init, InputsOK, TokensOK, KVOK
<1>2. BlocksOK /\ QueuesOK /\ ResultsOK
  BY ConfigAssumption DEF Init, BlocksOK, QueuesOK, ResultsOK
<1>3. ControlOK /\ ListsOK /\ HistoryOK
  BY DEF Init, ControlOK, ListsOK, HistoryOK, PCs, Reserving
<1>4. failed \subseteq Req /\ requests_total \in Nat
  BY DEF Init
<1> QED BY <1>1, <1>2, <1>3, <1>4 DEF TypeOK

\* What a step leaves alone keeps its type.
LEMMA Frame ==
  ASSUME TypeOK
  PROVE  /\ UNCHANGED inputs => InputsOK'
         /\ UNCHANGED tokens => TokensOK'
         /\ UNCHANGED kv => KVOK'
         /\ UNCHANGED failed => failed' \subseteq Req
         /\ UNCHANGED blocks => BlocksOK'
         /\ UNCHANGED queues => QueuesOK'
         /\ UNCHANGED results => ResultsOK'
         /\ UNCHANGED requests_total => requests_total' \in Nat
         /\ UNCHANGED <<pc, i, cur>> => ControlOK'
         /\ UNCHANGED <<just_prefilled, decoding, still_active>> => ListsOK'
         /\ UNCHANGED history => HistoryOK'
<1>1. UNCHANGED inputs => InputsOK'
  BY DEF TypeOK, inputs, InputsOK
<1>2. UNCHANGED tokens => TokensOK'
  BY DEF TypeOK, tokens, TokensOK
<1>3. UNCHANGED kv => KVOK'
  BY DEF TypeOK, kv, KVOK
<1>4. UNCHANGED blocks => BlocksOK'
  BY DEF TypeOK, blocks, BlocksOK
<1>5. UNCHANGED queues => QueuesOK'
  BY DEF TypeOK, queues, QueuesOK
<1>6. UNCHANGED results => ResultsOK'
  BY DEF TypeOK, results, ResultsOK
<1>7. UNCHANGED <<pc, i, cur>> => ControlOK'
  BY DEF TypeOK, ControlOK, Reserving
<1>8. UNCHANGED <<just_prefilled, decoding, still_active>> => ListsOK'
  BY DEF TypeOK, ListsOK
<1>9. UNCHANGED history => HistoryOK'
  BY DEF TypeOK, history, HistoryOK
<1> QED
  BY <1>1, <1>2, <1>3, <1>4, <1>5, <1>6, <1>7, <1>8, <1>9 DEF TypeOK

\* Moving to another loop, or to its next element, outside _reserve_if_grown.
LEMMA Move ==
  ASSUME TypeOK, ~Reserving, UNCHANGED cur,
         pc' \in PCs \ {"reserve_prefill", "reserve_record"},
         i' \in {i, i + 1, 1}
  PROVE  ControlOK'
BY DEF TypeOK, ControlOK, Reserving

LEMMA TypeAddRequest ==
  ASSUME TypeOK, NEW r \in Req, AddRequest(r)
  PROVE  TypeOK'
<1>1. InputsOK'
  BY ConfigAssumption DEF TypeOK, InputsOK, AddRequest
<1>2. QueuesOK'
  BY DEF TypeOK, QueuesOK, AddRequest
<1>3. requests_total' \in Nat
  BY DEF TypeOK, AddRequest
<1> QED BY <1>1, <1>2, <1>3, Frame DEF AddRequest, TypeOK, locals

LEMMA TypeBegin ==
  ASSUME TypeOK, Begin
  PROVE  TypeOK'
<1>1. ControlOK'
  BY Move DEF Begin, Reserving, PCs, locals
<1>2. HistoryOK'
  BY DEF Begin, TypeOK, HistoryOK
<1> QED BY <1>1, <1>2, Frame DEF Begin, TypeOK, locals

LEMMA TypeAdmit ==
  ASSUME TypeOK, Admit
  PROVE  TypeOK'
<1> DEFINE req == Head(waiting)
           need == BlocksNeeded(AllIds(req))
<1>1. req \in Req /\ Tail(waiting) \in Seq(Req)
  BY HeadTailProperties DEF Admit, CanAdmit, TypeOK, QueuesOK
<1>2. need \in Nat
  BY <1>1, AllIdsNat, BlocksNeededNat
<1>3. /\ waiting' = Tail(waiting) /\ active' = Append(active, req)
      /\ free_blocks' = free_blocks - need
      /\ blocks_held' = [blocks_held EXCEPT ![req] = need]
      /\ leaked' = leaked + blocks_held[req]
  BY DEF Admit
<1> HIDE DEF req, need
<1>4. QueuesOK'
  BY <1>1, <1>3, AppendProperties DEF TypeOK, QueuesOK
<1>5. BlocksOK'
  BY <1>1, <1>2, <1>3 DEF TypeOK, BlocksOK
<1>6. HistoryOK'
  BY <1>1, <1>3 DEF Admit, TypeOK, BlocksOK, HistoryOK
<1> QED BY <1>4, <1>5, <1>6, Frame DEF Admit, TypeOK, locals

LEMMA TypeLoopEnds ==
  ASSUME TypeOK, AdmitEnd \/ PrefillEnd \/ CollectEnd \/ RecordEnd
  PROVE  TypeOK'
<1>1. ControlOK'
  BY Move DEF AdmitEnd, PrefillEnd, CollectEnd, RecordEnd, Reserving, PCs,
              locals
<1> QED BY <1>1, Frame DEF AdmitEnd, PrefillEnd, CollectEnd, RecordEnd, TypeOK,
                           locals

\* The prefill of a request runs a natural number of tokens: the only list
\* that has no last token to drop is the empty one, which raises.
LEMMA PrefillSpanNat ==
  ASSUME TypeOK, NEW r \in Req, ~ForwardRaises(r, PrefillSpan(r))
  PROVE  /\ PrefillSpan(r) \in Nat
         /\ r \in preempted => AllIds(r) - 1 \in Nat
BY DEF TypeOK, InputsOK, TokensOK, PrefillSpan, ForwardRaises, AllIds

LEMMA TypePrefill ==
  ASSUME TypeOK, NEW r \in Req, Prefill(r)
  PROVE  TypeOK'
<1>1. CASE PrefillSkip(r)
  <2>1. ControlOK'
    BY <1>1, Move DEF PrefillSkip, AtPrefill, Reserving, PCs, locals
  <2> QED BY <1>1, <2>1, Frame DEF PrefillSkip, TypeOK, locals
<1>2. CASE PrefillRaise(r)
  <2>1. ControlOK'
    BY <1>2, Move DEF PrefillRaise, AtPrefill, Reserving, PCs, locals
  <2>2. failed' \subseteq Req
    BY <1>2 DEF PrefillRaise, TypeOK
  <2> QED BY <1>2, <2>1, <2>2, Frame DEF PrefillRaise, TypeOK, locals
<1>3. CASE PrefillResume(r)
  <2>1. PrefillSpan(r) \in Nat /\ AllIds(r) - 1 \in Nat
    BY <1>3, PrefillSpanNat DEF PrefillResume
  <2>2. TokensOK'
    BY <1>3, <2>1 DEF PrefillResume, TypeOK, TokensOK
  <2>3. KVOK'
    BY <1>3, <2>1 DEF PrefillResume, Forward, TypeOK, KVOK
  <2>4. HistoryOK'
    BY <1>3 DEF PrefillResume, Forward, TypeOK, HistoryOK
  <2>5. ControlOK'
    BY <1>3 DEF PrefillResume, TypeOK, ControlOK, Reserving, PCs
  <2> QED BY <1>3, <2>2, <2>3, <2>4, <2>5, Frame DEF PrefillResume, TypeOK
<1>4. CASE PrefillFresh(r)
  <2>1. PrefillSpan(r) \in Nat /\ AllIds(r) \in Nat
    BY <1>4, PrefillSpanNat, AllIdsNat DEF PrefillFresh
  <2>2. TokensOK'
    BY <1>4, <2>1 DEF PrefillFresh, RecordToken, TypeOK, TokensOK
  <2>3. KVOK'
    BY <1>4, <2>1 DEF PrefillFresh, Forward, TypeOK, KVOK
  <2>4. HistoryOK'
    BY <1>4 DEF PrefillFresh, Forward, RecordToken, TypeOK, HistoryOK
  <2>5. ControlOK'
    BY <1>4 DEF PrefillFresh, TypeOK, ControlOK, Reserving, PCs
  <2>6. ListsOK'
    BY <1>4 DEF PrefillFresh, TypeOK, ListsOK
  <2> QED BY <1>4, <2>2, <2>3, <2>4, <2>5, <2>6, Frame
          DEF PrefillFresh, TypeOK
<1> QED BY <1>1, <1>2, <1>3, <1>4 DEF Prefill

LEMMA BatchType ==
  ASSUME TypeOK
  PROVE  Batch \subseteq Req
BY ElementsByIndex DEF Batch, TypeOK, ListsOK

LEMMA TypeDecode ==
  ASSUME TypeOK, Collect \/ DecodeRaise \/ DecodeBatch \/ Record \/ RecordRaise
  PROVE  TypeOK'
<1>1. CASE Collect
  <2>1. active[i] \in Req
    BY <1>1, ElementsByIndex DEF Collect, TypeOK, QueuesOK, ControlOK
  <2>2. ListsOK'
    BY <1>1, <2>1, AppendProperties DEF Collect, TypeOK, ListsOK
  <2>3. ControlOK'
    BY <1>1, Move DEF Collect, Reserving, PCs
  <2> QED BY <1>1, <2>2, <2>3, Frame DEF Collect, TypeOK
<1>2. CASE DecodeRaise
  <2>1. failed' \subseteq Req
    BY <1>2, BatchType DEF DecodeRaise, TypeOK
  <2>2. ControlOK'
    BY <1>2, Move DEF DecodeRaise, Reserving, PCs, locals
  <2> QED BY <1>2, <2>1, <2>2, Frame DEF DecodeRaise, TypeOK, locals
<1>3. CASE DecodeBatch
  <2>1. KVOK'
    BY <1>3 DEF DecodeBatch, TypeOK, KVOK
  <2>2. HistoryOK'
    BY <1>3, BatchType DEF DecodeBatch, TypeOK, HistoryOK
  <2>3. ControlOK'
    BY <1>3, Move DEF DecodeBatch, Reserving, PCs, locals
  <2> QED BY <1>3, <2>1, <2>2, <2>3, Frame DEF DecodeBatch, TypeOK, locals, tokens
<1>4. CASE Record
  <2>1. decoding[i] \in Req
    BY <1>4, ElementsByIndex DEF Record, TypeOK, ListsOK, ControlOK
  <2>2. AllIds(decoding[i]) \in Nat
    BY <2>1, AllIdsNat
  <2>3. TokensOK'
    BY <1>4, <2>1, <2>2 DEF Record, RecordToken, TypeOK, TokensOK
  <2>4. HistoryOK'
    BY <1>4, <2>1 DEF Record, RecordToken, TypeOK, HistoryOK
  <2>5. ControlOK'
    BY <1>4, <2>1 DEF Record, TypeOK, ControlOK, Reserving, PCs
  <2> QED BY <1>4, <2>3, <2>4, <2>5, Frame DEF Record, TypeOK
<1>5. CASE RecordRaise
  <2>1. failed' \subseteq Req
    BY <1>5, BatchType DEF RecordRaise, TypeOK
  <2>2. ControlOK'
    BY <1>5, Move DEF RecordRaise, Reserving, PCs, locals
  <2> QED BY <1>5, <2>1, <2>2, Frame DEF RecordRaise, TypeOK, locals
<1> QED BY <1>1, <1>2, <1>3, <1>4, <1>5

\* The return of _reserve_if_grown leads back to a loop.
LEMMA ReturnType ==
  ASSUME TypeOK, Reserving, Return
  PROVE  ControlOK' /\ ListsOK'
BY Frame DEF TypeOK, ControlOK, Return, Reserving, PCs

\* What _preempt does to the type of the lists and of its victim.
LEMMA TypePreempt ==
  ASSUME TypeOK, Preempt
  PROVE  TypeOK'
<1>1. PICK k \in Victims :
        /\ free_blocks' = free_blocks + blocks_held[active[k]]
        /\ ResetForResume(active[k])
        /\ active' = RemoveAt(active, k)
        /\ waiting' = RequeueFirst(active[k])
  BY DEF Preempt
<1>2. k \in 1..Len(active) /\ active[k] \in Req
  BY ElementsByIndex DEF Victims, TypeOK, QueuesOK
<1>3. active' \in Seq(Req)
  <2>1. /\ SubSeq(active, 1, k - 1) \in Seq(Req)
        /\ SubSeq(active, k + 1, Len(active)) \in Seq(Req)
    BY <1>2 DEF TypeOK, QueuesOK
  <2> QED BY <1>1, <2>1, ConcatProperties DEF RemoveAt
<1>4. waiting' \in Seq(Req)
  BY <1>1, <1>2, ConsElements DEF RequeueFirst, TypeOK, QueuesOK
<1>5. BlocksOK'
  BY <1>1, <1>2 DEF ResetForResume, TypeOK, BlocksOK
<1>6. KVOK'
  BY <1>1, <1>2 DEF ResetForResume, TypeOK, KVOK
<1> QED BY <1>3, <1>4, <1>5, <1>6, Frame DEF Preempt, TypeOK, QueuesOK, locals

LEMMA TypeReserve ==
  ASSUME TypeOK, StillFits \/ Charge
  PROVE  TypeOK'
<1>1. Reserving /\ cur \in Req /\ Return
  BY DEF TypeOK, ControlOK, StillFits, Charge
<1>2. BlocksOK'
  <2>1. CASE StillFits
    BY <2>1, Frame DEF StillFits
  <2>2. CASE Charge
    <3>1. BlocksNeeded(AllIds(cur)) \in Nat
      BY <1>1, AllIdsNat, BlocksNeededNat
    <3> QED BY <1>1, <2>2, <3>1 DEF Charge, Extra, TypeOK, BlocksOK
  <2> QED BY <2>1, <2>2
<1> QED BY <1>1, <1>2, ReturnType, Frame DEF StillFits, Charge, TypeOK

LEMMA TypeRetire ==
  ASSUME TypeOK, (\E r \in Req : Retire(r)) \/ RetireEnd
  PROVE  TypeOK'
<1>1. ASSUME NEW r \in Req, ReturnBlocks(r)
      PROVE  BlocksOK' /\ finished' \in Seq(Req)
  BY <1>1, AppendProperties DEF ReturnBlocks, TypeOK, BlocksOK, ResultsOK
<1>2. ASSUME NEW r \in Req, RetireFailed(r) PROVE TypeOK'
  <2>1. ResultsOK' /\ BlocksOK'
    BY <1>1, <1>2 DEF RetireFailed, TypeOK, ResultsOK
  <2>2. ControlOK'
    BY <1>2, Move DEF RetireFailed, AtRetire, Reserving, PCs, locals
  <2> QED BY <1>2, <2>1, <2>2, Frame DEF RetireFailed, TypeOK, locals
<1>3. ASSUME NEW r \in Req, RetireDone(r) PROVE TypeOK'
  <2>1. ResultsOK' /\ BlocksOK'
    BY <1>1, <1>3 DEF RetireDone, TypeOK, ResultsOK, TokensOK
  <2>2. ControlOK'
    BY <1>3, Move DEF RetireDone, AtRetire, Reserving, PCs, locals
  <2> QED BY <1>3, <2>1, <2>2, Frame DEF RetireDone, TypeOK, locals
<1>4. ASSUME NEW r \in Req, RetireKeep(r) PROVE TypeOK'
  <2>1. ListsOK'
    BY <1>4, AppendProperties DEF RetireKeep, TypeOK, ListsOK
  <2>2. ControlOK'
    BY <1>4, Move DEF RetireKeep, AtRetire, Reserving, PCs
  <2> QED BY <1>4, <2>1, <2>2, Frame DEF RetireKeep, TypeOK
<1>5. CASE RetireEnd
  <2>1. QueuesOK' /\ ListsOK'
    BY <1>5 DEF RetireEnd, TypeOK, QueuesOK, ListsOK
  <2>2. ControlOK'
    BY <1>5, Move DEF RetireEnd, Reserving, PCs
  <2> QED BY <1>5, <2>1, <2>2, Frame DEF RetireEnd, TypeOK
<1> QED BY <1>2, <1>3, <1>4, <1>5 DEF Retire

LEMMA TypeNext ==
  ASSUME TypeOK, [Next]_vars
  PROVE  TypeOK'
<1>1. UNCHANGED vars => TypeOK'
  BY Frame DEF TypeOK, vars, locals
<1> QED BY <1>1, TypeAddRequest, TypeBegin, TypeAdmit, TypeLoopEnds,
           TypePrefill, TypeDecode, TypePreempt, TypeReserve, TypeRetire
        DEF Next, Step

\* In every state of the engine its lists hold requests, its counters are
\* natural numbers (the block counter an integer: it may be over-committed),
\* no loop position is lost, and _reserve_if_grown runs for a request exactly
\* when a loop is suspended in it.
THEOREM TypeCorrect == Spec => []TypeOK
<1>1. Init => TypeOK
  BY TypeInit
<1>2. TypeOK /\ [Next]_vars => TypeOK'
  BY TypeNext
<1> QED BY <1>1, <1>2, PTL DEF Spec
=============================================================================
