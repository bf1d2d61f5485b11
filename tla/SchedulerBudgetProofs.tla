------------------------ MODULE SchedulerBudgetProofs -----------------------
(***************************************************************************)
(* The memory budget and the counters: no block is counted twice or lost   *)
(* unnoticed, memory is over-committed for one request at most, active     *)
(* requests are charged for the tokens they have, and the counters of      *)
(* /metrics agree with the queues.                                         *)
(***************************************************************************)
EXTENDS SchedulerServiceProofs, FiniteSetTheorems

-----------------------------------------------------------------------------
(* Units(f, S), whose size is the sum of f over S *)

\* A request stands for as many pairs as its value.
LEMMA UnitsOfOne ==
  ASSUME NEW r, NEW n \in Nat
  PROVE  IsFiniteSet({r} \X (1..n)) /\ Cardinality({r} \X (1..n)) = n
<1>1. IsFiniteSet(1..n) /\ Cardinality(1..n) = n
  <2>1. /\ IsFiniteSet(1..n)
        /\ Cardinality(1..n) = IF 1 > n THEN 0 ELSE n - 1 + 1
    BY FS_Interval
  <2> QED BY <2>1
<1>2. IsFiniteSet({r}) /\ Cardinality({r}) = 1
  BY FS_Singleton
<1>3. /\ IsFiniteSet({r} \X (1..n))
      /\ Cardinality({r} \X (1..n)) = Cardinality({r}) * Cardinality(1..n)
  BY <1>1, <1>2, FS_Product
<1> QED BY <1>1, <1>2, <1>3

\* A new element of S adds its f.
LEMMA UnitsAdd ==
  ASSUME NEW f, NEW S, NEW r, r \notin S, f[r] \in Nat, IsFiniteSet(Units(f, S))
  PROVE  /\ IsFiniteSet(Units(f, S \cup {r}))
         /\ Cardinality(Units(f, S \cup {r})) = Cardinality(Units(f, S)) + f[r]
<1> DEFINE U == Units(f, S)
           V == {r} \X (1..f[r])
<1>1. IsFiniteSet(V) /\ Cardinality(V) = f[r]
  BY UnitsOfOne
<1>2. Units(f, S \cup {r}) = U \cup V /\ U \cap V = {}
  BY DEF Units
<1> HIDE DEF U, V
<1>3. IsFiniteSet(U) /\ Cardinality(U) \in Nat
  BY FS_CardinalityType DEF U
<1>4. /\ IsFiniteSet(U \cup V)
      /\ Cardinality(U \cup V) = Cardinality(U) + Cardinality(V) - Cardinality(U \cap V)
  BY <1>1, <1>3, FS_Union
<1>5. Cardinality(U \cap V) = 0
  BY <1>2, FS_EmptySet
<1>6. Cardinality(U \cup V) = Cardinality(U) + f[r]
  BY <1>1, <1>3, <1>4, <1>5
<1> QED BY <1>2, <1>4, <1>6 DEF U

\* Another value of f for one element of S.
LEMMA UnitsChange ==
  ASSUME NEW S, NEW f \in [S -> Nat], NEW r \in S, NEW n \in Nat,
         IsFiniteSet(Units(f, S))
  PROVE  LET g == [f EXCEPT ![r] = n] IN
         /\ IsFiniteSet(Units(g, S))
         /\ Cardinality(Units(g, S)) = Cardinality(Units(f, S)) - f[r] + n
<1> DEFINE g == [f EXCEPT ![r] = n]
           R == S \ {r}
<1>1. Units(f, R) \subseteq Units(f, S) /\ Units(f, R) = Units(g, R)
  BY DEF Units
<1>2. f[r] \in Nat /\ g[r] = n /\ r \notin R /\ S = R \cup {r}
  OBVIOUS
<1> HIDE DEF g, R
<1>3. IsFiniteSet(Units(f, R)) /\ Cardinality(Units(f, R)) \in Nat
  BY <1>1, FS_Subset, FS_CardinalityType
<1>4. Cardinality(Units(f, S)) = Cardinality(Units(f, R)) + f[r]
  BY <1>2, <1>3, UnitsAdd
<1>5. /\ IsFiniteSet(Units(g, S))
      /\ Cardinality(Units(g, S)) = Cardinality(Units(f, R)) + n
  <2>1. IsFiniteSet(Units(g, R)) /\ g[r] \in Nat
    BY <1>1, <1>2, <1>3
  <2> QED BY <1>1, <1>2, <2>1, UnitsAdd
<1>6. Cardinality(Units(g, S)) = Cardinality(Units(f, S)) - f[r] + n
  BY <1>2, <1>3, <1>4, <1>5
<1> QED BY <1>5, <1>6 DEF g

-----------------------------------------------------------------------------
(* BlocksAccounted *)

\* Only finitely many requests are charged; without it the sum says nothing.
BudgetInv == IsFiniteSet(Units(blocks_held, Req)) /\ BlocksAccounted

\* A request's charge goes from blocks_held[r] to n, and the difference into
\* the free blocks and the leak.
LEMMA BudgetChange ==
  ASSUME TypeOK, BudgetInv, NEW r \in Req, NEW n \in Nat,
         free_blocks' \in Int, leaked' \in Int,
         blocks_held' = [blocks_held EXCEPT ![r] = n],
         free_blocks' + n + leaked' = free_blocks + blocks_held[r] + leaked
  PROVE  BudgetInv'
<1> DEFINE C == Cardinality(Units(blocks_held, Req))
           D == Cardinality(Units(blocks_held, Req)')
<1>1. /\ IsFiniteSet(Units(blocks_held, Req))
      /\ free_blocks + C + leaked = TotalBlocks
  BY DEF BudgetInv, BlocksAccounted
<1>2. blocks_held \in [Req -> Nat] /\ free_blocks \in Int /\ leaked \in Int
  BY DEF TypeOK, BlocksOK, HistoryOK
<1>3. C \in Nat
  BY <1>1, FS_CardinalityType
<1>4. IsFiniteSet(Units(blocks_held', Req)) /\ D = C - blocks_held[r] + n
  BY <1>1, <1>2, UnitsChange
<1>5. free_blocks' + D + leaked' = TotalBlocks
  <2> HIDE DEF C, D
  <2>1. blocks_held[r] \in Nat
    BY <1>2
  <2> QED BY <1>1, <1>2, <1>3, <1>4, <2>1
<1> QED BY <1>4, <1>5 DEF BudgetInv, BlocksAccounted

\* _admit charges the head of the queue, and leaks what it overwrites.
LEMMA BudgetAdmit ==
  ASSUME TypeOK, BudgetInv, Admit
  PROVE  BudgetInv'
<1> DEFINE req == Head(waiting)
           need == BlocksNeeded(AllIds(req))
<1>1. req \in Req
  BY HeadTailProperties DEF Admit, CanAdmit, TypeOK, QueuesOK
<1>2. need \in Nat
  BY <1>1, AllIdsNat, BlocksNeededNat
<1>3. /\ free_blocks' = free_blocks - need
      /\ blocks_held' = [blocks_held EXCEPT ![req] = need]
      /\ leaked' = leaked + blocks_held[req]
  BY DEF Admit
<1> HIDE DEF req, need
<1>4. free_blocks \in Int /\ blocks_held[req] \in Nat /\ leaked \in Nat
  BY <1>1 DEF TypeOK, BlocksOK, HistoryOK
<1>5. /\ free_blocks' \in Int /\ leaked' \in Int
      /\ free_blocks' + need + leaked' = free_blocks + blocks_held[req] + leaked
  BY <1>2, <1>3, <1>4
<1> QED BY <1>1, <1>2, <1>3, <1>4, <1>5, BudgetChange, Zenon

\* _preempt returns the blocks of the victim.
LEMMA BudgetPreempt ==
  ASSUME TypeOK, BudgetInv, Preempt
  PROVE  BudgetInv'
<1>1. PICK k \in Victims :
        /\ free_blocks' = free_blocks + blocks_held[active[k]]
        /\ ResetForResume(active[k])
  BY DEF Preempt
<1> DEFINE v == active[k]
<1>2. v \in Req
  BY ElementsByIndex DEF Victims, TypeOK, QueuesOK
<1>3. /\ free_blocks' = free_blocks + blocks_held[v]
      /\ blocks_held' = [blocks_held EXCEPT ![v] = 0]
      /\ leaked' = leaked
  BY <1>1 DEF ResetForResume, Preempt, history
<1> HIDE DEF v
<1>4. free_blocks \in Int /\ blocks_held[v] \in Nat /\ leaked \in Nat
  BY <1>2 DEF TypeOK, BlocksOK, HistoryOK
<1>5. /\ free_blocks' \in Int /\ leaked' \in Int
      /\ free_blocks' + 0 + leaked' = free_blocks + blocks_held[v] + leaked
  BY <1>3, <1>4
<1> QED BY <1>2, <1>3, <1>4, <1>5, BudgetChange, Zenon

\* _reserve_if_grown charges the difference.
LEMMA BudgetCharge ==
  ASSUME TypeOK, BudgetInv, Charge
  PROVE  BudgetInv'
<1> DEFINE need == BlocksNeeded(AllIds(cur))
<1>1. cur \in Req
  BY DEF Charge, TypeOK, ControlOK
<1>2. need \in Nat
  BY <1>1, AllIdsNat, BlocksNeededNat
<1>3. /\ free_blocks' = free_blocks - (need - blocks_held[cur])
      /\ blocks_held' = [blocks_held EXCEPT ![cur] = need]
      /\ leaked' = leaked
  BY DEF Charge, Extra, history
<1> HIDE DEF need
<1>4. free_blocks \in Int /\ blocks_held[cur] \in Nat /\ leaked \in Nat
  BY <1>1 DEF TypeOK, BlocksOK, HistoryOK
<1>5. /\ free_blocks' \in Int /\ leaked' \in Int
      /\ free_blocks' + need + leaked' = free_blocks + blocks_held[cur] + leaked
  BY <1>2, <1>3, <1>4
<1> QED BY <1>1, <1>2, <1>3, <1>4, <1>5, BudgetChange, Zenon

\* A retired request returns its blocks.
LEMMA BudgetReturn ==
  ASSUME TypeOK, BudgetInv, NEW r \in Req, ReturnBlocks(r), UNCHANGED leaked
  PROVE  BudgetInv'
<1>1. /\ free_blocks' = free_blocks + blocks_held[r]
      /\ blocks_held' = [blocks_held EXCEPT ![r] = 0]
  BY DEF ReturnBlocks
<1>2. free_blocks \in Int /\ blocks_held[r] \in Nat /\ leaked \in Nat
  BY DEF TypeOK, BlocksOK, HistoryOK
<1>3. /\ free_blocks' \in Int /\ leaked' \in Int
      /\ free_blocks' + 0 + leaked' = free_blocks + blocks_held[r] + leaked
  BY <1>1, <1>2
<1> QED BY <1>1, <1>2, <1>3, BudgetChange, Zenon

\* The other steps leave the charges, the counter and the leak alone.
LEMMA WhoCharges ==
  ASSUME [Next]_vars, ~Admit, ~Preempt, ~Charge,
         \A r \in Req : ~RetireFailed(r) /\ ~RetireDone(r)
  PROVE  UNCHANGED <<free_blocks, blocks_held, leaked>>
<1>1. CASE Begin \/ AdmitEnd \/ PrefillEnd \/ Collect \/ CollectEnd
  BY <1>1 DEF Begin, AdmitEnd, PrefillEnd, Collect, CollectEnd, blocks, history
<1>2. CASE DecodeRaise \/ DecodeBatch \/ Record \/ RecordRaise \/ RecordEnd
           \/ StillFits \/ RetireEnd
  BY <1>2 DEF DecodeRaise, DecodeBatch, Record, RecordRaise, RecordEnd, StillFits,
       RetireEnd, blocks, history
<1>3. ASSUME NEW r \in Req, AddRequest(r) \/ Prefill(r)
      PROVE  UNCHANGED <<free_blocks, blocks_held, leaked>>
  BY <1>3 DEF AddRequest, Prefill, PrefillSkip, PrefillRaise, PrefillResume,
       PrefillFresh, blocks, history
<1>4. ASSUME NEW r \in Req, RetireKeep(r)
      PROVE  UNCHANGED <<free_blocks, blocks_held, leaked>>
  BY <1>4 DEF RetireKeep, blocks, history
<1>5. CASE UNCHANGED vars
  BY <1>5 DEF vars, blocks, history
<1> QED BY <1>1, <1>2, <1>3, <1>4, <1>5 DEF Next, Step, Retire

\* Every step keeps BudgetInv.
LEMMA BudgetNext ==
  ASSUME TypeOK, BudgetInv, [Next]_vars
  PROVE  BudgetInv'
<1>1. ASSUME UNCHANGED <<free_blocks, blocks_held, leaked>>
      PROVE  BudgetInv'
  BY <1>1 DEF BudgetInv, BlocksAccounted, Units
<1>2. ASSUME NEW r \in Req, RetireFailed(r) \/ RetireDone(r)
      PROVE  BudgetInv'
  BY <1>2, BudgetReturn DEF RetireFailed, RetireDone, history
<1> QED BY <1>1, <1>2, BudgetAdmit, BudgetPreempt, BudgetCharge, WhoCharges

\* In the beginning every block is free.
LEMMA BudgetInit == Init => BudgetInv
<1> SUFFICES ASSUME Init PROVE BudgetInv
  OBVIOUS
<1>1. Units(blocks_held, Req) = {}
  BY DEF Init, Units
<1>2. IsFiniteSet({}) /\ Cardinality({}) = 0
  BY FS_EmptySet
<1>3. free_blocks = TotalBlocks /\ leaked = 0 /\ TotalBlocks \in Nat
  BY ConfigAssumption DEF Init
<1> QED BY <1>1, <1>2, <1>3 DEF BudgetInv, BlocksAccounted

\* Who is charged is finite, and the books of the block budget balance.
THEOREM BudgetCorrect == Spec => []BudgetInv
<1>1. TypeOK /\ BudgetInv /\ [Next]_vars => BudgetInv'
  BY BudgetNext
<1> QED BY <1>1, BudgetInit, TypeCorrect, PTL DEF Spec

\* Every block of the budget is free, charged to a request, or was still
\* charged to a request when _admit charged it anew: that overwritten charge
\* is the only way in which the engine loses blocks.
THEOREM NoBlockIsLost == Spec => []BlocksAccounted
<1>1. BudgetInv => BlocksAccounted
  BY DEF BudgetInv
<1> QED BY <1>1, BudgetCorrect, PTL
-----------------------------------------------------------------------------
(* OvercommitIsAlone *)

\* _admit never takes more blocks than are free.
LEMMA AloneAdmit ==
  ASSUME TypeOK, Admit
  PROVE  OvercommitIsAlone'
<1> DEFINE need == BlocksNeeded(AllIds(Head(waiting)))
<1>1. Head(waiting) \in Req
  BY HeadTailProperties DEF Admit, CanAdmit, TypeOK, QueuesOK
<1>2. need \in Nat
  BY <1>1, AllIdsNat, BlocksNeededNat
<1>3. free_blocks' = free_blocks - need /\ need <= free_blocks
  BY DEF Admit, CanAdmit
<1> HIDE DEF need
<1>4. ~(free_blocks' < 0)
  BY <1>2, <1>3 DEF TypeOK, BlocksOK
<1> QED BY <1>4 DEF OvercommitIsAlone

\* Returned blocks leave fewer requests with blocks.
LEMMA AloneReturn ==
  ASSUME TypeOK, OvercommitIsAlone, NEW r \in Req,
         free_blocks' = free_blocks + blocks_held[r],
         blocks_held' = [blocks_held EXCEPT ![r] = 0],
         ToSet(active') \subseteq ToSet(active), ToSet(active) \subseteq Req
  PROVE  OvercommitIsAlone'
<1>1. free_blocks \in Int /\ blocks_held \in [Req -> Nat]
  BY DEF TypeOK, BlocksOK
<1>2. free_blocks' < 0 => free_blocks < 0
  BY <1>1
<1>3. \A q \in Req : blocks_held'[q] > 0 => blocks_held[q] > 0
  BY <1>1
<1> QED BY <1>2, <1>3 DEF OvercommitIsAlone

\* A victim returns its blocks.
LEMMA AlonePreempt ==
  ASSUME TypeOK, QueueInv, OvercommitIsAlone, Preempt
  PROVE  OvercommitIsAlone'
<1>1. PICK k \in Victims :
        /\ free_blocks' = free_blocks + blocks_held[active[k]]
        /\ ResetForResume(active[k])
        /\ active' = RemoveAt(active, k)
  BY DEF Preempt
<1>2. k \in 1..Len(active) /\ active[k] \in Req /\ ToSet(active) \subseteq Req
  BY ElementsByIndex DEF Victims, TypeOK, QueuesOK
<1>3. ToSet(active') = ToSet(active) \ {active[k]}
  BY <1>1, <1>2, RemoveAtElements DEF TypeOK, QueuesOK, QueueInv
<1> QED BY <1>1, <1>2, <1>3, AloneReturn DEF ResetForResume

\* The charge of the last resort finds no other active request with blocks.
LEMMA AloneCharge ==
  ASSUME TypeOK, Charge
  PROVE  OvercommitIsAlone'
<1>1. cur \in Req /\ Extra > 0
  BY DEF Charge, TypeOK, ControlOK
<1>2. BlocksNeeded(AllIds(cur)) \in Nat
  BY <1>1, AllIdsNat, BlocksNeededNat
<1>3. free_blocks \in Int /\ blocks_held \in [Req -> Nat] /\ Extra \in Int
  BY <1>1, <1>2 DEF TypeOK, BlocksOK, Extra
<1>4. /\ free_blocks' = free_blocks - Extra /\ active' = active
      /\ blocks_held' = [blocks_held EXCEPT ![cur] = BlocksNeeded(AllIds(cur))]
  BY DEF Charge, queues
<1>5. CASE free_blocks >= Extra
  <2>1. ~(free_blocks' < 0)
    BY <1>3, <1>4, <1>5
  <2> QED BY <2>1 DEF OvercommitIsAlone
<1>6. CASE Victims = {}
  <2>1. \A r \in ToSet(active) : r \in Req /\ (r # cur => ~(blocks_held[r] > 0))
    BY <1>6, ElementsByIndex DEF Victims, TypeOK, QueuesOK
  <2>2. \A r \in ToSet(active) : r # cur => ~(blocks_held'[r] > 0)
    BY <1>3, <1>4, <2>1
  <2> QED BY <1>4, <2>2 DEF OvercommitIsAlone
<1> QED BY <1>5, <1>6 DEF Charge

\* Every step keeps OvercommitIsAlone.
LEMMA AloneNext ==
  ASSUME TypeOK, QueueInv, OvercommitIsAlone, [Next]_vars
  PROVE  OvercommitIsAlone'
<1>1. ASSUME UNCHANGED <<free_blocks, blocks_held>>,
             ToSet(active') \subseteq ToSet(active)
      PROVE  OvercommitIsAlone'
  BY <1>1 DEF OvercommitIsAlone
<1>2. ToSet(active) \subseteq Req
  BY ElementsByIndex DEF TypeOK, QueuesOK
<1>3. ASSUME NEW r \in Req, RetireFailed(r) \/ RetireDone(r)
      PROVE  OvercommitIsAlone'
  <2>1. UNCHANGED active /\ ReturnBlocks(r)
    BY <1>3 DEF RetireFailed, RetireDone, queues
  <2> QED BY <1>2, <2>1, AloneReturn DEF ReturnBlocks
<1>4. CASE RetireEnd
  <2>1. ToSet(active') \subseteq ToSet(active)
    BY <1>4 DEF RetireEnd, QueueInv
  <2> QED BY <1>1, <1>4, <2>1 DEF RetireEnd, blocks
<1>5. CASE Begin \/ AdmitEnd \/ PrefillEnd \/ Collect \/ CollectEnd
  BY <1>1, <1>5 DEF Begin, AdmitEnd, PrefillEnd, Collect, CollectEnd, blocks,
       queues
<1>6. CASE DecodeRaise \/ DecodeBatch \/ Record \/ RecordRaise \/ RecordEnd
           \/ StillFits
  BY <1>1, <1>6 DEF DecodeRaise, DecodeBatch, Record, RecordRaise, RecordEnd,
       StillFits, blocks, queues
<1>7. ASSUME NEW r \in Req, AddRequest(r) \/ Prefill(r) \/ RetireKeep(r)
      PROVE  OvercommitIsAlone'
  BY <1>1, <1>7 DEF AddRequest, Prefill, PrefillSkip, PrefillRaise,
       PrefillResume, PrefillFresh, RetireKeep, blocks, queues
<1>8. CASE UNCHANGED vars
  BY <1>1, <1>8 DEF vars, blocks, queues
<1> QED
  BY <1>3, <1>4, <1>5, <1>6, <1>7, <1>8, AloneAdmit, AlonePreempt, AloneCharge
  DEF Next, Step, Retire

\* While memory is over-committed, one active request at most holds blocks.
THEOREM OvercommitForOne == Spec => []OvercommitIsAlone
<1>1. Init => OvercommitIsAlone
  BY ConfigAssumption DEF Init, OvercommitIsAlone
<1>2. TypeOK /\ EngineInv /\ OvercommitIsAlone /\ [Next]_vars => OvercommitIsAlone'
  BY AloneNext DEF EngineInv
<1> QED BY <1>1, <1>2, TypeCorrect, EngineCorrect, PTL DEF Spec

-----------------------------------------------------------------------------
(* ActiveIsCharged *)

\* A token more never needs fewer blocks.
LEMMA BlocksNeededGrows ==
  ASSUME NEW n \in Nat
  PROVE  BlocksNeeded(n) <= BlocksNeeded(n + 1)
BY ConfigAssumption DEF BlocksNeeded

\* Outside _reserve_if_grown each active request is charged for its tokens;
\* inside it, the one request that has just grown may be charged for fewer.
ChargeInv ==
  \A r \in ToSet(active) \ ToSet(finished) :
    IF Reserving /\ r = cur THEN blocks_held[r] <= BlocksNeeded(AllIds(r))
                            ELSE blocks_held[r] = BlocksNeeded(AllIds(r))

\* Nobody grows, and nobody becomes active.
LEMMA ChargeFrame ==
  ASSUME ChargeInv, ~Reserving, ~Reserving',
         UNCHANGED <<prompt_len, generated, blocks_held>>,
         ToSet(active') \ ToSet(finished') \subseteq ToSet(active) \ ToSet(finished)
  PROVE  ChargeInv'
<1>1. \A r : AllIds(r)' = AllIds(r) /\ BlocksNeeded(AllIds(r))' = BlocksNeeded(AllIds(r))
  BY DEF AllIds, BlocksNeeded
<1> QED BY <1>1 DEF ChargeInv

\* Who arrives is not active.
LEMMA ChargeAddRequest ==
  ASSUME TypeOK, QueueInv, ChargeInv, NEW r \in Req, AddRequest(r)
  PROVE  ChargeInv'
<1>1. /\ pc = "idle" /\ pc' = "idle" /\ r \notin arrived
      /\ UNCHANGED <<active, finished, blocks_held, generated>>
      /\ \A q \in Req \ {r} : prompt_len'[q] = prompt_len[q]
  BY DEF AddRequest, tokens, results, blocks, TypeOK, InputsOK
<1>2. r \notin ToSet(active) /\ ToSet(active) \subseteq Req
  BY <1>1, ElementsByIndex DEF QueueInv, TypeOK, QueuesOK
<1>3. \A q \in ToSet(active) : BlocksNeeded(AllIds(q))' = BlocksNeeded(AllIds(q))
  BY <1>1, <1>2 DEF AllIds, BlocksNeeded
<1> QED BY <1>1, <1>3 DEF ChargeInv, Reserving

\* _admit charges a request for its tokens when it becomes active.
LEMMA ChargeAdmit ==
  ASSUME TypeOK, QueueInv, ChargeInv, Admit
  PROVE  ChargeInv'
<1> DEFINE req == Head(waiting)
<1>1. req \in Req /\ active' = Append(active, req)
  BY HeadTailProperties DEF Admit, CanAdmit, TypeOK, QueuesOK
<1>2. /\ pc = "admit" /\ pc' = "admit"
      /\ UNCHANGED <<finished, prompt_len, generated>>
      /\ blocks_held' = [blocks_held EXCEPT ![req] = BlocksNeeded(AllIds(req))]
  BY DEF Admit, inputs, tokens, results
<1> HIDE DEF req
<1>3. ToSet(active') = ToSet(active) \cup {req} /\ ToSet(active) \subseteq Req
  BY <1>1, AppendElements, ElementsByIndex DEF TypeOK, QueuesOK
<1>4. \A q : BlocksNeeded(AllIds(q))' = BlocksNeeded(AllIds(q))
  BY <1>2 DEF AllIds, BlocksNeeded
<1>5. /\ blocks_held'[req] = BlocksNeeded(AllIds(req))
      /\ \A q \in Req \ {req} : blocks_held'[q] = blocks_held[q]
  BY <1>1, <1>2 DEF TypeOK, BlocksOK
<1> QED BY <1>2, <1>3, <1>4, <1>5 DEF ChargeInv, Reserving

\* A request grows by one token, or stays as it is, and _reserve_if_grown is
\* called for it.
LEMMA ChargeGrown ==
  ASSUME TypeOK, ChargeInv, ~Reserving, Reserving', NEW r \in Req, cur' = r,
         \/ generated' = [generated EXCEPT ![r] = @ + 1]
         \/ generated' = generated,
         UNCHANGED <<prompt_len, blocks_held, active, finished>>
  PROVE  ChargeInv'
<1>1. AllIds(r) \in Nat /\ AllIds(r)' \in {AllIds(r), AllIds(r) + 1}
  BY AllIdsNat DEF AllIds, TypeOK, InputsOK, TokensOK
<1>2. BlocksNeeded(AllIds(r))' = BlocksNeeded(AllIds(r)')
  BY DEF BlocksNeeded
<1>3. BlocksNeeded(AllIds(r)) \in Nat
  BY <1>1, BlocksNeededNat
<1>4. BlocksNeeded(AllIds(r)) <= BlocksNeeded(AllIds(r) + 1)
  BY <1>1, BlocksNeededGrows
<1>5. BlocksNeeded(AllIds(r)) <= BlocksNeeded(AllIds(r))'
  BY <1>1, <1>2, <1>3, <1>4
<1>6. \A q \in Req \ {r} : BlocksNeeded(AllIds(q))' = BlocksNeeded(AllIds(q))
  BY DEF AllIds, BlocksNeeded, TypeOK, TokensOK
<1>7. ToSet(active) \subseteq Req
  BY ElementsByIndex DEF TypeOK, QueuesOK
<1>8. r \in ToSet(active) \ ToSet(finished) => blocks_held[r] <= BlocksNeeded(AllIds(r))'
  BY <1>5 DEF ChargeInv
<1> QED BY <1>6, <1>7, <1>8 DEF ChargeInv

\* A victim leaves the active requests.
LEMMA ChargePreempt ==
  ASSUME TypeOK, QueueInv, ChargeInv, Preempt
  PROVE  ChargeInv'
<1>1. PICK k \in Victims :
        ResetForResume(active[k]) /\ active' = RemoveAt(active, k)
  BY DEF Preempt
<1> DEFINE v == active[k]
<1>2. k \in 1..Len(active) /\ v \in Req /\ ToSet(active) \subseteq Req
  BY ElementsByIndex DEF Victims, TypeOK, QueuesOK
<1>3. ToSet(active') = ToSet(active) \ {v}
  BY <1>1, <1>2, RemoveAtElements DEF TypeOK, QueuesOK, QueueInv
<1>4. /\ blocks_held' = [blocks_held EXCEPT ![v] = 0]
      /\ UNCHANGED <<finished, prompt_len, generated, pc, cur>>
  BY <1>1 DEF ResetForResume, Preempt, inputs, tokens, results, locals
<1> HIDE DEF v
<1>5. \A q : BlocksNeeded(AllIds(q))' = BlocksNeeded(AllIds(q))
  BY <1>4 DEF AllIds, BlocksNeeded
<1>6. \A q \in Req \ {v} : blocks_held'[q] = blocks_held[q]
  BY <1>2, <1>4 DEF TypeOK, BlocksOK
<1> QED BY <1>2, <1>3, <1>4, <1>5, <1>6 DEF ChargeInv, Reserving

\* A request that grew is looked at by _reserve_if_grown before anything else.
LEMMA ChargeReserve ==
  ASSUME TypeOK, ChargeInv, StillFits \/ Charge
  PROVE  ChargeInv'
<1>1. /\ Reserving /\ cur \in Req
      /\ UNCHANGED <<active, finished, prompt_len, generated>>
      /\ pc' \in {"prefill", "record"}
  BY DEF StillFits, Charge, Return, Reserving, inputs, tokens, queues, results,
         TypeOK, ControlOK
<1>2. ToSet(active) \subseteq Req
  BY ElementsByIndex DEF TypeOK, QueuesOK
<1>3. \A q : BlocksNeeded(AllIds(q))' = BlocksNeeded(AllIds(q))
  BY <1>1 DEF AllIds, BlocksNeeded
<1>4. \A q \in ToSet(active) \ ToSet(finished) :
        q # cur => blocks_held'[q] = blocks_held[q]
  BY <1>1, <1>2 DEF StillFits, Charge, blocks, TypeOK, BlocksOK
<1>5. cur \in ToSet(active) \ ToSet(finished)
        => blocks_held'[cur] = BlocksNeeded(AllIds(cur))
  <2>1. CASE StillFits
    <3>1. BlocksNeeded(AllIds(cur)) \in Nat /\ blocks_held[cur] \in Nat
      BY <1>1, AllIdsNat, BlocksNeededNat DEF TypeOK, BlocksOK
    <3>2. blocks_held'[cur] = blocks_held[cur]
      BY <2>1 DEF StillFits, blocks
    <3>3. BlocksNeeded(AllIds(cur)) - blocks_held[cur] <= 0
      BY <2>1 DEF StillFits, Extra
    <3>4. cur \in ToSet(active) \ ToSet(finished)
            => blocks_held[cur] <= BlocksNeeded(AllIds(cur))
      BY <1>1 DEF ChargeInv
    <3> QED BY <3>1, <3>2, <3>3, <3>4
  <2>2. CASE Charge
    BY <1>1, <2>2 DEF Charge, TypeOK, BlocksOK
  <2> QED BY <2>1, <2>2
<1>6. ~Reserving'
  BY <1>1 DEF Reserving
<1> QED BY <1>1, <1>3, <1>4, <1>5, <1>6 DEF ChargeInv

\* A request that returns its blocks is finished.
LEMMA ChargeRetire ==
  ASSUME TypeOK, QueueInv, ChargeInv, NEW r \in Req, Retire(r)
  PROVE  ChargeInv'
<1>1. /\ pc = "retire" /\ pc' = "retire"
      /\ UNCHANGED <<active, prompt_len, generated>>
  BY DEF Retire, RetireFailed, RetireDone, RetireKeep, AtRetire, inputs,
         tokens, queues
<1>2. CASE RetireKeep(r)
  BY <1>1, <1>2, ChargeFrame DEF RetireKeep, Reserving, blocks, results
<1>3. CASE ReturnBlocks(r)
  <2>1. ToSet(finished') = ToSet(finished) \cup {r}
    BY <1>3, AppendElements DEF ReturnBlocks, TypeOK, ResultsOK
  <2>2. \A q \in Req \ {r} : blocks_held'[q] = blocks_held[q]
    BY <1>3 DEF ReturnBlocks, TypeOK, BlocksOK
  <2>3. ToSet(active) \subseteq Req
    BY ElementsByIndex DEF TypeOK, QueuesOK
  <2>4. \A q : BlocksNeeded(AllIds(q))' = BlocksNeeded(AllIds(q))
    BY <1>1 DEF AllIds, BlocksNeeded
  <2> QED BY <1>1, <2>1, <2>2, <2>3, <2>4 DEF ChargeInv, Reserving
<1> QED BY <1>2, <1>3 DEF Retire, RetireFailed, RetireDone

\* Every step keeps ChargeInv.
LEMMA ChargeNext ==
  ASSUME TypeOK, QueueInv, ChargeInv, [Next]_vars
  PROVE  ChargeInv'
<1>1. CASE Begin \/ AdmitEnd \/ PrefillEnd \/ Collect \/ CollectEnd
  BY <1>1, ChargeFrame DEF Begin, AdmitEnd, PrefillEnd, Collect, CollectEnd,
       Reserving, inputs, tokens, blocks, queues, results
<1>2. CASE DecodeRaise \/ DecodeBatch \/ RecordRaise \/ RecordEnd
  BY <1>2, ChargeFrame DEF DecodeRaise, DecodeBatch, RecordRaise, RecordEnd,
       Reserving, inputs, tokens, blocks, queues, results
<1>3. ASSUME NEW r \in Req, PrefillSkip(r) \/ PrefillRaise(r)
      PROVE  ChargeInv'
  BY <1>3, ChargeFrame DEF PrefillSkip, PrefillRaise, AtPrefill, Reserving,
       inputs, tokens, blocks, queues, results
<1>4. ASSUME NEW r \in Req, PrefillResume(r) \/ PrefillFresh(r)
      PROVE  ChargeInv'
  BY <1>4, ChargeGrown DEF PrefillResume, PrefillFresh, AtPrefill, RecordToken,
       Reserving, inputs, blocks, queues, results
<1>5. CASE Record
  <2>1. decoding[i] \in Req
    BY <1>5, ElementsByIndex DEF Record, TypeOK, ListsOK, ControlOK
  <2> QED BY <1>5, <2>1, ChargeGrown
          DEF Record, RecordToken, Reserving, inputs, blocks, queues, results
<1>6. CASE RetireEnd
  <2>1. ToSet(active') \subseteq ToSet(active)
    BY <1>6 DEF RetireEnd, QueueInv
  <2> QED BY <1>6, <2>1, ChargeFrame
          DEF RetireEnd, Reserving, inputs, tokens, blocks, results
<1>7. CASE UNCHANGED vars
  BY <1>7 DEF vars, inputs, tokens, blocks, queues, results, locals, ChargeInv,
       Reserving, AllIds, BlocksNeeded
<1> QED
  BY <1>1, <1>2, <1>3, <1>4, <1>5, <1>6, <1>7, ChargeAddRequest, ChargeAdmit,
     ChargePreempt, ChargeReserve, ChargeRetire
  DEF Next, Step, Prefill

\* Between ticks an active request holds exactly the blocks of its tokens.
THEOREM ChargesAreExact == Spec => []ActiveIsCharged
<1>1. Init => ChargeInv
  BY EmptyElements DEF Init, ChargeInv
<1>2. TypeOK /\ EngineInv /\ ChargeInv /\ [Next]_vars => ChargeInv'
  BY ChargeNext DEF EngineInv
<1>3. EngineInv /\ ChargeInv => ActiveIsCharged
  BY DEF EngineInv, QueueInv, ChargeInv, ActiveIsCharged, Reserving
<1> QED BY <1>1, <1>2, <1>3, TypeCorrect, EngineCorrect, PTL DEF Spec
-----------------------------------------------------------------------------
(* MetricsAgree *)

\* The sets that the counters count are finite.
MetricsInv ==
  /\ IsFiniteSet(arrived) /\ IsFiniteSet(Units(generated, Completed))
  /\ MetricsAgree

\* Nobody arrives or is answered, and what was answered stays as it is.
LEMMA MetricsFrame ==
  ASSUME MetricsInv, UNCHANGED <<arrived, requests_total, results>>,
         \A r \in ToSet(finished) : r \in failed' <=> r \in failed,
         \A r \in ToSet(finished) : generated'[r] = generated[r]
  PROVE  MetricsInv'
<1>1. Completed' = Completed
  BY DEF Completed, results
<1>2. \A r \in Completed : generated'[r] = generated[r]
  BY DEF Completed
<1>3. Units(generated', Completed) = Units(generated, Completed)
  BY <1>2 DEF Units
<1>4. Units(generated, Completed)' = Units(generated, Completed)
  BY <1>1, <1>3 DEF Units
<1> QED BY <1>1, <1>4 DEF MetricsInv, MetricsAgree, results

\* An arrival is counted.
LEMMA MetricsAddRequest ==
  ASSUME TypeOK, MetricsInv, NEW r \in Req, AddRequest(r)
  PROVE  MetricsInv'
<1>1. /\ r \notin arrived /\ arrived' = arrived \cup {r}
      /\ requests_total' = requests_total + 1
      /\ UNCHANGED <<results, failed, generated>>
  BY DEF AddRequest, tokens
<1>2. IsFiniteSet(arrived) /\ requests_total = Cardinality(arrived)
  BY DEF MetricsInv, MetricsAgree
<1>3. IsFiniteSet(arrived') /\ Cardinality(arrived') = Cardinality(arrived) + 1
  BY <1>1, <1>2, FS_AddElement
<1>4. Completed' = Completed /\ Units(generated, Completed)' = Units(generated, Completed)
  BY <1>1 DEF Completed, Units, results
<1>5. requests_total' = Cardinality(arrived')
  BY <1>1, <1>2, <1>3
<1> QED BY <1>1, <1>3, <1>4, <1>5 DEF MetricsInv, MetricsAgree, results

\* A failure is counted, and no tokens of it.
LEMMA MetricsRetireFailed ==
  ASSUME TypeOK, QueueInv, MetricsInv, NEW r \in Req, RetireFailed(r)
  PROVE  MetricsInv'
<1>1. /\ r \in failed /\ finished' = Append(finished, r)
      /\ requests_failed' = requests_failed + 1
      /\ UNCHANGED <<arrived, requests_total, requests_completed,
                     tokens_generated, failed, generated>>
  BY DEF RetireFailed, ReturnBlocks, inputs, tokens
<1>2. ToSet(finished') = ToSet(finished) \cup {r}
  BY <1>1, AppendElements DEF TypeOK, ResultsOK
<1>3. Completed' = Completed
  BY <1>1, <1>2 DEF Completed
<1>4. Units(generated, Completed)' = Units(generated, Completed)
  BY <1>1, <1>3 DEF Units
<1>5. Len(finished') = Len(finished) + 1 /\ Len(finished) \in Nat
  BY <1>1, AppendProperties, LenProperties DEF TypeOK, ResultsOK
<1>6. requests_completed' + requests_failed' = Len(finished')
  <2>1. requests_completed + requests_failed = Len(finished)
    BY DEF MetricsInv, MetricsAgree
  <2>2. requests_completed \in Nat /\ requests_failed \in Nat
    BY DEF TypeOK, ResultsOK
  <2> QED BY <1>1, <1>5, <2>1, <2>2
<1> QED BY <1>1, <1>3, <1>4, <1>6 DEF MetricsInv, MetricsAgree

\* A completion is counted with its tokens.
LEMMA MetricsRetireDone ==
  ASSUME TypeOK, QueueInv, MetricsInv, NEW r \in Req, RetireDone(r)
  PROVE  MetricsInv'
<1>1. /\ r \notin failed /\ finished' = Append(finished, r) /\ AtRetire(r)
      /\ requests_completed' = requests_completed + 1
      /\ tokens_generated' = tokens_generated + generated[r]
      /\ UNCHANGED <<arrived, requests_total, requests_failed, failed, generated>>
  BY DEF RetireDone, ReturnBlocks, inputs, tokens
<1>2. ToSet(finished') = ToSet(finished) \cup {r}
  BY <1>1, AppendElements DEF TypeOK, ResultsOK
<1>3. Completed' = Completed \cup {r} /\ r \notin Completed
  BY <1>1, <1>2, RetiresOnce DEF Completed
<1>4. IsFiniteSet(Completed) /\ Cardinality(Completed) \in Nat
  <2>1. Completed \subseteq arrived
    BY DEF Completed, QueueInv
  <2> QED BY <2>1, FS_Subset, FS_CardinalityType DEF MetricsInv
<1>5. requests_completed' = Cardinality(Completed')
  <2>1. Cardinality(Completed \cup {r}) = Cardinality(Completed) + 1
    BY <1>3, <1>4, FS_AddElement
  <2>2. requests_completed = Cardinality(Completed)
    BY DEF MetricsInv, MetricsAgree
  <2> QED BY <1>1, <1>3, <2>1, <2>2
<1>6. /\ IsFiniteSet(Units(generated, Completed)')
      /\ tokens_generated' = Cardinality(Units(generated, Completed)')
  <2>1. /\ IsFiniteSet(Units(generated, Completed))
        /\ tokens_generated = Cardinality(Units(generated, Completed))
    BY DEF MetricsInv, MetricsAgree
  <2>2. generated[r] \in Nat
    BY DEF TypeOK, TokensOK
  <2>3. /\ IsFiniteSet(Units(generated, Completed \cup {r}))
        /\ Cardinality(Units(generated, Completed \cup {r}))
             = Cardinality(Units(generated, Completed)) + generated[r]
    BY <1>3, <2>1, <2>2, UnitsAdd
  <2>4. Units(generated, Completed)' = Units(generated, Completed \cup {r})
    BY <1>1, <1>3 DEF Units
  <2> QED BY <1>1, <2>1, <2>3, <2>4
<1>7. Len(finished') = Len(finished) + 1 /\ Len(finished) \in Nat
  BY <1>1, AppendProperties, LenProperties DEF TypeOK, ResultsOK
<1>8. requests_completed' + requests_failed' = Len(finished')
  <2>1. requests_completed + requests_failed = Len(finished)
    BY DEF MetricsInv, MetricsAgree
  <2>2. requests_completed \in Nat /\ requests_failed \in Nat
    BY DEF TypeOK, ResultsOK
  <2> QED BY <1>1, <1>7, <2>1, <2>2
<1> QED BY <1>1, <1>5, <1>6, <1>8 DEF MetricsInv, MetricsAgree

\* No token is generated for a request that was answered.
LEMMA AnsweredIsFrozen ==
  ASSUME TypeOK, EngineInv, ServiceInv, [Next]_vars, NEW q \in ToSet(finished)
  PROVE  generated'[q] = generated[q]
<1>0. QueueInv /\ BatchInv /\ CacheInv /\ q \in Req
  BY ElementsByIndex DEF EngineInv, TypeOK, ResultsOK
<1>1. ASSUME NEW r \in Req, PrefillFresh(r)
      PROVE  generated'[q] = generated[q]
  <2>1. /\ pc = "prefill" /\ i <= Len(active) /\ r = active[i]
        /\ generated' = [generated EXCEPT ![r] = @ + 1]
    BY <1>1 DEF PrefillFresh, AtPrefill, RecordToken
  <2>2. r \in ToSet(active)
    BY <2>1, ElementsByIndex DEF TypeOK, QueuesOK, ControlOK
  <2>3. q # r
    BY <1>0, <2>1, <2>2 DEF QueueInv
  <2> QED BY <1>0, <2>1, <2>3 DEF TypeOK, TokensOK
<1>2. CASE Record
  <2>1. /\ pc = "record" /\ i <= Len(decoding)
        /\ generated' = [generated EXCEPT ![decoding[i]] = @ + 1]
    BY <1>2 DEF Record, RecordToken
  <2>2. decoding[i] \in Batch
    BY <2>1, ElementsByIndex DEF Batch, TypeOK, ControlOK, ListsOK
  <2>3. q # decoding[i]
    BY <2>1, <2>2 DEF ServiceInv, WithBatch
  <2> QED BY <1>0, <2>1, <2>3 DEF TypeOK, TokensOK
<1> QED BY <1>1, <1>2, WhoGenerates

\* Every step keeps MetricsInv.
LEMMA MetricsNext ==
  ASSUME TypeOK, EngineInv, ServiceInv, MetricsInv, [Next]_vars
  PROVE  MetricsInv'
<1>0. QueueInv
  BY DEF EngineInv
<1>1. ASSUME UNCHANGED <<arrived, requests_total, results, failed>>
      PROVE  MetricsInv'
  BY <1>1, AnsweredIsFrozen, MetricsFrame
<1>2. ASSUME DecodeRaise \/ RecordRaise \/ \E r \in Req : PrefillRaise(r)
      PROVE  MetricsInv'
  BY <1>0, <1>2, FailsBeforeAnswer, AnsweredIsFrozen, MetricsFrame
<1>3. CASE Begin \/ Admit \/ AdmitEnd \/ PrefillEnd \/ Collect \/ CollectEnd
  BY <1>1, <1>3 DEF Begin, Admit, AdmitEnd, PrefillEnd, Collect, CollectEnd, inputs
<1>4. CASE DecodeBatch \/ Record \/ RecordEnd \/ StillFits \/ Preempt \/ Charge
           \/ RetireEnd
  BY <1>1, <1>4 DEF DecodeBatch, Record, RecordEnd, StillFits, Preempt, Charge,
       RetireEnd, inputs
<1>5. ASSUME NEW r \in Req,
             PrefillSkip(r) \/ PrefillResume(r) \/ PrefillFresh(r) \/ RetireKeep(r)
      PROVE  MetricsInv'
  BY <1>1, <1>5 DEF PrefillSkip, PrefillResume, PrefillFresh, RetireKeep, inputs
<1>6. CASE UNCHANGED vars
  BY <1>1, <1>6 DEF vars, inputs
<1> QED
  BY <1>0, <1>2, <1>3, <1>4, <1>5, <1>6, MetricsAddRequest, MetricsRetireFailed,
     MetricsRetireDone
  DEF Next, Step, Prefill, Retire

\* Nothing has arrived and nothing is counted.
LEMMA MetricsInit == Init => MetricsInv
<1> SUFFICES ASSUME Init PROVE MetricsInv
  OBVIOUS
<1>1. arrived = {} /\ Completed = {} /\ Len(finished) = 0
  BY EmptyElements DEF Init, Completed
<1>2. Units(generated, Completed) = {}
  BY <1>1 DEF Units
<1>3. IsFiniteSet({}) /\ Cardinality({}) = 0
  BY FS_EmptySet
<1>4. /\ requests_total = 0 /\ requests_completed = 0 /\ requests_failed = 0
      /\ tokens_generated = 0
  BY DEF Init
<1> QED BY <1>1, <1>2, <1>3, <1>4 DEF MetricsInv, MetricsAgree

\* The counters of /metrics and the queues tell the same story in every state.
THEOREM MetricsAreTrue == Spec => []MetricsAgree
<1>1. TypeOK /\ EngineInv /\ ServiceInv /\ MetricsInv /\ [Next]_vars => MetricsInv'
  BY MetricsNext
<1>2. MetricsInv => MetricsAgree
  BY DEF MetricsInv
<1> QED
  BY <1>1, <1>2, MetricsInit, TypeCorrect, EngineCorrect, ServiceCorrect, PTL
  DEF Spec
=============================================================================
