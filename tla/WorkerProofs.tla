---------------------------- MODULE WorkerProofs ----------------------------
(***************************************************************************)
(* The worker runs the engine as Scheduler.tla specifies it, so that what  *)
(* is proved of the engine holds in the worker; a drain that ends in time  *)
(* leaves nobody behind; /ready answers what was true during the call; and *)
(* what a caller of /generate sees implements RequestService.tla.          *)
(***************************************************************************)
EXTENDS Worker, SchedulerServiceProofs

-----------------------------------------------------------------------------
(* Every step of the worker is one of the engine, or leaves it alone *)

LEMMA EngineStep ==
  ASSUME [WorkerNext]_workerVars
  PROVE  [Next]_vars
<1>1. CASE UNCHANGED workerVars
  BY <1>1 DEF workerVars
<1>2. CASE EngineWakes
  BY <1>2 DEF EngineWakes, Next, Step
<1>3. CASE EngineSteps
  BY <1>3 DEF EngineSteps, Next
<1>4. ASSUME NEW r \in Req, Accept(r) PROVE Next
  BY <1>4 DEF Accept, Next
<1>5. CASE StartEngine \/ EngineDelivers \/ EngineSleeps \/ Shutdown
  BY <1>5 DEF StartEngine, EngineDelivers, EngineSleeps, Shutdown
<1>6. CASE Drain
  BY <1>6 DEF Drain, DrainWaits, DrainEnds, DrainGivesUp
<1>7. CASE Probe
  BY <1>7 DEF Probe, Dispatch, ReadStats, ReadReady, Respond
<1>8. ASSUME NEW r \in Req, Refuse(r) \/ Reply(r) PROVE UNCHANGED vars
  BY <1>8 DEF Refuse, Reply
<1> QED
  BY <1>1, <1>2, <1>3, <1>4, <1>5, <1>6, <1>7, <1>8 DEF WorkerNext, EngineLoop

\* The worker implements the specification of the engine: nothing that the
\* event loop, the handlers, the shutdown or the probes do interferes with it.
THEOREM WorkerRunsEngine == WorkerSpec => Spec
<1>1. WorkerInit => Init
  BY DEF WorkerInit
<1> QED BY <1>1, EngineStep, PTL DEF WorkerSpec, Spec

-----------------------------------------------------------------------------
(* Hand-over of results *)

\* A call waits with an event from its submission to its reply.  The engine's
\* answer reaches its event and _results together, and all answers have been
\* handed over whenever another task can look.
HandoverInv ==
  /\ loop = "none" <=> phase = "startup"
  /\ phase \in {"stopped", "gave_up"} => loop = "sleeping"
  /\ phase = "stopped" => ~HasWork
  /\ pc # "idle" => loop = "running"
  /\ delivered \subseteq ToSet(finished)
  /\ loop # "running" => ToSet(finished) \subseteq delivered
  /\ call \in [Req -> {"none", "refused", "waiting", "ok", "error"}]
  /\ events = {r \in Req : call[r] = "waiting"}
  /\ events \subseteq arrived
  /\ arrived \ delivered \subseteq events
  /\ woken \subseteq delivered
  /\ events \cap delivered \subseteq woken
  /\ answers = events \cap woken

\* The engine only adds to its answers.
LEMMA FinishedGrows ==
  ASSUME TypeOK, Step
  PROVE  UNCHANGED inputs /\ ToSet(finished) \subseteq ToSet(finished')
<1>1. \A r \in Req : ToSet(finished) \subseteq ToSet(Append(finished, r))
  BY AppendElements DEF TypeOK, ResultsOK
<1>2. ASSUME NEW r \in Req, Retire(r)
      PROVE  UNCHANGED inputs /\ ToSet(finished) \subseteq ToSet(finished')
  BY <1>1, <1>2 DEF Retire, RetireFailed, RetireDone, RetireKeep, ReturnBlocks,
       results
<1>3. ASSUME NEW r \in Req, Prefill(r)
      PROVE  UNCHANGED <<inputs, finished>>
  BY <1>3 DEF Prefill, PrefillSkip, PrefillRaise, PrefillResume, PrefillFresh,
       results
<1>4. CASE Begin \/ Admit \/ AdmitEnd \/ PrefillEnd \/ Collect \/ CollectEnd
  BY <1>4 DEF Begin, Admit, AdmitEnd, PrefillEnd, Collect, CollectEnd,
       results
<1>5. CASE DecodeRaise \/ DecodeBatch \/ Record \/ RecordRaise \/ RecordEnd
  BY <1>5 DEF DecodeRaise, DecodeBatch, Record, RecordRaise, RecordEnd, results
<1>6. CASE StillFits \/ Preempt \/ Charge \/ RetireEnd
  BY <1>6 DEF StillFits, Preempt, Charge, Return, RetireEnd, results
<1> QED BY <1>2, <1>3, <1>4, <1>5, <1>6 DEF Step

LEMMA HandoverEngine ==
  ASSUME HandoverInv, TypeOK, QueueInv,
         EngineWakes \/ EngineSteps \/ EngineDelivers \/ EngineSleeps
  PROVE  HandoverInv'
<1>1. CASE EngineWakes
  BY <1>1 DEF EngineWakes, LoopIsFree, Begin, HandoverInv, inputs, results,
       lifecycle, handlers
<1>2. CASE EngineSteps
  <2>1. /\ loop = "running" /\ loop' = "running"
        /\ UNCHANGED <<phase, delivered, answers, events, woken, call>>
    BY <1>2 DEF EngineSteps, lifecycle, handlers
  <2>2. UNCHANGED arrived /\ ToSet(finished) \subseteq ToSet(finished')
    BY <1>2, FinishedGrows DEF EngineSteps, inputs
  <2> QED BY <2>1, <2>2 DEF HandoverInv
<1>3. CASE EngineDelivers
  <2>1. PICK k \in DOMAIN finished :
          /\ finished[k] \notin delivered
          /\ delivered' = delivered \cup {finished[k]}
          /\ answers' = answers \cup {finished[k]}
          /\ woken' = woken \cup Wakes(finished[k])
    BY <1>3 DEF EngineDelivers, Undelivered
  <2>2. /\ loop = "running" /\ pc = "idle"
        /\ UNCHANGED <<arrived, finished, active, waiting, pc, phase, loop,
                       events, call>>
    BY <1>3 DEF EngineDelivers, vars, inputs, results, queues, lifecycle
  <2>3. finished[k] \in ToSet(finished) /\ finished[k] \in events
    BY <2>1 DEF ToSet, HandoverInv, QueueInv
  <2>4. woken' = woken \cup {finished[k]}
    BY <2>1, <2>3 DEF Wakes
  <2> QED BY <2>1, <2>2, <2>3, <2>4 DEF HandoverInv, HasWork
<1>4. CASE EngineSleeps
  <2>1. /\ loop = "running" /\ loop' = "sleeping" /\ pc = "idle"
        /\ UNCHANGED <<arrived, finished, active, waiting, pc, phase, delivered,
                       answers, events, woken, call>>
    BY <1>4 DEF EngineSleeps, vars, inputs, results, queues, lifecycle, handlers
  <2>2. ToSet(finished) \subseteq delivered
    BY <1>4 DEF EngineSleeps, Undelivered, ToSet
  <2> QED BY <2>1, <2>2 DEF HandoverInv, HasWork
<1> QED BY <1>1, <1>2, <1>3, <1>4

LEMMA HandoverCalls ==
  ASSUME HandoverInv, QueueInv, NEW r \in Req, Refuse(r) \/ Accept(r) \/ Reply(r)
  PROVE  HandoverInv'
<1>1. CASE Refuse(r)
  <2>1. /\ call[r] = "none" /\ call' = [call EXCEPT ![r] = "refused"]
        /\ UNCHANGED <<arrived, finished, active, waiting, pc, phase, loop,
                       delivered, answers, events, woken>>
    BY <1>1 DEF Refuse, vars, inputs, results, queues, lifecycle
  <2> QED BY <2>1 DEF HandoverInv, HasWork
<1>2. CASE Accept(r)
  <2>1. /\ r \notin arrived /\ arrived' = arrived \cup {r} /\ pc = "idle"
        /\ UNCHANGED <<finished, pc>>
    BY <1>2 DEF Accept, AddRequest, results
  <2>2. /\ call[r] = "none" /\ call' = [call EXCEPT ![r] = "waiting"]
        /\ events' = events \cup {r}
        /\ loop = "sleeping" /\ phase \in {"serving", "draining"}
        /\ UNCHANGED <<phase, loop, delivered, answers, woken>>
    BY <1>2 DEF Accept, LoopIsFree, lifecycle
  <2>3. r \notin delivered /\ r \notin woken
    BY <2>1 DEF HandoverInv, QueueInv
  <2> QED BY <2>1, <2>2, <2>3 DEF HandoverInv
<1>3. CASE Reply(r)
  <2>1. /\ call[r] = "waiting" /\ r \in woken
        /\ events' = events \ {r} /\ answers' = answers \ {r}
        /\ call' = [call EXCEPT ![r] = Answer(r)]
        /\ UNCHANGED <<arrived, finished, active, waiting, pc, phase, loop,
                       delivered, woken>>
    BY <1>3 DEF Reply, Forget, vars, inputs, results, queues, lifecycle
  <2>2. Answer(r) \in {"ok", "error"}
    BY DEF Answer
  <2> QED BY <2>1, <2>2 DEF HandoverInv, HasWork
<1> QED BY <1>1, <1>2, <1>3

LEMMA HandoverOthers ==
  ASSUME HandoverInv, StartEngine \/ Shutdown \/ Drain \/ Probe
  PROVE  HandoverInv'
<1>1. UNCHANGED <<vars, delivered, handlers>>
  BY DEF StartEngine, Shutdown, Drain, DrainWaits, DrainEnds, DrainGivesUp,
         Probe, Dispatch, ReadStats, ReadReady, Respond
<1>2. UNCHANGED <<arrived, finished, active, waiting, pc,
                  delivered, answers, events, woken, call>>
  BY <1>1 DEF vars, inputs, results, queues, handlers
<1>3. CASE StartEngine
  BY <1>2, <1>3 DEF StartEngine, HandoverInv, HasWork
<1>4. CASE Shutdown
  BY <1>2, <1>4 DEF Shutdown, LoopIsFree, HandoverInv, HasWork
<1>5. CASE Drain
  BY <1>2, <1>5 DEF Drain, DrainWaits, DrainEnds, DrainGivesUp, Drained,
       LoopIsFree, HandoverInv, HasWork
<1>6. CASE Probe
  <2>1. UNCHANGED <<phase, loop>>
    BY <1>6 DEF Probe, Dispatch, ReadStats, ReadReady, Respond, lifecycle
  <2> QED BY <1>2, <2>1 DEF HandoverInv, HasWork
<1> QED BY <1>3, <1>4, <1>5, <1>6

LEMMA HandoverInit == WorkerInit => HandoverInv
BY EmptyElements DEF WorkerInit, Init, HandoverInv

LEMMA HandoverNext ==
  ASSUME HandoverInv, TypeOK, QueueInv, [WorkerNext]_workerVars
  PROVE  HandoverInv'
<1>1. CASE UNCHANGED workerVars
  BY <1>1 DEF HandoverInv, HasWork, workerVars, vars, inputs, results, queues,
       lifecycle, handlers
<1>2. CASE WorkerNext
  BY <1>2, HandoverEngine, HandoverCalls, HandoverOthers DEF WorkerNext, EngineLoop
<1> QED BY <1>1, <1>2

\* The invariant of the hand-over, for any number of calls and any engine.
THEOREM HandoverCorrect == WorkerSpec => []HandoverInv
<1>1. EngineInv => QueueInv
  BY DEF EngineInv
<1>2. HandoverInv /\ TypeOK /\ QueueInv /\ [WorkerNext]_workerVars => HandoverInv'
  BY HandoverNext
<1> QED
  BY <1>1, <1>2, HandoverInit, WorkerRunsEngine, TypeCorrect, EngineCorrect, PTL
  DEF WorkerSpec

\* The dictionaries hold what the calls in progress need and nothing else.
THEOREM NothingIsRetained == WorkerSpec => []NothingRetained
<1>1. HandoverInv => NothingRetained
  BY DEF HandoverInv, NothingRetained
<1> QED BY <1>1, HandoverCorrect, PTL

\* A drain that ends before its bound has handed over every accepted request,
\* though it looks at the queue and the batch only.
THEOREM DrainLeavesNobody == WorkerSpec => []DrainedIsQuiet
<1>1. TypeOK /\ QueueInv /\ HandoverInv => DrainedIsQuiet
  <2> SUFFICES ASSUME TypeOK, QueueInv, HandoverInv, phase = "stopped"
               PROVE  arrived \subseteq delivered /\ arrived \cap events \subseteq woken
    BY DEF DrainedIsQuiet
  <2>1. active = <<>> /\ waiting = <<>> /\ ToSet(finished) \subseteq delivered
    BY DEF HandoverInv, HasWork
  <2>2. arrived = ToSet(finished)
    BY <2>1, EmptyElements DEF QueueInv
  <2> QED BY <2>1, <2>2 DEF HandoverInv
<1>2. EngineInv => QueueInv
  BY DEF EngineInv
<1> QED
  BY <1>1, <1>2, HandoverCorrect, WorkerRunsEngine, TypeCorrect, EngineCorrect, PTL

-----------------------------------------------------------------------------
(* Readiness *)

\* The retire loop keeps no more than it has passed.
KeptBound ==
  pc = "retire" => Len(still_active) < i /\ i <= Len(active) + 1

\* While a probe is in progress, `once' has noted every moment with room; and
\* once it has seen a free slot, there was room since, or a slot was taken for
\* nothing, or there still is a free slot: the admission that takes it needs a
\* block, unless it is the one that `unpaid' notes.
ProbeInv ==
  /\ KeptBound
  /\ probe # "idle" /\ HasRoom => once
  /\ seen \in Seq(BOOLEAN) \/ probe \notin {"check", "reason"}
  /\ probe \in {"check", "reason"} =>
       Len(seen) < 2 \/ (Len(seen) = 2 /\ (once \/ unpaid \/ Len(active) < MaxActive))
  /\ ReadyIsLinearizable

LEMMA AdmissionHasRoom ==
  ASSUME TypeOK, Admit
  PROVE  HasRoom \/ TakesOnlyASlot
<1> DEFINE r == Head(waiting)
           n == AllIds(r)
<1>1. /\ waiting # <<>> /\ Len(active) < MaxActive
      /\ BlocksNeeded(n) <= free_blocks
      /\ active' = Append(active, r) /\ free_blocks' = free_blocks - BlocksNeeded(n)
  BY DEF Admit, CanAdmit
<1>2. r \in Req
  BY <1>1, TailElements DEF TypeOK, QueuesOK
<1>3. Len(active') > Len(active)
  BY <1>1, <1>2, LenProperties, AppendProperties DEF TypeOK, QueuesOK
<1> HIDE DEF r
<1>4. n \in Nat
  BY <1>2 DEF TypeOK, InputsOK, TokensOK, AllIds
<1> HIDE DEF n
<1>5. BlocksNeeded(n) \in Nat
  BY <1>4, ConfigAssumption DEF BlocksNeeded
<1>6. CASE BlocksNeeded(n) > 0
  BY <1>1, <1>5, <1>6 DEF HasRoom, TypeOK, BlocksOK
<1>7. CASE BlocksNeeded(n) = 0
  BY <1>1, <1>3, <1>7 DEF TakesOnlyASlot, TypeOK, BlocksOK
<1> QED BY <1>5, <1>6, <1>7

\* What a step does to the batch, and to the loop that rebuilds it.
LEMMA BatchShrinks ==
  ASSUME TypeOK, QueueInv, BatchInv, KeptBound, Step
  PROVE  /\ UNCHANGED inputs
         /\ Admit \/ Len(active') <= Len(active)
         /\ KeptBound'
<1> USE DEF KeptBound
<1>0. /\ Len(active) \in Nat /\ Len(still_active) \in Nat
      /\ i \in Nat /\ active \in Seq(Req) /\ still_active \in Seq(Req)
      /\ pc # "retire" => Len(still_active) = 0
  BY LenProperties DEF TypeOK, QueuesOK, ListsOK, ControlOK, QueueInv
<1>1. ASSUME NEW r \in Req, Retire(r)
      PROVE  UNCHANGED <<inputs, active>> /\ KeptBound'
  <2>1. UNCHANGED <<inputs, active, pc>> /\ i' = i + 1 /\ pc = "retire"
        /\ i <= Len(active)
    BY <1>1 DEF Retire, RetireFailed, RetireDone, RetireKeep, AtRetire, queues
  <2>2. still_active' = still_active \/ still_active' = Append(still_active, r)
    BY <1>1 DEF Retire, RetireFailed, RetireDone, RetireKeep, locals
  <2>3. Len(still_active') <= Len(still_active) + 1 /\ Len(still_active') \in Nat
    BY <1>0, <2>2
  <2> QED BY <1>0, <2>1, <2>3
<1>2. CASE RetireEnd
  BY <1>0, <1>2 DEF RetireEnd
<1>3. ASSUME NEW r \in Req, Prefill(r)
      PROVE  UNCHANGED <<inputs, active>> /\ pc' # "retire"
  BY <1>3 DEF Prefill, PrefillSkip, PrefillRaise, PrefillResume, PrefillFresh,
       AtPrefill, queues
<1>4. CASE Begin \/ AdmitEnd \/ PrefillEnd \/ Collect
  BY <1>4 DEF Begin, AdmitEnd, PrefillEnd, Collect, queues
<1>5. CASE CollectEnd \/ DecodeRaise \/ RecordRaise \/ RecordEnd
  <2>1. UNCHANGED <<inputs, active, still_active>> /\ pc # "retire" /\ i' = 1
    BY <1>5 DEF CollectEnd, DecodeRaise, RecordRaise, RecordEnd, queues, locals,
         BatchInv
  <2> QED BY <1>0, <2>1
<1>6. CASE DecodeBatch \/ Record \/ StillFits \/ Charge
  BY <1>6 DEF DecodeBatch, Record, StillFits, Charge, Return, Reserving, queues
<1>7. CASE Admit
  BY <1>7 DEF Admit
<1>8. CASE Preempt
  <2>1. PICK k \in Victims : active' = RemoveAt(active, k)
    BY <1>8 DEF Preempt
  <2>2. k \in 1..Len(active)
    BY <1>0, <2>1 DEF Victims
  <2>3. Len(active') <= Len(active)
    BY <1>0, <2>1, <2>2, RemoveAtElements DEF QueueInv
  <2> QED BY <1>8, <2>3 DEF Preempt, Reserving
<1> QED BY <1>0, <1>1, <1>2, <1>3, <1>4, <1>5, <1>6, <1>7, <1>8 DEF Step

LEMMA ProbeInit == WorkerInit => ProbeInv
BY DEF WorkerInit, Init, ProbeInv, KeptBound, ReadyIsLinearizable

\* The engine moves on while a probe is in progress.
LEMMA ProbeEngine ==
  ASSUME TypeOK, QueueInv, ProbeInv, UNCHANGED probing, Watched,
         KeptBound',
         Len(active') <= Len(active) \/ HasRoom \/ TakesOnlyASlot
  PROVE  ProbeInv'
<1>1. UNCHANGED <<probe, seen>>
  BY DEF probing
<1>2. /\ probe # "idle" => (once' <=> once \/ HasRoom')
      /\ probe # "idle" => (unpaid' <=> unpaid \/ TakesOnlyASlot)
  BY DEF Watched
<1>3. probe # "idle" /\ Len(active) < MaxActive
        => once' \/ unpaid' \/ Len(active') < MaxActive
  <2>1. Len(active) \in Nat /\ Len(active') \in Nat /\ MaxActive \in Nat
    BY LenProperties, ConfigAssumption DEF TypeOK, QueuesOK
  <2> QED BY <1>2, <2>1 DEF ProbeInv
<1>4. probe # "idle" => (once => once') /\ (unpaid => unpaid')
  BY <1>2
<1>5. /\ probe' # "idle" /\ HasRoom' => once'
      /\ ReadyIsLinearizable'
  BY <1>1, <1>2, <1>4 DEF ProbeInv, ReadyIsLinearizable
<1>6. probe' \in {"check", "reason"} =>
        \/ Len(seen') < 2
        \/ Len(seen') = 2 /\ (once' \/ unpaid' \/ Len(active') < MaxActive)
  BY <1>1, <1>3, <1>4 DEF ProbeInv
<1> QED BY <1>1, <1>5, <1>6 DEF ProbeInv

LEMMA ProbeReads ==
  ASSUME TypeOK, ProbeInv, Probe
  PROVE  ProbeInv'
<1>1. UNCHANGED vars
  BY DEF Probe, Dispatch, ReadStats, ReadReady, Respond
<1>2. KeptBound' /\ (HasRoom' <=> HasRoom) /\ UNCHANGED active
  BY <1>1 DEF ProbeInv, KeptBound, HasRoom, vars, queues,
       blocks, locals
<1>3. CASE Dispatch
  BY <1>2, <1>3 DEF Dispatch, ProbeInv, ReadyIsLinearizable
<1>4. CASE Respond
  BY <1>2, <1>4 DEF Respond, ProbeInv, ReadyIsLinearizable
<1>5. CASE ReadStats
  BY <1>2, <1>5 DEF ReadStats, ProbeInv, ReadyIsLinearizable, watch
<1>6. CASE ReadReady
  <2> DEFINE n == Len(seen) + 1
  <2>1. /\ probe \in {"check", "reason"} /\ UNCHANGED <<once, unpaid>>
        /\ n \in {1, 2, 3} /\ Len(seen) \in Nat
    <3>1. probe \in {"check", "reason"} /\ UNCHANGED <<once, unpaid>>
      BY <1>6 DEF ReadReady, watch
    <3>2. seen \in Seq(BOOLEAN)
      BY <3>1 DEF ProbeInv
    <3>3. Len(seen) \in Nat
      BY <3>2, LenProperties
    <3>4. Len(seen) < 2 \/ Len(seen) = 2
      BY <3>1 DEF ProbeInv
    <3>5. \A k \in Nat : k < 2 \/ k = 2 => k + 1 \in {1, 2, 3}
      OBVIOUS
    <3>6. n \in {1, 2, 3}
      BY <3>3, <3>4, <3>5, Zenon
    <3> QED BY <3>1, <3>3, <3>6
  <2>2. /\ Len(Tests) = 3
        /\ Tests[2] <=> Len(active) >= MaxActive
        /\ Tests[3] <=> free_blocks <= 0
    <3>1. \A a, b, c : Len(<<a, b, c>>) = 3 /\ <<a, b, c>>[2] = b /\ <<a, b, c>>[3] = c
      OBVIOUS
    <3>2. \A a, b : <<a, b>>[1] = a /\ <<a, b>>[2] = b
      OBVIOUS
    <3>3. Tests[2] = IsOverloaded[1] /\ Tests[3] = IsOverloaded[2] /\ Len(Tests) = 3
      BY <3>1, Zenon DEF Tests
    <3>4. /\ IsOverloaded[1] = (Len(active) >= MaxActive)
          /\ IsOverloaded[2] = (free_blocks <= 0)
      BY <3>2, Zenon DEF IsOverloaded
    <3> QED BY <3>3, <3>4, Zenon
  <2>3. CASE Tests[n]
    <3>1. probe' \in {"reason", "draining", "overloaded"} /\ seen' = <<>>
      BY <1>6, <2>1, <2>3 DEF ReadReady
    <3> QED BY <1>2, <2>1, <3>1 DEF ProbeInv, ReadyIsLinearizable
  <2>4. CASE ~Tests[n] /\ n < 3
    <3>1. n # Len(Tests)
      BY <2>1, <2>2, <2>4
    <3>2. probe' = probe /\ seen' = Append(seen, FALSE)
      BY <1>6, <2>4, <3>1, Zenon DEF ReadReady
    <3>3. seen' \in Seq(BOOLEAN) /\ Len(seen') = n
      BY <2>1, <3>2, AppendProperties DEF ProbeInv
    <3>4. n = 2 => Len(active) < MaxActive
      <4>1. n = 2 => ~(Len(active) >= MaxActive)
        BY <2>2, <2>4, Zenon
      <4> QED BY <4>1, ConfigAssumption DEF TypeOK, QueuesOK
    <3>5. n < 2 \/ n = 2
      BY <2>1, <2>4
    <3> HIDE DEF n
    <3> QED BY <1>2, <2>1, <3>2, <3>3, <3>4, <3>5 DEF ProbeInv, ReadyIsLinearizable
  <2>5. CASE ~Tests[n] /\ n = 3
    <3>1. ~(n < Len(Tests))
      BY <2>2, <2>5
    <3>2. probe' \in {"ready", "starting"} /\ seen' = <<>>
      BY <1>6, <2>5, <3>1, Zenon DEF ReadReady
    <3>3. ~(free_blocks <= 0)
      BY <2>2, <2>5, Zenon
    <3>4. Len(seen) = 2
      <4>1. \A k \in Nat : k + 1 = 3 => k = 2
        OBVIOUS
      <4> QED BY <2>1, <2>5, <4>1, Zenon
    <3>5. once \/ unpaid \/ Len(active) < MaxActive
      <4>1. ~(Len(seen) < 2)
        BY <3>4
      <4> QED BY <2>1, <4>1, Zenon DEF ProbeInv
    <3>6. free_blocks > 0
      BY <3>3 DEF TypeOK, BlocksOK
    <3>7. once \/ unpaid
      BY <2>1, <3>5, <3>6, Zenon DEF ProbeInv, HasRoom
    <3> QED BY <1>2, <2>1, <3>2, <3>7 DEF ProbeInv, ReadyIsLinearizable
  <2> QED BY <2>1, <2>3, <2>4, <2>5
<1> QED BY <1>3, <1>4, <1>5, <1>6 DEF Probe

LEMMA ProbeNext ==
  ASSUME TypeOK, QueueInv, BatchInv, ProbeInv, [WorkerNext]_workerVars
  PROVE  ProbeInv'
<1>1. CASE UNCHANGED workerVars
  BY <1>1 DEF workerVars, vars, queues, blocks, locals, probing, watch,
       ProbeInv, KeptBound, HasRoom, ReadyIsLinearizable
<1>2. CASE Probe
  BY <1>2, ProbeReads
<1>3. ASSUME Step, UNCHANGED probing, Watched
      PROVE  ProbeInv'
  <2>1. /\ UNCHANGED inputs
        /\ Admit \/ Len(active') <= Len(active)
        /\ KeptBound'
    BY <1>3, BatchShrinks DEF ProbeInv
  <2>2. Len(active') <= Len(active) \/ HasRoom \/ TakesOnlyASlot
    BY <2>1, AdmissionHasRoom
  <2> QED BY <1>3, <2>1, <2>2, ProbeEngine
<1>4. CASE EngineWakes \/ EngineSteps
  BY <1>3, <1>4 DEF EngineWakes, EngineSteps, Step
<1>5. ASSUME NEW r \in Req, Accept(r)
      PROVE  ProbeInv'
  <2>1. AddRequest(r) /\ UNCHANGED probing /\ Watched
    BY <1>5 DEF Accept
  <2>2. pc = "idle" /\ UNCHANGED <<pc, active>>
    BY <2>1 DEF AddRequest, locals
  <2>3. Len(active') <= Len(active)
    BY <2>2, LenProperties DEF TypeOK, QueuesOK
  <2> QED BY <2>1, <2>2, <2>3, ProbeEngine DEF KeptBound
<1>6. ASSUME UNCHANGED vars, UNCHANGED probing, Watched
      PROVE  ProbeInv'
  <2>1. KeptBound' /\ UNCHANGED active
    BY <1>6 DEF ProbeInv, KeptBound, vars, queues, locals
  <2>2. Len(active') <= Len(active)
    BY <2>1, LenProperties DEF TypeOK, QueuesOK
  <2> QED BY <1>6, <2>1, <2>2, ProbeEngine
<1>7. CASE StartEngine \/ EngineDelivers \/ EngineSleeps \/ Shutdown
  BY <1>6, <1>7 DEF StartEngine, EngineDelivers, EngineSleeps, Shutdown
<1>8. CASE Drain
  BY <1>6, <1>8 DEF Drain, DrainWaits, DrainEnds, DrainGivesUp
<1>9. ASSUME NEW r \in Req, Refuse(r) \/ Reply(r)
      PROVE  ProbeInv'
  BY <1>6, <1>9 DEF Refuse, Reply
<1> QED
  BY <1>1, <1>2, <1>4, <1>5, <1>7, <1>8, <1>9 DEF WorkerNext, EngineLoop

\* ready answers "ready" (and "starting") only if there were a slot and a block
\* together at some moment of its call, or an empty prompt took a slot meanwhile,
\* though it reads them one after the other on its own thread while step() runs.
THEOREM ReadinessIsTrue == WorkerSpec => []ReadyIsLinearizable
<1>1. EngineInv => QueueInv /\ BatchInv
  BY DEF EngineInv
<1>2. /\ ProbeInv /\ TypeOK /\ QueueInv /\ BatchInv
      /\ [WorkerNext]_workerVars
      => ProbeInv'
  BY ProbeNext
<1>3. ProbeInv => ReadyIsLinearizable
  BY DEF ProbeInv
<1> QED
  BY <1>1, <1>2, <1>3, ProbeInit, WorkerRunsEngine, TypeCorrect, EngineCorrect,
     PTL
  DEF WorkerSpec
-----------------------------------------------------------------------------
(* The type invariant *)

\* The places of the tasks and the probe, and how much the probe has read.
PlacesInv ==
  /\ phase \in {"startup", "serving", "draining", "stopped", "gave_up"}
  /\ rounds \in 0..DrainRounds
  /\ loop \in {"none", "sleeping", "running"}
  /\ probe \in {"idle", "stats", "check", "reason"} \cup ProbeAnswers
  /\ once \in BOOLEAN /\ unpaid \in BOOLEAN

SeenInv ==
  /\ probe = "stats" => seen \in Seq(Int) /\ Len(seen) < 4
  /\ probe \in {"check", "reason"} => seen \in Seq(BOOLEAN) /\ Len(seen) <= 2
  /\ Len(seen) <= 4

LEMMA StatsFieldsType ==
  ASSUME TypeOK
  PROVE  Len(StatsFields) = 4 /\ \A k \in 1..4 : StatsFields[k] \in Int
<1>1. Used \in Int /\ free_blocks \in Int
  BY ConfigAssumption DEF Used, TypeOK, BlocksOK
<1>2. Len(active) \in Int /\ Len(waiting) \in Int
  BY LenProperties DEF TypeOK, QueuesOK
<1>3. \A a, b, c, d \in Int :
        LET t == <<a, b, c, d>> IN Len(t) = 4 /\ \A k \in 1..4 : t[k] \in Int
  OBVIOUS
<1> QED BY <1>1, <1>2, <1>3, Zenon DEF StatsFields

LEMMA PlacesNext ==
  ASSUME PlacesInv, [WorkerNext]_workerVars
  PROVE  PlacesInv'
<1>1. ASSUME Watched PROVE once' \in BOOLEAN /\ unpaid' \in BOOLEAN
  BY <1>1 DEF Watched
<1>2. CASE UNCHANGED workerVars
  BY <1>2 DEF PlacesInv, workerVars, lifecycle, probing, watch
<1>3. CASE StartEngine \/ Shutdown
  BY <1>1, <1>3 DEF StartEngine, Shutdown, PlacesInv, probing
<1>4. CASE EngineLoop
  BY <1>1, <1>4 DEF EngineLoop, EngineWakes, EngineSteps, EngineDelivers,
       EngineSleeps, PlacesInv, lifecycle, probing
<1>5. ASSUME NEW r \in Req, Refuse(r) \/ Accept(r) \/ Reply(r)
      PROVE  PlacesInv'
  BY <1>1, <1>5 DEF Refuse, Accept, Reply, PlacesInv, lifecycle, probing
<1>6. CASE Drain
  <2>1. rounds' \in 0..DrainRounds
    BY <1>6, DrainAssumption DEF Drain, DrainWaits, DrainEnds, DrainGivesUp,
         MoreRounds, NextRound, PlacesInv
  <2> QED BY <1>1, <1>6, <2>1 DEF Drain, DrainWaits, DrainEnds, DrainGivesUp,
            PlacesInv, probing
<1>7. CASE Probe
  <2>1. UNCHANGED <<phase, rounds, loop>> /\ {once', unpaid'} \subseteq BOOLEAN
    BY <1>7 DEF Probe, Dispatch, ReadStats, ReadReady, Respond, lifecycle, watch,
         HasRoom, PlacesInv
  <2>2. probe' \in {"idle", "stats", "check", "reason"} \cup ProbeAnswers
    BY <1>7 DEF Probe, Dispatch, ReadStats, ReadReady, Respond, ProbeAnswers,
         PlacesInv
  <2> QED BY <2>1, <2>2 DEF PlacesInv
<1> QED BY <1>2, <1>3, <1>4, <1>5, <1>6, <1>7 DEF WorkerNext

LEMMA EmptySeen ==
  ASSUME NEW s, s = <<>>
  PROVE  /\ s \in Seq(Int) /\ s \in Seq(BOOLEAN)
         /\ Len(s) < 4 /\ Len(s) <= 2 /\ Len(s) <= 4
OBVIOUS

LEMMA SeenNext ==
  ASSUME TypeOK, SeenInv, [WorkerNext]_workerVars
  PROVE  SeenInv'
<1>1. CASE UNCHANGED probing
  BY <1>1 DEF SeenInv, probing
<1>2. CASE Dispatch \/ Respond
  BY <1>2, EmptySeen, Zenon DEF Dispatch, Respond, SeenInv
<1>3. CASE ReadStats
  <2>1. /\ probe = "stats" /\ seen' = Append(seen, StatsFields[Len(seen) + 1])
        /\ probe' = IF Len(seen') = Len(StatsFields) THEN "reported" ELSE "stats"
    BY <1>3 DEF ReadStats
  <2>2. seen \in Seq(Int) /\ Len(seen) < 4
    BY <2>1 DEF SeenInv
  <2>3. Len(seen) \in Nat
    BY <2>2, LenProperties
  <2>4. Len(seen) + 1 \in 1..4
    BY <2>2, <2>3
  <2>5. Len(StatsFields) = 4 /\ StatsFields[Len(seen) + 1] \in Int
    BY <2>4, StatsFieldsType
  <2>6. seen' \in Seq(Int) /\ Len(seen') = Len(seen) + 1
    BY <2>1, <2>2, <2>5, AppendProperties
  <2>7. Len(seen') \in Nat /\ Len(seen') <= 4
    BY <2>3, <2>4, <2>6
  <2>8. probe' = "stats" => Len(seen') < 4
    BY <2>1, <2>5, <2>7
  <2>9. probe' \in {"stats", "reported"}
    BY <2>1
  <2> QED BY <2>6, <2>7, <2>8, <2>9 DEF SeenInv
<1>4. CASE ReadReady
  <2>1. probe \in {"check", "reason"} /\ seen \in Seq(BOOLEAN)
    BY <1>4 DEF ReadReady, SeenInv
  <2>2. Len(seen) \in Nat /\ Len(Tests) = 3
    BY <2>1, LenProperties DEF Tests
  <2>3. CASE seen' = <<>>
    <3>1. probe' # "stats"
      BY <1>4 DEF ReadReady
    <3> QED BY <2>3, <3>1 DEF SeenInv
  <2>4. CASE Len(seen) + 1 < Len(Tests) /\ seen' = Append(seen, FALSE) /\ UNCHANGED probe
    <3>1. seen' \in Seq(BOOLEAN) /\ Len(seen') = Len(seen) + 1
      BY <2>1, <2>4, AppendProperties
    <3>2. Len(seen') <= 2
      BY <2>2, <2>4, <3>1
    <3>3. Len(seen') <= 4
      BY <2>2, <3>1, <3>2
    <3> QED BY <2>1, <2>4, <3>1, <3>2, <3>3 DEF SeenInv
  <2> QED BY <1>4, <2>3, <2>4 DEF ReadReady
<1>5. CASE UNCHANGED workerVars
  BY <1>1, <1>5 DEF workerVars
<1>6. CASE StartEngine \/ Shutdown \/ EngineLoop \/ Drain
  BY <1>1, <1>6 DEF StartEngine, Shutdown, EngineLoop, EngineWakes, EngineSteps,
       EngineDelivers, EngineSleeps, Drain, DrainWaits, DrainEnds, DrainGivesUp
<1>7. ASSUME NEW r \in Req, Refuse(r) \/ Accept(r) \/ Reply(r)
      PROVE  SeenInv'
  BY <1>1, <1>7 DEF Refuse, Accept, Reply
<1> QED BY <1>2, <1>3, <1>4, <1>5, <1>6, <1>7 DEF WorkerNext, Probe

\* The worker keeps its places: the drain counts no further than its bound,
\* the dictionaries hold requests, and no probe reads past its last field.
THEOREM WorkerTypeCorrect == WorkerSpec => []WorkerTypeOK
<1>1. WorkerInit => PlacesInv /\ SeenInv
  <2> SUFFICES ASSUME WorkerInit PROVE PlacesInv /\ SeenInv
    OBVIOUS
  <2>1. SeenInv
    BY EmptySeen, Zenon DEF WorkerInit, SeenInv
  <2>2. rounds \in 0..DrainRounds
    BY DrainAssumption DEF WorkerInit
  <2> QED BY <2>1, <2>2, Zenon DEF WorkerInit, PlacesInv
<1>2. TypeOK /\ PlacesInv /\ SeenInv /\ [WorkerNext]_workerVars
        => (PlacesInv /\ SeenInv)'
  BY PlacesNext, SeenNext
<1>3. TypeOK /\ HandoverInv /\ PlacesInv /\ SeenInv => WorkerTypeOK
  <2> SUFFICES ASSUME TypeOK, HandoverInv, PlacesInv, SeenInv PROVE WorkerTypeOK
    OBVIOUS
  <2>1. ToSet(finished) \subseteq Req
    BY ElementsByIndex DEF TypeOK, ResultsOK
  <2>2. /\ delivered \subseteq Req /\ answers \subseteq Req
        /\ events \subseteq Req /\ woken \subseteq Req
    BY <2>1 DEF HandoverInv
  <2>3. Len(seen) <= Len(StatsFields)
    BY StatsFieldsType DEF SeenInv
  <2> QED BY <2>2, <2>3 DEF PlacesInv, HandoverInv, WorkerTypeOK
<1> QED
  BY <1>1, <1>2, <1>3, WorkerRunsEngine, TypeCorrect, HandoverCorrect, PTL
  DEF WorkerSpec

-----------------------------------------------------------------------------
(* The worker implements RequestService towards the client of a call *)

LEMMA CallSeesNothing ==
  ASSUME UNCHANGED <<generated, max_new_tokens>>,
         \A r \in Req : CallStatus(r)' = CallStatus(r)
  PROVE  UNCHANGED AtClient!vars
BY DEF AtClient!vars

\* The token goes to a request whose call still waits.
LEMMA CallGetsToken ==
  ASSUME HandoverInv, NEW r \in Req, Service!Emit(r), UNCHANGED call
  PROVE  AtClient!Emit(r)
<1>1. /\ Status(r) = "pending"
      /\ generated[r] < max_new_tokens[r] \/ generated[r] = 0
      /\ generated' = [generated EXCEPT ![r] = @ + 1]
      /\ max_new_tokens' = max_new_tokens
  BY DEF Service!Emit
<1>2. r \in arrived /\ r \notin ToSet(finished)
  BY <1>1 DEF Status
<1>3. call[r] = "waiting"
  BY <1>2 DEF HandoverInv
<1>4. CallStatus(r) = "pending" /\ \A q \in Req : CallStatus(q)' = CallStatus(q)
  BY <1>3 DEF CallStatus
<1> QED BY <1>1, <1>4 DEF AtClient!Emit

LEMMA CallDuringStep ==
  ASSUME TypeOK, EngineInv, ServiceInv, HandoverInv, Step, UNCHANGED call
  PROVE  [AtClient!Next]_(AtClient!vars)
<1>0. QueueInv /\ BatchInv /\ CacheInv
  BY DEF EngineInv
<1>1. ASSUME NEW r \in Req, PrefillFresh(r)
      PROVE  AtClient!Next
  BY <1>0, <1>1, ClientGetsFirst, CallGetsToken DEF AtClient!Next
<1>2. CASE Record
  <2>1. PICK r : r = decoding[i]
    OBVIOUS
  <2> QED BY <1>0, <1>2, <2>1, ClientGetsNext, CallGetsToken DEF AtClient!Next
<1>3. CASE generated' = generated
  <2>1. max_new_tokens' = max_new_tokens
    BY FinishedGrows DEF inputs
  <2>2. \A r \in Req : CallStatus(r)' = CallStatus(r)
    BY DEF CallStatus
  <2> QED BY <1>3, <2>1, <2>2, CallSeesNothing
<1> QED BY <1>1, <1>2, <1>3, WhoGenerates DEF Next

LEMMA CallSubmits ==
  ASSUME TypeOK, HandoverInv, NEW r \in Req, Accept(r)
  PROVE  AtClient!Submit(r)
<1>1. /\ call[r] = "none" /\ call' = [call EXCEPT ![r] = "waiting"]
      /\ generated' = generated
  BY DEF Accept, AddRequest, tokens
<1>2. \E n \in MaxNews : max_new_tokens' = [max_new_tokens EXCEPT ![r] = n]
  BY DEF Accept, AddRequest
<1>3. call'[r] = "waiting" /\ \A q \in Req \ {r} : call'[q] = call[q]
  BY <1>1 DEF HandoverInv
<1>4. CallStatus(r) = "absent" /\ CallStatus(r)' = "pending"
  BY <1>1, <1>3 DEF CallStatus
<1>5. \A q \in Req \ {r} : CallStatus(q)' = CallStatus(q)
  BY <1>3 DEF CallStatus
<1> QED BY <1>1, <1>2, <1>4, <1>5 DEF AtClient!Submit

\* The reply tells the outcome of a finished request, which has its tokens.
LEMMA CallIsAnswered ==
  ASSUME TypeOK, ServiceInv, HandoverInv, NEW r \in Req, Reply(r)
  PROVE  AtClient!Complete(r) \/ AtClient!Fail(r)
<1>1. /\ call[r] = "waiting" /\ call' = [call EXCEPT ![r] = Answer(r)]
      /\ UNCHANGED <<generated, max_new_tokens>> /\ r \in woken
  BY DEF Reply, vars, inputs, tokens
<1>2. r \in failed \/ generated[r] >= max_new_tokens[r]
  BY <1>1 DEF HandoverInv, ServiceInv, IsDone
<1>3. call'[r] = Answer(r) /\ \A q \in Req \ {r} : call'[q] = call[q]
  BY <1>1 DEF HandoverInv
<1>4. /\ CallStatus(r) = "pending"
      /\ CallStatus(r)' = IF r \in failed THEN "failed" ELSE "completed"
  BY <1>1, <1>3 DEF CallStatus, Answer
<1>5. \A q \in Req \ {r} : CallStatus(q)' = CallStatus(q)
  BY <1>3 DEF CallStatus
<1> QED BY <1>1, <1>2, <1>4, <1>5 DEF AtClient!Complete, AtClient!Fail

LEMMA CallStep ==
  ASSUME TypeOK, EngineInv, ServiceInv, HandoverInv, [WorkerNext]_workerVars
  PROVE  [AtClient!Next]_(AtClient!vars)
<1>1. ASSUME UNCHANGED <<vars, call>>
      PROVE  UNCHANGED AtClient!vars
  BY <1>1, CallSeesNothing DEF vars, inputs, tokens, CallStatus
<1>2. CASE UNCHANGED workerVars
  BY <1>1, <1>2 DEF workerVars, handlers
<1>3. CASE StartEngine \/ EngineDelivers \/ EngineSleeps \/ Shutdown
  BY <1>1, <1>3 DEF StartEngine, EngineDelivers, EngineSleeps, Shutdown, handlers
<1>4. CASE Drain \/ Probe
  BY <1>1, <1>4 DEF Drain, DrainWaits, DrainEnds, DrainGivesUp, Probe, Dispatch,
       ReadStats, ReadReady, Respond, handlers
<1>5. CASE EngineWakes \/ EngineSteps
  BY <1>5, CallDuringStep DEF EngineWakes, EngineSteps, Step, handlers
<1>6. ASSUME NEW r \in Req, Refuse(r)
      PROVE  UNCHANGED AtClient!vars
  <2>1. /\ call[r] = "none" /\ call' = [call EXCEPT ![r] = "refused"]
        /\ UNCHANGED <<generated, max_new_tokens>>
    BY <1>6 DEF Refuse, vars, inputs, tokens
  <2>2. call'[r] = "refused" /\ \A q \in Req \ {r} : call'[q] = call[q]
    BY <2>1 DEF HandoverInv
  <2>3. \A q \in Req : CallStatus(q)' = CallStatus(q)
    BY <2>1, <2>2 DEF CallStatus
  <2> QED BY <2>1, <2>3, CallSeesNothing
<1>7. ASSUME NEW r \in Req, Accept(r) \/ Reply(r)
      PROVE  AtClient!Next
  BY <1>7, CallSubmits, CallIsAnswered DEF AtClient!Next
<1> QED
  BY <1>2, <1>3, <1>4, <1>5, <1>6, <1>7 DEF WorkerNext, EngineLoop

\* End to end: whatever the event loop, the engine, a shutdown and the probes
\* do, a call is answered once, after its last token, with the outcome of its
\* own request; and a success carries all the tokens asked for.
THEOREM WorkerImplementsService == WorkerSpec => ImplementsServiceAtClient
<1>1. WorkerInit => AtClient!Init
  <2> SUFFICES ASSUME WorkerInit PROVE AtClient!Init
    OBVIOUS
  <2>1. \A r \in Req : CallStatus(r) = "absent"
    BY DEF WorkerInit, CallStatus
  <2> QED BY <2>1 DEF WorkerInit, Init, AtClient!Init
<1>2. TypeOK /\ EngineInv /\ ServiceInv /\ HandoverInv /\ [WorkerNext]_workerVars
        => [AtClient!Next]_(AtClient!vars)
  BY CallStep
<1> QED
  BY <1>1, <1>2, WorkerRunsEngine, TypeCorrect, EngineCorrect, ServiceCorrect,
     HandoverCorrect, PTL
  DEF WorkerSpec, AtClient!Spec, ImplementsServiceAtClient
=============================================================================
