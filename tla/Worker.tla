------------------------------- MODULE Worker -------------------------------
(***************************************************************************)
(* The HTTP worker of src/src/vkllm/server.py around the engine of         *)
(* Scheduler.tla.                                                          *)
(*                                                                         *)
(* One thread runs the asyncio event loop.  Its tasks are engine_loop, one *)
(* generate coroutine per call, and stop_engine; a task keeps the thread   *)
(* until it awaits, so the others move only while engine_loop sleeps.  The *)
(* plain functions ready and stats run on threads of a pool: a call is     *)
(* dispatched by the event loop, and from then on its reads of the         *)
(* scheduler fall anywhere, in the middle of step() too.                   *)
(*                                                                         *)
(* scheduler.finished, a history of answers in Scheduler.tla, is here the  *)
(* list of the requests that engine_loop has not popped: Undelivered.      *)
(***************************************************************************)
EXTENDS Scheduler

CONSTANT DrainRounds     \* rounds of the bounded wait of stop_engine

ASSUME DrainAssumption == DrainRounds \in Nat

VARIABLES
  phase,      \* startup, serving, draining, stopped, or gave_up: the flags
              \*   of _state, and how stop_engine ended
  rounds,     \* rounds of the wait of stop_engine so far
  loop,       \* engine_loop: before its task exists, sleeping, or running
  delivered,  \* requests popped from scheduler.finished
  answers,    \* keys of _results
  events,     \* keys of _done_events
  woken,      \* requests whose event is set
  call,       \* what became of the client's POST /generate
  probe,      \* the call of /ready or /stats, and its answer
  seen,       \* what that call has read so far
  once,       \* history: the engine had room at a moment of that call
  unpaid      \* history: a request without a token was admitted during that
              \*   call, which takes a slot and no block

handlers == <<answers, events, woken, call>>
lifecycle == <<phase, rounds>>
probing == <<probe, seen>>
watch == <<once, unpaid>>

workerVars == <<vars, lifecycle, loop, delivered, handlers, probing, watch>>

-----------------------------------------------------------------------------
(* The engine as its readers see it *)

\* (bug variant) the blocks are not looked at
IsOverloadedSlotsOnly == <<Len(active) >= MaxActive, FALSE>>

\* is_overloaded: two reads, in this order, of which one suffices.
IsOverloaded == <<Len(active) >= MaxActive, free_blocks <= 0>>

Draining == phase # "serving"

\* Room for another request, at one moment.
HasRoom == Len(active) < MaxActive /\ free_blocks > 0

\* A step that fills a slot and charges nothing.
TakesOnlyASlot == Len(active') > Len(active) /\ free_blocks' = free_blocks

\* The reads of stats in the order of its source: used, active, waiting and
\* blocks_free.
StatsFields == <<Used, Len(active), Len(waiting), free_blocks>>

\* The requests in scheduler.finished, by their place in the history.
Undelivered == {k \in DOMAIN finished : finished[k] \notin delivered}

\* Every action but the ones of the probe itself: what the probe may see.
Watched ==
  /\ once' = (probe # "idle" /\ (once \/ HasRoom'))
  /\ unpaid' = (probe # "idle" /\ (unpaid \/ TakesOnlyASlot))

\* The tasks of the event loop, engine_loop apart, run while it sleeps.
LoopIsFree == loop = "sleeping" /\ phase \in {"serving", "draining"}

-----------------------------------------------------------------------------
WorkerInit ==
  /\ Init
  /\ phase = "startup" /\ rounds = 0
  /\ loop = "none"
  /\ delivered = {} /\ answers = {} /\ events = {} /\ woken = {}
  /\ call = [r \in Req |-> "none"]
  /\ probe = "idle" /\ seen = <<>> /\ once = FALSE /\ unpaid = FALSE

\* start_engine; the server accepts no connection before it has returned.
StartEngine ==
  /\ phase = "startup"
  /\ phase' = "serving" /\ loop' = "sleeping"
  /\ UNCHANGED <<vars, rounds, delivered, handlers, probing>>
  /\ Watched

(* engine_loop *)

\* It wakes, finds work and calls step().
EngineWakes ==
  /\ LoopIsFree
  /\ Begin
  /\ loop' = "running"
  /\ UNCHANGED <<lifecycle, delivered, handlers, probing>>
  /\ Watched

\* step() runs, up to its end.
EngineSteps ==
  /\ loop = "running" /\ pc # "idle"
  /\ Step
  /\ UNCHANGED <<lifecycle, loop, delivered, handlers, probing>>
  /\ Watched

\* (bug variant) only the calls that succeeded are woken
WakesCompleted(r) == IF r \in events /\ r \notin failed THEN {r} ELSE {}

\* The event that is set for a request that has an answer.
Wakes(r) == IF r \in events THEN {r} ELSE {}

\* finished.pop(): last in, first out.
EngineDelivers ==
  /\ loop = "running" /\ pc = "idle"
  /\ \E k \in Undelivered :
       /\ \A other \in Undelivered : other <= k
       /\ delivered' = delivered \cup {finished[k]}
       /\ answers' = answers \cup {finished[k]}
       /\ woken' = woken \cup Wakes(finished[k])
  /\ UNCHANGED <<vars, lifecycle, loop, events, call, probing>>
  /\ Watched

EngineSleeps ==
  /\ loop = "running" /\ pc = "idle" /\ Undelivered = {}
  /\ loop' = "sleeping"
  /\ UNCHANGED <<vars, lifecycle, delivered, handlers, probing>>
  /\ Watched

(* generate *)

\* A call is refused while the worker drains.
Refuse(r) ==
  /\ LoopIsFree /\ Draining /\ call[r] = "none"
  /\ call' = [call EXCEPT ![r] = "refused"]
  /\ UNCHANGED <<vars, lifecycle, loop, delivered, answers, events, woken,
                 probing>>
  /\ Watched

\* Otherwise its request is built and submitted, and it waits for its event.
Accept(r) ==
  /\ LoopIsFree /\ ~Draining /\ call[r] = "none"
  /\ AddRequest(r)
  /\ events' = events \cup {r}
  /\ call' = [call EXCEPT ![r] = "waiting"]
  /\ UNCHANGED <<lifecycle, loop, delivered, answers, woken, probing>>
  /\ Watched

\* (bug variant) an error is answered like a success
AnswerOk(r) == "ok"

\* The answer for a request that is finished.
Answer(r) == IF r \in failed THEN "error" ELSE "ok"

\* (bug variant) the result stays behind
ForgetEvent(r) == events' = events \ {r} /\ UNCHANGED answers

\* Both entries of a call are removed when it goes on.
Forget(r) == events' = events \ {r} /\ answers' = answers \ {r}

Reply(r) ==
  /\ LoopIsFree /\ call[r] = "waiting" /\ r \in woken
  /\ Forget(r)
  /\ call' = [call EXCEPT ![r] = Answer(r)]
  /\ UNCHANGED <<vars, lifecycle, loop, delivered, woken, probing>>
  /\ Watched

(* stop_engine *)

Shutdown ==
  /\ LoopIsFree /\ phase = "serving"
  /\ phase' = "draining"
  /\ UNCHANGED <<vars, rounds, loop, delivered, handlers, probing>>
  /\ Watched

\* (bug variant) queued requests are not waited for
DrainedActive == active = <<>>

\* The test of each round of the wait.
Drained == ~HasWork

\* (bug variant) one round too many
OneMoreRound == rounds <= DrainRounds

\* for _ in range(1000), before a round
MoreRounds == rounds < DrainRounds

\* (bug variant) the wait has no bound
SameRound(n) == n

\* The next round.
NextRound(n) == n + 1

DrainWaits ==
  /\ LoopIsFree /\ phase = "draining"
  /\ MoreRounds /\ ~Drained
  /\ rounds' = NextRound(rounds)
  /\ UNCHANGED <<vars, phase, loop, delivered, handlers, probing>>
  /\ Watched

DrainEnds ==
  /\ LoopIsFree /\ phase = "draining"
  /\ MoreRounds /\ Drained
  /\ phase' = "stopped"
  /\ UNCHANGED <<vars, rounds, loop, delivered, handlers, probing>>
  /\ Watched

DrainGivesUp ==
  /\ LoopIsFree /\ phase = "draining"
  /\ ~MoreRounds
  /\ phase' = "gave_up"
  /\ UNCHANGED <<vars, rounds, loop, delivered, handlers, probing>>
  /\ Watched

-----------------------------------------------------------------------------
(* ready and stats *)

\* A probe is dispatched: the event loop is free at that moment.
Dispatch ==
  /\ LoopIsFree /\ probe = "idle"
  /\ probe' \in {"stats", "check"}
  /\ seen' = <<>>
  /\ once' = HasRoom /\ unpaid' = FALSE
  /\ UNCHANGED <<vars, lifecycle, loop, delivered, handlers>>

ReadStats ==
  /\ probe = "stats"
  /\ seen' = Append(seen, StatsFields[Len(seen) + 1])
  /\ probe' = IF Len(seen') = Len(StatsFields) THEN "reported" ELSE "stats"
  /\ UNCHANGED <<vars, lifecycle, loop, delivered, handlers, watch>>

\* The tests of ready, each evaluated only if the ones before it are false:
\* first to decide ("check"), and once more to word the reason ("reason").
\* (_state["ready"] is set before the first probe can come.)
Tests == <<Draining, IsOverloaded[1], IsOverloaded[2]>>

ReadReady ==
  /\ probe \in {"check", "reason"}
  /\ LET n == Len(seen) + 1 IN
     \/ Tests[n] /\ probe = "check" /\ probe' = "reason" /\ seen' = <<>>
     \/ /\ Tests[n] /\ probe = "reason"
        /\ probe' = IF n = 1 THEN "draining" ELSE "overloaded"
        /\ seen' = <<>>
     \/ /\ ~Tests[n] /\ n < Len(Tests)
        /\ seen' = Append(seen, FALSE) /\ UNCHANGED probe
     \/ /\ ~Tests[n] /\ n = Len(Tests)
        /\ probe' = IF probe = "check" THEN "ready" ELSE "starting"
        /\ seen' = <<>>
  /\ UNCHANGED <<vars, lifecycle, loop, delivered, handlers, watch>>

\* The event loop sends the answer.
Respond ==
  /\ LoopIsFree
  /\ probe \in {"ready", "draining", "overloaded", "starting", "reported"}
  /\ probe' = "idle" /\ seen' = <<>>
  /\ once' = FALSE /\ unpaid' = FALSE
  /\ UNCHANGED <<vars, lifecycle, loop, delivered, handlers>>

-----------------------------------------------------------------------------
EngineLoop == EngineWakes \/ EngineSteps \/ EngineDelivers \/ EngineSleeps

Drain == DrainWaits \/ DrainEnds \/ DrainGivesUp

Probe == Dispatch \/ ReadStats \/ ReadReady \/ Respond

WorkerNext ==
  \/ StartEngine
  \/ EngineLoop
  \/ \E r \in Req : Refuse(r) \/ Accept(r) \/ Reply(r)
  \/ Shutdown \/ Drain
  \/ Probe

WorkerSpec == WorkerInit /\ [][WorkerNext]_workerVars

\* The event loop runs its ready tasks in turn, and engine_loop gives way
\* after every step: whatever task can go on again and again does go on.
WorkerFairSpec ==
  /\ WorkerSpec
  /\ WF_workerVars(StartEngine)
  /\ SF_workerVars(EngineLoop)
  /\ \A r \in Req : SF_workerVars(Reply(r))
  /\ SF_workerVars(Drain)
-----------------------------------------------------------------------------
(* Properties *)

ProbeAnswers == {"ready", "draining", "overloaded", "starting", "reported"}

\* The type invariant.
WorkerTypeOK ==
  /\ phase \in {"startup", "serving", "draining", "stopped", "gave_up"}
  /\ rounds \in 0..DrainRounds
  /\ loop \in {"none", "sleeping", "running"}
  /\ delivered \subseteq Req /\ answers \subseteq Req
  /\ events \subseteq Req /\ woken \subseteq Req
  /\ call \in [Req -> {"none", "refused", "waiting", "ok", "error"}]
  /\ probe \in {"idle", "stats", "check", "reason"} \cup ProbeAnswers
  /\ Len(seen) <= Len(StatsFields)
  /\ once \in BOOLEAN /\ unpaid \in BOOLEAN

\* What stays in the dictionaries is what calls in progress need: an entry of
\* _results belongs to a call that is about to take it, and nothing is kept
\* of a call that was answered.
NothingRetained ==
  /\ events = {r \in Req : call[r] = "waiting"}
  /\ answers = events \cap woken
  /\ loop = "sleeping" => ToSet(finished) \cap events = answers

\* When the wait of stop_engine ends before its bound, no accepted request is
\* left in a queue, in a batch, or in the list of finished ones: each has its
\* result and its event, though the test of stop_engine looks at two lists.
DrainedIsQuiet ==
  phase = "stopped" =>
    arrived \subseteq delivered /\ arrived \cap events \subseteq woken

\* ready looks at the slots and at the blocks one after the other while the
\* engine moves, twice even.  Still it says "ready", and also "starting", only
\* if there were a slot and a block together at some moment of the call, or if
\* meanwhile an empty prompt took a slot: it needs no block, so that it may be
\* admitted between the two looks when there is none.
ReadyIsLinearizable == probe \in {"ready", "starting"} => once \/ unpaid

\* What the client of a call has seen of it.
CallStatus(r) ==
  CASE call[r] \in {"none", "refused"} -> "absent"
    [] call[r] = "waiting" -> "pending"
    [] call[r] = "ok" -> "completed"
    [] OTHER -> "failed"

AtClient == INSTANCE RequestService WITH
              Limits <- MaxNews,
              status <- [r \in Req |-> CallStatus(r)],
              limit <- max_new_tokens,
              emitted <- generated

\* End to end: a reply reports the outcome of the request, after its last
\* token, and a successful one carries exactly the tokens asked for.
ImplementsServiceAtClient == AtClient!Spec

\* Every accepted call is answered, unless the worker stops first, blocks are
\* charged to a waiting request, or one has outgrown the whole budget.
Answered ==
  [](NoChargeWhileWaiting /\ WaitersFit) =>
    \A r \in Req : call[r] = "waiting" ~>
                     call[r] # "waiting" \/ phase \in {"stopped", "gave_up"}

\* Shutting down comes to an end, whatever the engine is stuck at.
DrainTerminates == phase = "draining" ~> phase \in {"stopped", "gave_up"}

-----------------------------------------------------------------------------
(* What the documentation promises and the code does not keep *)

\* server.py: capacity snapshot.  The blocks reported as free and the ones
\* reported as used are those of one moment.
StatsAreASnapshot == probe = "reported" => seen[1] + seen[4] = TotalBlocks
=============================================================================
