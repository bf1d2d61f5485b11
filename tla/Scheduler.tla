----------------------------- MODULE Scheduler -----------------------------
(***************************************************************************)
(* The continuous-batching engine of src/src/vkllm/scheduler.py: class     *)
(* Request, class Scheduler, and what model.py does to the KV cache of a   *)
(* request when the scheduler calls it.                                    *)
(*                                                                         *)
(* One call of Scheduler.step() is a run of small steps from pc = "idle"   *)
(* back to pc = "idle": each pass of a Python loop is one action, in the   *)
(* order of the source.  The intermediate states are real ones: step()     *)
(* never awaits, but /stats and /ready are served by other threads that    *)
(* read the queues and the block counter in the middle of it.              *)
(*                                                                         *)
(* Data is abstracted to positions.  all_ids is its length, a K/V cache is *)
(* the number of positions it holds, next_token is the position of the     *)
(* token to feed (0-based, as in Python), and whether a generated token is *)
(* the right one is the history variable `corrupt': a token is right when  *)
(* it was computed from the token at its own position and a cache holding  *)
(* exactly the positions before it.                                        *)
(***************************************************************************)
EXTENDS Integers, Sequences, FiniteSets, SequencesExt

CONSTANTS
  Req,          \* the requests that may be submitted
  MaxActive,    \* Scheduler.max_active
  BlockSize,    \* Scheduler.block_size
  TotalBlocks,  \* Scheduler.total_blocks
  PromptLens,   \* lengths of the prompts clients send
  MaxNews,      \* values of max_new_tokens clients send
  BadTokens,    \* positions at which a prompt may hold a token id outside
                \*   the vocabulary ({} for prompts built by the tokenizer)
  Faults        \* model calls that may raise for reasons of their own
                \*   (out of memory...): a subset of
                \*   {"prefill", "decode", "record"}

ASSUME ConfigAssumption ==
  /\ MaxActive \in Nat \ {0}
  /\ BlockSize \in Nat \ {0}
  /\ TotalBlocks \in Nat \ {0}
  /\ PromptLens \subseteq Nat
  /\ MaxNews \subseteq Int
  /\ BadTokens \subseteq Nat
  /\ Faults \subseteq {"prefill", "decode", "record"}

None == -1      \* Python's None for next_token, and "no bad token"

VARIABLES
  \* The constructor arguments of each Request.
  arrived,          \* requests that exist so far
  prompt_len,       \* len(prompt_ids)
  max_new_tokens,
  bad,              \* position of the bad token of the prompt, or None
  \* The fields of each Request; a Boolean field is the set of requests
  \* for which it is True.
  generated,        \* len(generated)
  next_token,       \* position in all_ids of the token to feed next
  cached,           \* positions held by the K/V cache
  prefilled, preempted, failed,
  blocks_held,
  \* The fields of Scheduler.
  waiting, active, finished, free_blocks,
  \* The counters of Scheduler.metrics.
  requests_total, requests_completed, requests_failed, tokens_generated,
  \* Where the call of step() is, and its local variables.
  pc,
  i,                \* position of the running for loop
  cur,              \* the request passed to _reserve_if_grown, or None
  just_prefilled,   \* a list in the source, used only for membership
  decoding,
  still_active,
  \* History, for the properties only.
  corrupt,          \* requests with a token computed from a wrong state
  advanced,         \* requests that recorded a token in this tick
  leaked            \* blocks still charged to a request when it is admitted

inputs   == <<arrived, prompt_len, max_new_tokens, bad>>
tokens   == <<generated, next_token>>
kv       == <<cached, prefilled, preempted>>
blocks   == <<free_blocks, blocks_held>>
queues   == <<waiting, active>>
results  == <<finished, requests_completed, requests_failed, tokens_generated>>
locals   == <<cur, just_prefilled, decoding, still_active>>
history  == <<corrupt, advanced, leaked>>

vars == <<inputs, tokens, kv, failed, blocks, queues, results,
          requests_total, pc, i, locals, history>>

-----------------------------------------------------------------------------
(* class Request *)

AllIds(r) == prompt_len[r] + generated[r]
\* (bug variant) one token too many
IsDoneLate(r) == generated[r] > max_new_tokens[r]
IsDone(r) == generated[r] >= max_new_tokens[r]
PositionOffset(r) == prompt_len[r] + generated[r] - 1

\* record_token: the new token sits at the end of all_ids.
RecordToken(r) ==
  /\ generated' = [generated EXCEPT ![r] = @ + 1]
  /\ next_token' = [next_token EXCEPT ![r] = AllIds(r)]
  /\ advanced' = advanced \cup {r}

\* (bug variant) the old cache is kept
ResetKeepingCache(r) ==
  /\ prefilled' = prefilled \ {r}
  /\ blocks_held' = [blocks_held EXCEPT ![r] = 0]
  /\ preempted' = preempted \cup {r}
  /\ UNCHANGED cached

\* reset_for_resume: a fresh cache and no blocks, but the tokens are kept.
ResetForResume(r) ==
  /\ cached' = [cached EXCEPT ![r] = 0]
  /\ prefilled' = prefilled \ {r}
  /\ blocks_held' = [blocks_held EXCEPT ![r] = 0]
  /\ preempted' = preempted \cup {r}

(* The calls into model.py.  embed() runs before any layer, so a token id  *)
(* outside the vocabulary raises before a cache is touched; the tensor of  *)
(* an empty prompt is not an integer tensor, and raises there as well.     *)

ForwardRaises(r, n) == prompt_len[r] = 0 \/ bad[r] \in 0..(n - 1)

\* forward(all_ids[:n], cache, position_offset=0) appends n positions; the
\* K/V are right only if the cache was empty.
Forward(r, n) ==
  /\ cached' = [cached EXCEPT ![r] = @ + n]
  /\ corrupt' = IF cached[r] = 0 THEN corrupt ELSE corrupt \cup {r}

DecodeRaises(r) == next_token[r] \in {None, bad[r]}

\* What decode_batch needs of a request for its next token to be the right
\* one: fed the token at its own offset, on top of exactly the K/V before it.
DecodeIsExact(r) ==
  /\ next_token[r] = PositionOffset(r)
  /\ cached[r] = PositionOffset(r)

-----------------------------------------------------------------------------
(* class Scheduler *)

BlocksNeeded(n) == (n + BlockSize - 1) \div BlockSize

\* stats: the blocks in use
Used == TotalBlocks - free_blocks

\* has_work
HasWork == active # <<>> \/ waiting # <<>>

\* (bug variant) only the slots are checked
CanAdmitSlotsOnly == waiting # <<>> /\ Len(active) < MaxActive

\* The guard of the loop of _admit: a free slot, and blocks for the tokens
\* of the oldest waiting request.
CanAdmit ==
  /\ waiting # <<>>
  /\ Len(active) < MaxActive
  /\ BlocksNeeded(AllIds(Head(waiting))) <= free_blocks

\* (bug variant) the token just recorded is not counted
ExtraLagging == BlocksNeeded(AllIds(cur) - 1) - blocks_held[cur]

\* The extra blocks _reserve_if_grown wants for the request it was given.
Extra == BlocksNeeded(AllIds(cur)) - blocks_held[cur]

\* The indices in active that _pick_victim(exclude=cur) accepts; it scans
\* the list from its end.
Victims == {k \in 1..Len(active) :
              active[k] # cur /\ blocks_held[active[k]] > 0}

\* (bug variants) the victim is forgotten; it goes to the end of the queue
RequeueNever(r) == waiting
RequeueLast(r) == Append(waiting, r)

\* self.waiting.insert(0, victim)
RequeueFirst(r) == <<r>> \o waiting

-----------------------------------------------------------------------------
Init ==
  /\ arrived = {}
  /\ prompt_len = [r \in Req |-> 0]
  /\ max_new_tokens = [r \in Req |-> 0]
  /\ bad = [r \in Req |-> None]
  /\ generated = [r \in Req |-> 0]
  /\ next_token = [r \in Req |-> None]
  /\ cached = [r \in Req |-> 0]
  /\ prefilled = {} /\ preempted = {} /\ failed = {}
  /\ blocks_held = [r \in Req |-> 0]
  /\ waiting = <<>> /\ active = <<>> /\ finished = <<>>
  /\ free_blocks = TotalBlocks
  /\ requests_total = 0 /\ requests_completed = 0 /\ requests_failed = 0
  /\ tokens_generated = 0
  /\ pc = "idle" /\ i = 1
  /\ cur = None /\ just_prefilled = {} /\ decoding = <<>> /\ still_active = <<>>
  /\ corrupt = {} /\ advanced = {} /\ leaked = 0

\* A Request is constructed and handed to add_request.  Both run on the
\* thread that runs step(), so never in the middle of a tick.
AddRequest(r) ==
  /\ pc = "idle" /\ r \notin arrived
  /\ arrived' = arrived \cup {r}
  /\ \E p \in PromptLens, m \in MaxNews :
       \E b \in {None} \cup {x \in BadTokens : x < p} :
         /\ prompt_len' = [prompt_len EXCEPT ![r] = p]
         /\ max_new_tokens' = [max_new_tokens EXCEPT ![r] = m]
         /\ bad' = [bad EXCEPT ![r] = b]
  /\ waiting' = Append(waiting, r)
  /\ requests_total' = requests_total + 1
  /\ UNCHANGED <<tokens, kv, failed, blocks, active, results, pc, i, locals,
                 history>>

\* step() is called: by engine_loop and by run_until_done, on has_work().
Begin ==
  /\ pc = "idle" /\ HasWork
  /\ pc' = "admit"
  /\ advanced' = {}
  /\ UNCHANGED <<inputs, tokens, kv, failed, blocks, queues, results,
                 requests_total, i, locals, corrupt, leaked>>

-----------------------------------------------------------------------------
(* _admit *)

Admit ==
  /\ pc = "admit" /\ CanAdmit
  /\ LET req  == Head(waiting)
         need == BlocksNeeded(AllIds(req))
     IN  /\ waiting' = Tail(waiting)
         /\ active' = Append(active, req)
         /\ free_blocks' = free_blocks - need
         /\ blocks_held' = [blocks_held EXCEPT ![req] = need]
         /\ leaked' = leaked + blocks_held[req]
  /\ UNCHANGED <<inputs, tokens, kv, failed, results, requests_total, pc, i,
                 locals, corrupt, advanced>>

AdmitEnd ==
  /\ pc = "admit" /\ ~CanAdmit
  /\ pc' = "prefill" /\ i' = 1
  /\ UNCHANGED <<inputs, tokens, kv, failed, blocks, queues, results,
                 requests_total, locals, history>>

-----------------------------------------------------------------------------
(* step(), part 2a: the prefill loop runs over the live list, from which a *)
(* preemption removes elements while the loop is running.                  *)

\* The request the loop is at.
AtPrefill(r) == pc = "prefill" /\ i <= Len(active) /\ r = active[i]

PrefillSkip(r) ==
  /\ AtPrefill(r) /\ r \in prefilled
  /\ i' = i + 1
  /\ UNCHANGED <<inputs, tokens, kv, failed, blocks, queues, results,
                 requests_total, pc, locals, history>>

\* (bug variants) the last token is run twice, dropped twice, or dropped in
\* the prefill of a fresh request too
PrefillSpanAll(r) == AllIds(r)
PrefillSpanShort(r) ==
  IF r \in preempted THEN AllIds(r) - 2 ELSE prompt_len[r]
PrefillSpanFresh(r) == AllIds(r) - 1

\* How many leading tokens of all_ids the prefill of a request runs.
PrefillSpan(r) ==
  IF r \in preempted THEN AllIds(r) - 1 ELSE prompt_len[r]

PrefillRaise(r) ==
  /\ AtPrefill(r) /\ r \notin prefilled
  /\ ForwardRaises(r, PrefillSpan(r)) \/ "prefill" \in Faults
  /\ failed' = failed \cup {r}
  /\ i' = i + 1
  /\ UNCHANGED <<inputs, tokens, kv, blocks, queues, results, requests_total,
                 pc, locals, history>>

\* A preempted request rebuilds its K/V and records no token.
PrefillResume(r) ==
  /\ AtPrefill(r) /\ r \notin prefilled /\ r \in preempted
  /\ ~ForwardRaises(r, PrefillSpan(r))
  /\ Forward(r, PrefillSpan(r))
  /\ prefilled' = prefilled \cup {r}
  /\ preempted' = preempted \ {r}
  /\ next_token' = [next_token EXCEPT ![r] = AllIds(r) - 1]
  /\ cur' = r /\ pc' = "reserve_prefill"
  /\ UNCHANGED <<inputs, generated, failed, blocks, queues, results,
                 requests_total, i, just_prefilled, decoding, still_active,
                 advanced, leaked>>

\* A fresh request runs its prompt and records its first token.
PrefillFresh(r) ==
  /\ AtPrefill(r) /\ r \notin prefilled /\ r \notin preempted
  /\ ~ForwardRaises(r, PrefillSpan(r))
  /\ Forward(r, PrefillSpan(r))
  /\ prefilled' = prefilled \cup {r}
  /\ RecordToken(r)
  /\ just_prefilled' = just_prefilled \cup {r}
  /\ cur' = r /\ pc' = "reserve_prefill"
  /\ UNCHANGED <<inputs, preempted, failed, blocks, queues, results,
                 requests_total, i, decoding, still_active, leaked>>

PrefillEnd ==
  /\ pc = "prefill" /\ i > Len(active)
  /\ pc' = "collect" /\ i' = 1
  /\ UNCHANGED <<inputs, tokens, kv, failed, blocks, queues, results,
                 requests_total, locals, history>>

-----------------------------------------------------------------------------
(* step(), part 2b: the batched decode *)

\* (bug variants) the request prefilled in this tick is decoded as well; the
\* request whose prefill failed is decoded
DecodableTwice(r) == r \in prefilled /\ ~IsDone(r) /\ r \notin failed
DecodableUnready(r) == ~IsDone(r) /\ r \notin just_prefilled

\* The comprehension that builds `decoding', one element of active a step.
Decodable(r) ==
  /\ r \in prefilled /\ ~IsDone(r) /\ r \notin failed
  /\ r \notin just_prefilled

Collect ==
  /\ pc = "collect" /\ i <= Len(active)
  /\ decoding' = IF Decodable(active[i]) THEN Append(decoding, active[i])
                                         ELSE decoding
  /\ i' = i + 1
  /\ UNCHANGED <<inputs, tokens, kv, failed, blocks, queues, results,
                 requests_total, pc, cur, just_prefilled, still_active,
                 history>>

CollectEnd ==
  /\ pc = "collect" /\ i > Len(active)
  /\ pc' = IF decoding = <<>> THEN "retire" ELSE "decode"
  /\ i' = 1
  /\ UNCHANGED <<inputs, tokens, kv, failed, blocks, queues, results,
                 requests_total, locals, history>>

\* The requests of the batch.
Batch == ToSet(decoding)

\* One bad request, or a failing model, fails the whole batch.
DecodeRaise ==
  /\ pc = "decode"
  /\ (\E r \in Batch : DecodeRaises(r)) \/ "decode" \in Faults
  /\ failed' = failed \cup Batch
  /\ pc' = "retire"
  /\ UNCHANGED <<inputs, tokens, kv, blocks, queues, results, requests_total,
                 i, locals, history>>

\* decode_batch grows every cache of the batch by one position, before any
\* of the tokens it returns is recorded.
DecodeBatch ==
  /\ pc = "decode"
  /\ \A r \in Batch : ~DecodeRaises(r)
  /\ cached' = [r \in Req |-> IF r \in Batch THEN cached[r] + 1 ELSE cached[r]]
  /\ corrupt' = corrupt \cup {r \in Batch : ~DecodeIsExact(r)}
  /\ pc' = "record"
  /\ UNCHANGED <<inputs, tokens, prefilled, preempted, failed, blocks, queues,
                 results, requests_total, i, locals, advanced, leaked>>

\* for r, tid in zip(decoding, next_ids)
Record ==
  /\ pc = "record" /\ i <= Len(decoding)
  /\ RecordToken(decoding[i])
  /\ cur' = decoding[i] /\ pc' = "reserve_record"
  /\ UNCHANGED <<inputs, kv, failed, blocks, queues, results, requests_total,
                 i, just_prefilled, decoding, still_active, corrupt, leaked>>

\* The int() of the next token waits for the device, so a failure of the batch
\* may come up here, when some tokens are recorded and every cache has grown.
RecordRaise ==
  /\ pc = "record" /\ i <= Len(decoding) /\ "record" \in Faults
  /\ failed' = failed \cup Batch
  /\ pc' = "retire" /\ i' = 1
  /\ UNCHANGED <<inputs, tokens, kv, blocks, queues, results, requests_total,
                 locals, history>>

RecordEnd ==
  /\ pc = "record" /\ i > Len(decoding)
  /\ pc' = "retire" /\ i' = 1
  /\ UNCHANGED <<inputs, tokens, kv, failed, blocks, queues, results,
                 requests_total, locals, history>>

-----------------------------------------------------------------------------
(* _reserve_if_grown(cur), called from the prefill and the record loop *)

Reserving == pc \in {"reserve_prefill", "reserve_record"}

\* Back in the calling loop, at its next element.
Return ==
  /\ pc' = IF pc = "reserve_prefill" THEN "prefill" ELSE "record"
  /\ i' = i + 1
  /\ cur' = None
  /\ UNCHANGED <<just_prefilled, decoding, still_active>>

StillFits ==
  /\ Reserving /\ Extra <= 0
  /\ Return
  /\ UNCHANGED <<inputs, tokens, kv, failed, blocks, queues, results,
                 requests_total, history>>

\* _pick_victim and _preempt: the last admitted of the candidates returns
\* its blocks, drops its cache (reset_for_resume) and goes to the front of
\* the waiting queue.
Preempt ==
  /\ Reserving /\ Extra > 0 /\ free_blocks < Extra
  /\ \E k \in Victims :
       LET victim == active[k] IN
         /\ \A j \in Victims : j <= k
         /\ free_blocks' = free_blocks + blocks_held[victim]
         /\ ResetForResume(victim)
         /\ active' = RemoveAt(active, k)
         /\ waiting' = RequeueFirst(victim)
  /\ UNCHANGED <<inputs, tokens, failed, results, requests_total, pc, i,
                 locals, history>>

\* The charge goes through even when nobody is left to preempt, and the
\* counter goes below zero.
Charge ==
  /\ Reserving /\ Extra > 0
  /\ free_blocks >= Extra \/ Victims = {}
  /\ free_blocks' = free_blocks - Extra
  /\ blocks_held' = [blocks_held EXCEPT ![cur] = BlocksNeeded(AllIds(cur))]
  /\ Return
  /\ UNCHANGED <<inputs, tokens, kv, failed, queues, results, requests_total,
                 history>>

-----------------------------------------------------------------------------
(* step(), part 3: retire *)

AtRetire(r) == pc = "retire" /\ i <= Len(active) /\ r = active[i]

\* (bug variants) the budget is not credited; the result is not handed over
ReturnBlocksLost(r) ==
  /\ blocks_held' = [blocks_held EXCEPT ![r] = 0]
  /\ finished' = Append(finished, r)
  /\ UNCHANGED free_blocks
ReturnBlocksOnly(r) ==
  /\ free_blocks' = free_blocks + blocks_held[r]
  /\ blocks_held' = [blocks_held EXCEPT ![r] = 0]
  /\ UNCHANGED finished

\* A retired request returns its blocks and joins the finished list.
ReturnBlocks(r) ==
  /\ free_blocks' = free_blocks + blocks_held[r]
  /\ blocks_held' = [blocks_held EXCEPT ![r] = 0]
  /\ finished' = Append(finished, r)

RetireFailed(r) ==
  /\ AtRetire(r) /\ r \in failed
  /\ ReturnBlocks(r)
  /\ requests_failed' = requests_failed + 1
  /\ i' = i + 1
  /\ UNCHANGED <<inputs, tokens, kv, failed, queues, requests_completed,
                 tokens_generated, requests_total, pc, locals, history>>

RetireDone(r) ==
  /\ AtRetire(r) /\ r \notin failed /\ IsDone(r)
  /\ ReturnBlocks(r)
  /\ requests_completed' = requests_completed + 1
  /\ tokens_generated' = tokens_generated + generated[r]
  /\ i' = i + 1
  /\ UNCHANGED <<inputs, tokens, kv, failed, queues, requests_failed,
                 requests_total, pc, locals, history>>

RetireKeep(r) ==
  /\ AtRetire(r) /\ r \notin failed /\ ~IsDone(r)
  /\ still_active' = Append(still_active, r)
  /\ i' = i + 1
  /\ UNCHANGED <<inputs, tokens, kv, failed, blocks, queues, results,
                 requests_total, pc, cur, just_prefilled, decoding, history>>

\* self.active = still_active; the locals go out of scope.
RetireEnd ==
  /\ pc = "retire" /\ i > Len(active)
  /\ active' = still_active
  /\ pc' = "idle" /\ i' = 1
  /\ just_prefilled' = {} /\ decoding' = <<>> /\ still_active' = <<>>
  /\ UNCHANGED <<inputs, tokens, kv, failed, blocks, waiting, results,
                 requests_total, cur, history>>

-----------------------------------------------------------------------------
Prefill(r) ==
  PrefillSkip(r) \/ PrefillRaise(r) \/ PrefillResume(r) \/ PrefillFresh(r)

Retire(r) == RetireFailed(r) \/ RetireDone(r) \/ RetireKeep(r)

\* The body of step().
Step ==
  \/ Begin
  \/ Admit \/ AdmitEnd
  \/ (\E r \in Req : Prefill(r)) \/ PrefillEnd
  \/ Collect \/ CollectEnd
  \/ DecodeRaise \/ DecodeBatch \/ Record \/ RecordRaise \/ RecordEnd
  \/ StillFits \/ Preempt \/ Charge
  \/ (\E r \in Req : Retire(r)) \/ RetireEnd

Next == (\E r \in Req : AddRequest(r)) \/ Step

Spec == Init /\ [][Next]_vars

\* engine_loop and run_until_done call step() as long as there is work, and
\* nothing in step() waits: the engine is weakly fair.  Clients owe nothing.
FairSpec == Spec /\ WF_vars(Step)

-----------------------------------------------------------------------------
(* Properties *)

PCs == {"idle", "admit", "prefill", "reserve_prefill", "collect", "decode",
        "record", "reserve_record", "retire"}

InputsOK ==
  /\ arrived \subseteq Req
  /\ prompt_len \in [Req -> Nat]
  /\ max_new_tokens \in [Req -> Int]
  /\ bad \in [Req -> Nat \cup {None}]

TokensOK ==
  /\ generated \in [Req -> Nat]
  /\ next_token \in [Req -> Nat \cup {None}]

KVOK ==
  /\ cached \in [Req -> Nat]
  /\ prefilled \subseteq Req /\ preempted \subseteq Req

BlocksOK == free_blocks \in Int /\ blocks_held \in [Req -> Nat]

QueuesOK == waiting \in Seq(Req) /\ active \in Seq(Req)

ResultsOK ==
  /\ finished \in Seq(Req)
  /\ requests_completed \in Nat /\ requests_failed \in Nat
  /\ tokens_generated \in Nat

\* The places of step(); _reserve_if_grown has an argument while it runs.
ControlOK ==
  /\ pc \in PCs /\ i \in Nat \ {0}
  /\ IF Reserving THEN cur \in Req ELSE cur = None

ListsOK ==
  /\ just_prefilled \subseteq Req
  /\ decoding \in Seq(Req) /\ still_active \in Seq(Req)

HistoryOK == corrupt \subseteq Req /\ advanced \subseteq Req /\ leaked \in Nat

\* The type invariant.  The block counter is an Int: an over-committed
\* engine drives it below zero.
TypeOK ==
  /\ InputsOK /\ TokensOK /\ KVOK /\ failed \subseteq Req
  /\ BlocksOK /\ QueuesOK /\ ResultsOK /\ requests_total \in Nat
  /\ ControlOK /\ ListsOK /\ HistoryOK

\* The requests that are in the engine: while the retire loop runs, the ones
\* it kept and the ones it has not reached.
InFlight ==
  IF pc = "retire" THEN still_active \o SubSeq(active, i, Len(active))
                   ELSE active

\* No request is lost or duplicated: whatever lists step() has popped,
\* appended, removed from while iterating, or rebuilt, every submitted
\* request is in exactly one of them, once.
ExactlyOnce ==
  /\ IsInjective(waiting) /\ IsInjective(InFlight) /\ IsInjective(finished)
  /\ ToSet(waiting) \cap ToSet(InFlight) = {}
  /\ ToSet(waiting) \cap ToSet(finished) = {}
  /\ ToSet(InFlight) \cap ToSet(finished) = {}
  /\ ToSet(waiting) \cup ToSet(InFlight) \cup ToSet(finished) = arrived

\* Preemption is lossless: no request ever has a token computed from a
\* cache that misses positions, repeats them, or is fed another token than
\* the last (reset_for_resume, the resume branch of the prefill loop and
\* position_offset agree), in whatever tick and order it was evicted.
Lossless == corrupt = {}

\* The inductive invariant behind ExactlyOnce and Lossless.

\* The lists are duplicate-free and share no request; in the retire loop the
\* elements of active before position i are settled, kept or finished, and
\* the ones from i on are neither.
QueueInv ==
  /\ IsInjective(waiting) /\ IsInjective(active)
  /\ IsInjective(finished) /\ IsInjective(still_active)
  /\ ToSet(waiting) \cap ToSet(active) = {}
  /\ ToSet(waiting) \cap ToSet(finished) = {}
  /\ ToSet(waiting) \cup ToSet(active) \cup ToSet(finished) = arrived
  /\ ToSet(still_active) \subseteq ToSet(active)
  /\ ToSet(still_active) \cap ToSet(finished) = {}
  /\ IF pc = "retire"
     THEN \A k \in 1..Len(active) :
            active[k] \in ToSet(still_active) \cup ToSet(finished) <=> k < i
     ELSE still_active = <<>> /\ ToSet(active) \cap ToSet(finished) = {}

\* The batch holds each request once, and only sound ones whose K/V are built;
\* while its tokens are being recorded some may have been preempted.
BatchInv ==
  /\ IsInjective(decoding)
  /\ pc = "collect" =>
       \A k \in 1..Len(active) : k >= i => active[k] \notin Batch
  /\ pc \in {"collect", "decode"} => Batch \subseteq prefilled \ failed
  /\ pc \in {"record", "reserve_record"} => Batch \subseteq prefilled \cup preempted
  /\ pc = "decode" => i = 1
  /\ pc \in {"idle", "admit", "prefill", "reserve_prefill"} => decoding = <<>>

\* The requests decoded by the batch whose token is still to be recorded.
Pending ==
  {decoding[k] : k \in {j \in 1..Len(decoding) :
                          \/ pc = "record" /\ j >= i
                          \/ pc = "reserve_record" /\ j > i}}

\* A prefilled request is fed its last token, on top of a cache of all the
\* tokens before it, unless it failed; the ones that are not prefilled have an
\* empty cache, and no tokens of their own unless they were preempted.
CacheInv ==
  /\ prefilled \subseteq arrived
  /\ \A r \in Req \ prefilled : cached[r] = 0
  /\ \A r \in Req \ (prefilled \cup preempted) : generated[r] = 0
  /\ \A r \in prefilled \ failed :
       /\ next_token[r] = AllIds(r) - 1
       /\ cached[r] = IF r \in Pending THEN AllIds(r) ELSE AllIds(r) - 1
  /\ Lossless

EngineInv == QueueInv /\ BatchInv /\ CacheInv

\* One element for each unit of f[r], for r in S: the size of the set is the
\* sum of f over S.
Units(f, S) == UNION {{r} \X (1..f[r]) : r \in S}

\* Every block of the budget is free, charged to a request, or was still
\* charged to a request when _admit charged it anew.  No path of admission,
\* growth, preemption, failure and retirement counts a block twice or
\* returns one that was not taken.
BlocksAccounted ==
  free_blocks + Cardinality(Units(blocks_held, Req)) + leaked = TotalBlocks

\* Memory is over-committed only for a request that is alone in holding
\* blocks among the active ones: _reserve_if_grown proceeds anyway only when
\* there is nobody left to preempt, and nobody is admitted meanwhile.
OvercommitIsAlone ==
  free_blocks < 0 =>
    \A r, q \in ToSet(active) :
      blocks_held[r] > 0 /\ blocks_held[q] > 0 => r = q

\* Between ticks an active request is charged for exactly the tokens it has.
ActiveIsCharged ==
  pc = "idle" =>
    \A r \in ToSet(active) : blocks_held[r] = BlocksNeeded(AllIds(r))

\* Evicted requests resume before any request that was never admitted.
ResumedFirst ==
  \A j, k \in 1..Len(waiting) :
    j < k /\ waiting[k] \in preempted => waiting[j] \in preempted

Completed == ToSet(finished) \ failed

\* The counters of /metrics and the queues tell the same story in every
\* state: arrivals, outcomes and the tokens of the completed requests.
MetricsAgree ==
  /\ requests_total = Cardinality(arrived)
  /\ requests_completed = Cardinality(Completed)
  /\ requests_completed + requests_failed = Len(finished)
  /\ tokens_generated = Cardinality(Units(generated, Completed))

\* A tick advances a request by at most one token: not twice through the
\* prefill and the batch of the same tick, nor as a resumed request.
OneTokenPerTick ==
  [][\A r \in Req : generated'[r] # generated[r] =>
       generated'[r] = generated[r] + 1 /\ r \notin advanced]_vars

Poisoned(r) == prompt_len[r] = 0 \/ bad[r] # None

\* A request that the model cannot run never yields a token, whichever way
\* it is prefilled, preempted or resumed.
PoisonedYieldsNothing == \A r \in Req : Poisoned(r) => generated[r] = 0

\* A failure stays with the request that raised it, except in a batch that
\* holds a poisoned request which was evicted before its first prefill.
FailureHasCause ==
  [][\A r \in failed' \ failed :
       \/ Poisoned(r) /\ pc = "prefill"
       \/ /\ pc = "decode"
          /\ \E b \in Batch : bad[b] = prompt_len[b] - 1 /\ generated[b] = 0]_vars

\* What a client sees of a request.
Status(r) ==
  CASE r \notin arrived -> "absent"
    [] r \in ToSet(finished) \cap failed -> "failed"
    [] r \in ToSet(finished) \ failed -> "completed"
    [] OTHER -> "pending"

Service == INSTANCE RequestService WITH
             Limits <- MaxNews,
             status <- [r \in Req |-> Status(r)],
             limit <- max_new_tokens,
             emitted <- generated

\* Whatever the engine does with its batches, its queues and its memory, each
\* client sees the behaviour of RequestService: tokens one at a time within
\* the limit, one final answer, nothing after it.
ImplementsService == Service!Spec

-----------------------------------------------------------------------------
(* What the tests and the documentation promise and the code does not keep *)

\* tests/test_scheduler.py: budget balanced after all done.
BudgetBalanced == (pc = "idle" /\ ~HasWork) => free_blocks = TotalBlocks

\* A waiting request holds no blocks: _preempt has returned them.  It fails
\* when the record loop charges a request that was preempted in that loop.
NoChargeWhileWaiting == \A r \in ToSet(waiting) : blocks_held[r] = 0

\* tests/test_scheduler.py: must complete, not deadlock/crash.
Completes == \A r \in Req : r \in arrived ~> r \in ToSet(finished)

\* A waiting request could be admitted to an empty engine.
WaitersFit == \A r \in ToSet(waiting) : BlocksNeeded(AllIds(r)) <= TotalBlocks

\* The same, as the code keeps it: as long as no waiting request is charged, and
\* none has more tokens than the whole budget, everyone is answered.  So deferral
\* and preemption starve nobody then, and neither does an active request that
\* has outgrown the budget: it holds the queue up until it is done.
CompletesIfUncharged == [](NoChargeWhileWaiting /\ WaitersFit) => Completes

\* scheduler.py: no request waits for another to finish -> no head-of-line
\* blocking.  It fails, with no charge astray, when the request at the head of
\* the queue has more tokens than the whole budget: the ones behind it starve.
NoHeadOfLineBlocking ==
  []NoChargeWhileWaiting =>
    \A r \in Req :
      r \in arrived /\ BlocksNeeded(AllIds(r)) <= TotalBlocks ~> r \in ToSet(finished)

\* tests/test_worker.py: other requests still complete.
GoodRequestsSurvive == failed \subseteq {r \in Req : Poisoned(r)}
=============================================================================
