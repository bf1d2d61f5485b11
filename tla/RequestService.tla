--------------------------- MODULE RequestService ---------------------------
(***************************************************************************)
(* What the engine promises to the client of one request, whatever the     *)
(* queues, the batches and the block budget do: a submitted request emits  *)
(* its tokens one at a time, never more than its limit (and always a first *)
(* one, which the prefill produces before the limit is looked at); it is   *)
(* answered once, as completed when the limit is reached, or as failed;    *)
(* and an answered request never changes again.                            *)
(*                                                                         *)
(* Scheduler.tla is shown to implement this module.                        *)
(***************************************************************************)
EXTENDS Integers

CONSTANTS
  Req,      \* the requests that may be submitted
  Limits    \* the values of max_new_tokens

VARIABLES
  status,   \* absent, pending, completed or failed
  limit,    \* the number of tokens asked for
  emitted   \* the number of tokens generated so far

vars == <<status, limit, emitted>>

Init ==
  /\ status = [r \in Req |-> "absent"]
  /\ limit = [r \in Req |-> 0]
  /\ emitted = [r \in Req |-> 0]

Submit(r) ==
  /\ status[r] = "absent"
  /\ status' = [status EXCEPT ![r] = "pending"]
  /\ \E n \in Limits : limit' = [limit EXCEPT ![r] = n]
  /\ UNCHANGED emitted

Emit(r) ==
  /\ status[r] = "pending"
  /\ emitted[r] < limit[r] \/ emitted[r] = 0
  /\ emitted' = [emitted EXCEPT ![r] = @ + 1]
  /\ UNCHANGED <<status, limit>>

Complete(r) ==
  /\ status[r] = "pending" /\ emitted[r] >= limit[r]
  /\ status' = [status EXCEPT ![r] = "completed"]
  /\ UNCHANGED <<limit, emitted>>

Fail(r) ==
  /\ status[r] = "pending"
  /\ status' = [status EXCEPT ![r] = "failed"]
  /\ UNCHANGED <<limit, emitted>>

Next == \E r \in Req : Submit(r) \/ Emit(r) \/ Complete(r) \/ Fail(r)

Spec == Init /\ [][Next]_vars
=============================================================================
