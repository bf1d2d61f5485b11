----------------------------- MODULE MCKernels -----------------------------
(* TLC instance of the parts that compute: Attention, Sharding and Metrics. *)
(* They share nothing, so each is run from its initial state while the      *)
(* others rest.  Requests are interchangeable.                              *)
EXTENDS Attention, Sharding, Metrics

Symmetry == Permutations(Table)
MCShardCounts == 1..6
MCHeadCounts == 1..9
MCUnitCounts == 0..12
MCPcts == 1..100

KernelsInit == Init /\ ShardInit /\ MetricsInit

AttentionRests == kind = "none" /\ prefilled = {} /\ preempted = {}

KernelsNext ==
  \/ op = "none" /\ recorded = <<>> /\ Next
       /\ UNCHANGED <<shardVars, metricsVars>>
  \/ AttentionRests /\ recorded = <<>> /\ ShardNext
       /\ UNCHANGED <<vars, metricsVars>>
  \/ AttentionRests /\ op = "none" /\ MetricsNext
       /\ UNCHANGED <<vars, shardVars>>

KernelsSpec == KernelsInit /\ [][KernelsNext]_<<vars, shardVars, metricsVars>>
=============================================================================
