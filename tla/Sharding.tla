------------------------------ MODULE Sharding ------------------------------
(***************************************************************************)
(* The sharded layers of src/src/vkllm/tensor_parallel.py: a loop over the *)
(* shards, each of which computes the partial sum of its hidden units or   *)
(* of its heads, and one all_reduce.  A term of the sum is named by what   *)
(* it is computed from; its value is left out.  Indices count from 0.      *)
(***************************************************************************)
EXTENDS Integers, Sequences, FiniteSets

CONSTANTS
  ShardCounts,   \* values of n_shards
  HeadCounts,    \* values of num_q_heads and num_kv_heads
  UnitCounts     \* values of the intermediate size

ASSUME ShardingAssumption ==
  /\ ShardCounts \subseteq Nat \ {0}
  /\ HeadCounts \subseteq Nat \ {0}
  /\ UnitCounts \subseteq Nat

VARIABLES
  op,         \* none, mlp or attention
  size,       \* n, inter, q_heads, kv_heads: the sizes it is called with
  partials,   \* the partial sum of each shard so far, a set of terms
  total,      \* how often each term is in the sum
  outcome     \* computing, done or raised

shardVars == <<op, size, partials, total, outcome>>

Divides(d, m) == m % d = 0

-----------------------------------------------------------------------------
(* mlp: gate, up and down are cut along the hidden units *)

UnitsPerShard == size.inter \div size.n

\* The units of shard s: rows lo to hi of gate and up, and the same columns of
\* down.
MlpPartial(s) == {s * UnitsPerShard + j : j \in 0..(UnitsPerShard - 1)}

\* mlp of Model.
MlpWhole == 0..(size.inter - 1)

-----------------------------------------------------------------------------
(* attention: the heads are cut, and the columns of o_proj with them *)

QPer == size.q_heads \div size.n
KvPer == size.kv_heads \div size.n
Rep == size.q_heads \div size.kv_heads

\* (bug variant) repeat in the place of repeat_interleave
ExpandedByRepeat(j) == j % KvPer

\* repeat_interleave of the kv heads: the one that query head j meets.
Expanded(j) == j \div Rep

\* A term: query head q attends with kv head kv, and columns col of o_proj
\* project the outcome.
AttentionPartial(s) ==
  {[q |-> s * QPer + j, kv |-> s * KvPer + Expanded(j), col |-> s * QPer + j] :
     j \in 0..(QPer - 1)}

\* If the query heads and the expanded kv heads of a shard do not match, the
\* product of their tensors, or the reshape after it, raises.
Mismatch == QPer # KvPer * Rep

\* attention of Model, on one device.
AttentionWhole ==
  {[q |-> h, kv |-> h \div Rep, col |-> h] : h \in 0..(size.q_heads - 1)}

-----------------------------------------------------------------------------
ShardInit ==
  /\ op = "none"
  /\ size = [n |-> 1, inter |-> 0, q_heads |-> 1, kv_heads |-> 1]
  /\ partials = <<>> /\ total = <<>>
  /\ outcome = "done"

Call(name, sizes) ==
  /\ outcome # "computing"
  /\ op' = name /\ size' = sizes
  /\ partials' = <<>> /\ total' = <<>>

\* (bug variant) no assertion, as in attention
MlpRaisesNever(n, inter) == FALSE

\* The assertion at the start of mlp.
MlpRaises(n, inter) == ~Divides(n, inter)

MlpCall ==
  \E n \in ShardCounts, inter \in UnitCounts :
    /\ Call("mlp", [n |-> n, inter |-> inter, q_heads |-> 1, kv_heads |-> 1])
    /\ outcome' = IF MlpRaises(n, inter) THEN "raised" ELSE "computing"

\* The heads of a model: each kv head serves the same number of query heads.
AttentionCall ==
  \E n \in ShardCounts, q_heads, kv_heads \in HeadCounts :
    /\ Divides(kv_heads, q_heads)
    /\ Call("attention", [n |-> n, inter |-> 0,
                          q_heads |-> q_heads, kv_heads |-> kv_heads])
    /\ outcome' = "computing"

ComputeMlpShard ==
  /\ outcome = "computing" /\ op = "mlp" /\ Len(partials) < size.n
  /\ partials' = Append(partials, MlpPartial(Len(partials)))
  /\ UNCHANGED <<op, size, total, outcome>>

ComputeAttentionShard ==
  /\ outcome = "computing" /\ op = "attention" /\ Len(partials) < size.n
  /\ IF Mismatch
     THEN outcome' = "raised" /\ UNCHANGED partials
     ELSE /\ partials' = Append(partials, AttentionPartial(Len(partials)))
          /\ UNCHANGED outcome
  /\ UNCHANGED <<op, size, total>>

\* (bug variant) the first partial is added in the loop as well
CopiesFromFirst(term) ==
  Cardinality({s \in DOMAIN partials : term \in partials[s]})
    + (IF term \in partials[1] THEN 1 ELSE 0)

\* How often a term is in the sum of the partials.
Copies(term) == Cardinality({s \in DOMAIN partials : term \in partials[s]})

AllReduce ==
  /\ outcome = "computing" /\ Len(partials) = size.n
  /\ total' = [term \in UNION {partials[s] : s \in DOMAIN partials} |->
                 Copies(term)]
  /\ outcome' = "done"
  /\ UNCHANGED <<op, size, partials>>

ShardNext ==
  \/ MlpCall \/ AttentionCall
  \/ ComputeMlpShard \/ ComputeAttentionShard
  \/ AllReduce

ShardSpec == ShardInit /\ [][ShardNext]_shardVars

-----------------------------------------------------------------------------
(* Properties *)

\* A total with each term of a set once, and no other.
Once(terms) == [term \in terms |-> 1]

\* Where mlp does not raise, its one all-reduce adds every hidden unit exactly
\* once.
MlpIsWhole == op = "mlp" /\ outcome = "done" => total = Once(MlpWhole)

\* If the query heads divide by the number of shards, attention is right or
\* raises: every head is added once, projected by its own columns, and attends
\* with the kv head that it has on one device; and it does not raise if the kv
\* heads divide too.  So of the two divisions that the source assumes and does
\* not check, only the one of the query heads can go wrong unnoticed.
AttentionIsWhole ==
  op = "attention" /\ Divides(size.n, size.q_heads) =>
    /\ outcome = "done" => total = Once(AttentionWhole)
    /\ outcome = "raised" => ~Divides(size.n, size.kv_heads)
=============================================================================
