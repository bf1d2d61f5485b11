-------------------------- MODULE ContiguousCache --------------------------
(***************************************************************************)
(* The K/V cache that the attention math expects: for each request and     *)
(* layer one contiguous sequence of K/V entries that grows at its end, as  *)
(* the torch.cat cache of attention() does, private to the request, and    *)
(* emptied as a whole.  Layers are filled in order, each up to the length  *)
(* of the one before it.  An entry is the position it was rotated for, the *)
(* request it belongs to and the use of the cache it was computed in.      *)
(*                                                                         *)
(* Attention.tla and PagedCache.tla are shown to implement this module.    *)
(***************************************************************************)
EXTENDS Integers, Sequences

CONSTANTS
  Table,      \* the caches, one per request
  NumLayers

VARIABLES
  kv,     \* kv[t][l]: the entries of layer l
  use     \* how many times the cache was emptied

vars == <<kv, use>>

Layer == 1..NumLayers

Init ==
  /\ kv = [t \in Table |-> [l \in Layer |-> <<>>]]
  /\ use = [t \in Table |-> 0]

\* The n entries that follow the ones of layer l of cache t.
Following(t, l, n) ==
  [k \in 1..n |->
     [owner |-> t, use |-> use[t], pos |-> Len(kv[t][l]) + k - 1]]

Extend(t, l) ==
  LET n == Len(kv'[t][l]) - Len(kv[t][l]) IN
    /\ n > 0
    /\ kv' = [kv EXCEPT ![t][l] = @ \o Following(t, l, n)]
    /\ l > 1 => Len(kv[t][l]) + n = Len(kv[t][l - 1])
    /\ UNCHANGED use

Clear(t) ==
  /\ kv' = [kv EXCEPT ![t] = [l \in Layer |-> <<>>]]
  /\ use' = [use EXCEPT ![t] = @ + 1]

Next == \E t \in Table : Clear(t) \/ \E l \in Layer : Extend(t, l)

Spec == Init /\ [][Next]_vars
=============================================================================
