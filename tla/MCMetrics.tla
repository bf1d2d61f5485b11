----------------------------- MODULE MCMetrics -----------------------------
(* TLC instance of Metrics alone. *)
EXTENDS Metrics
=============================================================================
