---------------------------- MODULE MCScheduler ----------------------------
EXTENDS Scheduler
\* Requests are interchangeable: nothing in the engine orders them by name.
Symmetry == Permutations(Req)
=============================================================================
