------------------------------ MODULE MCWorker ------------------------------
\* The liveness properties of the worker rule out symmetry.
EXTENDS Worker
=============================================================================
