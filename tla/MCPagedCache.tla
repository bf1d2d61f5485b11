---------------------------- MODULE MCPagedCache ----------------------------
EXTENDS PagedCache
\* Block tables are interchangeable.
Symmetry == Permutations(Table)
=============================================================================
