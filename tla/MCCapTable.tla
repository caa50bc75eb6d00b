----------------------------- MODULE MCCapTable -----------------------------
EXTENDS CapTable, TLC

\* Objects and tasks are interchangeable.
Symmetry == Permutations(Obj) \cup Permutations(Task)
=============================================================================
