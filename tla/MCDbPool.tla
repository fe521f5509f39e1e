------------------------------ MODULE MCDbPool ------------------------------
EXTENDS DbPool, TLC

\* Coroutines are interchangeable; used where no liveness is checked.
Symmetry == Permutations(Task)

=============================================================================
