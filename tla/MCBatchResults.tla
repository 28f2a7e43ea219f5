--------------------------- MODULE MCBatchResults ---------------------------
EXTENDS BatchResults, TLC

\* Tasks, annotations, builds and jobs are interchangeable.
Symmetry == Permutations(Tasks) \cup Permutations(Inputs) \cup Permutations(Builds)
              \cup Permutations(Jobs)
=============================================================================
