--------------------------- MODULE MCArtifactStore ---------------------------
EXTENDS ArtifactStore, TLC

\* The stages, the threads and the operation identifiers are interchangeable.
Symmetry == Permutations(Threads) \cup Permutations(Stages) \cup Permutations(Ops)
              \cup Permutations(Payloads)
=============================================================================
