------------------------- MODULE MCCollectionTransfer -------------------------
EXTENDS CollectionTransfer

CONSTANTS a, b, i, j, r1, r2, phone

Entry(id, instance, plan, kind, good) ==
  [id |-> id, instance |-> instance, plan |-> plan, kind |-> kind, good |-> good]

\* Two trajectories, one that was not run and one that was, two that claim one
\* instance, and one alone whose archive is whole or broken.
TwoRuns    == <<Entry(a, i, i, "trajectory", TRUE), Entry(b, j, j, "trajectory", TRUE)>>
OneNotRun  == <<Entry(a, i, i, "trajectory", TRUE), Entry(b, j, j, "outcome", TRUE)>>
OneClaimed == <<Entry(a, i, i, "trajectory", TRUE), Entry(b, i, j, "trajectory", TRUE)>>
OneRun     == <<Entry(a, i, i, "trajectory", TRUE)>>
OneBroken  == <<Entry(a, i, i, "trajectory", FALSE)>>

With(lists, n, m) == [list: lists, faults: {n}, fills: {m}]
AllSettings == With({TwoRuns, OneNotRun, OneClaimed}, 1, 0) \cup With({OneRun, OneBroken}, 2, 1)
OneSetting  == With({OneRun}, 2, 1)

\* Two runs that want one phone.
OnePhone == [r \in Runs |-> {phone}]
=============================================================================
