------------------------- MODULE MCTaskGeneration -------------------------
EXTENDS TaskGeneration, TLC

MCPlans == {[kind |-> "augmentation", auto |-> TRUE], [kind |-> "augmentation", auto |-> FALSE],
            [kind |-> "task_generation", auto |-> TRUE]}
=============================================================================
