------------------------------ MODULE MCPipeline ------------------------------
EXTENDS Pipeline

\* Short pipelines: one job step, two job steps, and a manual one with COT.
OneJob  == <<"collection", "quality", "correction", "publication", "overview">>
TwoJobs == <<"collection", "preprocessing", "quality", "correction", "publication", "overview">>
WithCot == <<"collection", "quality", "correction", "cot", "publication", "overview">>

\* Over existing data, with a restart and a manual retry.
Existing == [steps |-> OneJob, mode |-> "automatic", start |-> "existing", faults |-> {},
             jobs |-> 3, epochs |-> 1, crashes |-> 1, grants |-> 1]
\* Retries of two job steps, each feeding the next.
Retrying == [Existing EXCEPT !.steps = TwoJobs]
\* The collection is resumed once while the pipeline works on it.
Resumed  == [Existing EXCEPT !.jobs = 4, !.epochs = 2]
\* The same, with a person who confirms the selection.
Confirming == [Existing EXCEPT !.steps = WithCot, !.mode = "manual", !.epochs = 2, !.grants = 0]
\* A dispatch that may go wrong in every way, restarted and retried.
Dispatching == [Existing EXCEPT !.start = "collect", !.jobs = 2,
                  !.faults = {"lost", "unsent", "late", "rejected", "refused", "empty"}]
\* The same without a restart, and a collection resumed; or without a person's retry.
Collecting  == [Dispatching EXCEPT !.epochs = 2, !.crashes = 0]
Restarting  == [Dispatching EXCEPT !.grants = 0]

Histories == <<Retrying, Resumed, Confirming, Dispatching>>
Endings   == <<Existing, Collecting, Restarting>>
=============================================================================
