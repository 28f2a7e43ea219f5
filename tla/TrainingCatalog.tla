--------------------------- MODULE TrainingCatalog ---------------------------
(***************************************************************************)
(* backend/training_data_overview/service.py: every release is converted,  *)
(* one after the other, and its rows are added to one catalog.             *)
(*                                                                         *)
(* The files of a version are immutable; one transaction exposes them and  *)
(* ends the conversion.                                                    *)
(***************************************************************************)
EXTENDS ReleaseImport, Sequences

VARIABLES
  conversions,  \* training_overview_conversions: status, and "none", "whole" or "lost" files
  rows,         \* the releases in the catalog
  exported,     \* the catalog's files: "none", "whole" or "lost"
  futures,      \* what the executor has yet to run
  worker        \* what its thread runs, and the step it is at

catalogVars == <<conversions, rows, exported, futures, worker>>

NotConverting == [rel |-> None, pc |-> "idle"]

CatalogInit ==
  /\ conversions = [r \in Releases |-> [status |-> "none", files |-> "none"]]
  /\ rows = {} /\ exported = "none" /\ futures = <<>> /\ worker = NotConverting

\* future and not future.done()
Converting(r) == worker.rel = r \/ \E k \in DOMAIN futures : futures[k] = r

OutputsValid(r) == conversions[r].files = "whole" /\ exported = "whole"

Status(r, s) == conversions' = [conversions EXCEPT ![r].status = s]
Queued(S) == [r \in Releases |-> IF r \in S THEN [status |-> "queued", files |-> "none"] ELSE conversions[r]]

\* submit, for the page that was told of the release and for who asks again.
SubmitConversion(r) ==
  /\ phase = "up" /\ r \in releases
  /\ told' = told \ {r}
  /\ \/ /\ ~Converting(r) /\ ~(conversions[r].status = "succeeded" /\ OutputsValid(r))
        /\ conversions' = Queued({r}) /\ futures' = Append(futures, r)
     \/ /\ r \in told
        /\ Converting(r) \/ (conversions[r].status = "succeeded" /\ OutputsValid(r))
        /\ UNCHANGED <<conversions, futures>>
  /\ UNCHANGED <<rows, exported, worker>>

\* It raises, which the page that published does not show; or the executor does.
SubmitFails(r) ==
  /\ phase = "up" /\ r \in told /\ ~Converting(r)
  /\ told' = told \ {r}
  /\ Status(r, "failed") \/ UNCHANGED conversions
  /\ UNCHANGED <<rows, exported, futures, worker>>

TakeConversion ==
  /\ phase = "up" /\ worker.pc = "idle" /\ futures # <<>>
  /\ worker' = [rel |-> Head(futures), pc |-> "convert"] /\ futures' = Tail(futures)
  /\ Status(Head(futures), "running")
  /\ UNCHANGED <<rows, exported>>

\* The converter and the new files; a failure removes the files again.
Convert ==
  /\ worker.pc = "convert"
  /\ worker' = [worker EXCEPT !.pc = "commit"]
  /\ UNCHANGED <<conversions, rows, exported, futures>>

ConversionFails ==
  /\ worker.pc \in {"convert", "commit"}
  /\ Status(worker.rel, "failed")
  /\ worker' = NotConverting
  /\ UNCHANGED <<rows, exported, futures>>

\* The catalog is read again: what other conversions added stays.
CommitCatalog ==
  /\ worker.pc = "commit"
  /\ rows' = rows \cup {worker.rel} /\ exported' = "whole"
  /\ conversions' = [conversions EXCEPT ![worker.rel] = [status |-> "succeeded", files |-> "whole"]]
  /\ worker' = NotConverting
  /\ UNCHANGED futures

\* The commit's answer is lost: the files go although the catalog names them,
\* and the conversion is shown as failed.
CommitCatalogUnheard ==
  /\ worker.pc = "commit"
  /\ rows' = rows \cup {worker.rel} /\ exported' = "lost"
  /\ conversions' = [conversions EXCEPT ![worker.rel] = [status |-> "failed", files |-> "lost"]]
  /\ worker' = NotConverting
  /\ UNCHANGED futures

CatalogCrash ==
  /\ futures' = <<>> /\ worker' = NotConverting
  /\ UNCHANGED <<conversions, rows, exported>>

\* Mutant of Unconverted: only what had begun is taken up again.
Begun(r) == r \in releases /\ conversions[r].status \in {"queued", "running"}

Unconverted(r) == r \in releases /\ conversions[r].status \in {"none", "queued", "running"}

\* start(), in one step: a crash in the middle leaves more to the next start.
StartConversions ==
  /\ phase = "overview" /\ phase' = "up"
  /\ LET S == {r \in Releases : Unconverted(r)}
     IN  /\ conversions' = Queued(S)
         /\ futures' \in {q \in [1..Cardinality(S) -> S] : \A r \in S : \E k \in DOMAIN q : q[k] = r}
  /\ UNCHANGED <<rows, exported, worker>>

CatalogSteps == TakeConversion \/ Convert \/ CommitCatalog \/ ConversionFails
=============================================================================
