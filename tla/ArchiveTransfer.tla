---------------------------- MODULE ArchiveTransfer ----------------------------
(* The reception of a collection run in one archive, the older protocol
   (collection_transfer.py).  The collector builds one archive when the run has
   ended; a sync downloads and extracts it beside the run's directory, writes a
   journal, and only then moves it into place and completes the run, so that the
   next sync finishes what a crash or a failed write cut short.  A sync holds the
   batch's lock from its first look at the run to its end. *)
EXTENDS Naturals

CONSTANTS MaxMishaps    \* bound: crashes and failed calls and writes

ASSUME ArchiveAssumption == MaxMishaps \in Nat

VARIABLES
  source,    \* the collector: what it says of the run and of its archive
  archive,   \* the run's record: [status, transfer]
  journal,   \* the record of a verified archive
  staging, final,    \* the extracted files and the run's directory
  step,      \* where the sync stands
  mishaps

archiveVars == <<source, archive, journal, staging, final, step, mishaps>>

\* What the collector has ended with: "manifestless" ended without one for good,
\* "finishing" will still have one, "broken" has an archive that is not
\* what its manifest says.
Ends      == {"whole", "empty", "manifestless", "finishing", "broken"}
FileStates == {"none", "part", "whole"}
Working   == {"read", "fetch", "extract", "note", "place", "complete", "show", "settle", "clean"}

InitArchive ==
  /\ source = "running"
  /\ archive = [status |-> "running", transfer |-> "waiting"]
  /\ journal = "none" /\ staging = "none" /\ final = "none"
  /\ step = "idle" /\ mishaps = 0

SourceEnds ==
  /\ \/ source = "running" /\ source' \in Ends
     \/ source = "finishing" /\ source' = "whole"
  /\ UNCHANGED <<archive, journal, staging, final, step, mishaps>>

\* Nothing is left to do for this run, or nothing may be done: the early returns.
Received == archive.status = "completed" /\ (archive.transfer = "completed" \/ journal # "verified")
Over     == archive.status = "interrupted" \/ Received

StartArchive ==
  /\ step = "idle" /\ ~Over
  /\ step' = IF journal = "verified" THEN "place" ELSE "read"
  /\ UNCHANGED <<source, archive, journal, staging, final, mishaps>>

\* An exception anywhere: a run that is not completed shows it.
Failing == IF archive.status = "completed" THEN archive ELSE [archive EXCEPT !.transfer = "failed"]

Mishap ==
  /\ step \in Working /\ mishaps < MaxMishaps
  /\ mishaps' = mishaps + 1
  /\ step' \in {"failed"} \cup (IF step = "read" THEN {"missing"} ELSE {})
  /\ archive' = Failing
  /\ staging' \in IF step = "extract" THEN {staging, "part"} ELSE {staging}
  /\ UNCHANGED <<source, journal, final>>

\* The process dies.
CrashArchive ==
  /\ mishaps < MaxMishaps /\ mishaps' = mishaps + 1
  /\ step' = "idle"
  /\ staging' \in IF step = "extract" THEN {staging, "part"} ELSE {staging}
  /\ UNCHANGED <<source, archive, journal, final>>

\* Not a failure of the remote run, which just has no manifest yet.
Unfinished ==
  /\ step = "read" /\ source = "finishing"
  /\ archive' = Failing /\ step' = "failed"
  /\ UNCHANGED <<source, journal, staging, final, mishaps>>

\* get_run: a run that still works, one that left nothing, one with an archive.
ReadRun ==
  /\ step = "read" /\ source # "finishing"
  /\ \/ /\ source = "running"
        /\ archive' = [archive EXCEPT !.transfer = "waiting"] /\ step' = "done"
     \/ /\ source \in {"manifestless", "empty"}
        /\ \E status \in {"failed", "interrupted"} :
             archive' = [status |-> status, transfer |-> "remote_failed"]
        /\ step' = "done"
     \/ /\ source \in {"whole", "broken"}
        /\ archive' = [archive EXCEPT !.transfer = "downloading"] /\ step' = "fetch"
  /\ UNCHANGED <<source, journal, staging, final, mishaps>>

\* What an earlier attempt left is removed first.
Fetch ==
  /\ step = "fetch"
  /\ staging' = "none" /\ step' = "extract"
  /\ UNCHANGED <<source, archive, journal, final, mishaps>>

Extract ==
  /\ step = "extract"
  /\ IF source = "whole"
     THEN staging' = "whole" /\ step' = "note" /\ UNCHANGED archive
     ELSE staging' = "part" /\ step' = "failed" /\ archive' = Failing
  /\ UNCHANGED <<source, journal, final, mishaps>>

Note ==
  /\ step = "note"
  /\ journal' = "verified" /\ step' = "place"
  /\ UNCHANGED <<source, archive, staging, final, mishaps>>

\* _finish: the files are moved unless they were, and are checked where they are.
Install ==
  /\ step = "place"
  /\ IF staging # "none"
     THEN IF staging = "whole" /\ final = "none"
          THEN final' = staging /\ staging' = "none" /\ step' = "complete" /\ UNCHANGED archive
          ELSE step' = "failed" /\ archive' = Failing /\ UNCHANGED <<staging, final>>
     ELSE IF final = "whole"
          THEN step' = "complete" /\ UNCHANGED <<archive, staging, final>>
          ELSE step' = "failed" /\ archive' = Failing /\ UNCHANGED <<staging, final>>
  /\ UNCHANGED <<source, journal, mishaps>>

\* CollectionRunStore.complete, whose answer may be lost after it committed.
CompleteRun ==
  /\ step = "complete"
  /\ archive' = [archive EXCEPT !.status = "completed"]
  /\ \/ step' = "show" /\ UNCHANGED mishaps
     \/ mishaps < MaxMishaps /\ mishaps' = mishaps + 1 /\ step' = "failed"
  /\ UNCHANGED <<source, journal, staging, final>>

ShowTransfer ==
  /\ step = "show"
  /\ archive' = [archive EXCEPT !.transfer = "completed"] /\ step' = "settle"
  /\ UNCHANGED <<source, journal, staging, final, mishaps>>

SettleJournal ==
  /\ step = "settle"
  /\ journal' = "completed" /\ step' = "clean"
  /\ UNCHANGED <<source, archive, staging, final, mishaps>>

Clean ==
  /\ step = "clean"
  /\ staging' = "none" /\ step' = "done"
  /\ UNCHANGED <<source, archive, journal, final, mishaps>>

SyncArchive ==
  \/ Unfinished \/ ReadRun \/ Fetch \/ Extract \/ Note \/ Install \/ CompleteRun
  \/ ShowTransfer \/ SettleJournal \/ Clean
-----------------------------------------------------------------------------
ArchiveTypeOK ==
  /\ source \in Ends \cup {"running"}
  /\ archive \in [status: {"running", "completed", "failed", "interrupted"},
                  transfer: {"waiting", "downloading", "failed", "completed", "remote_failed"}]
  /\ journal \in {"none", "verified", "completed"}
  /\ staging \in FileStates /\ final \in {"none", "whole"}
  /\ step \in Working \cup {"idle", "done", "failed", "missing"} /\ mishaps \in 0..MaxMishaps

\* A verified archive is never lost: its files are in one place or in the other
\* until the run is completed, and a completed run has them all.
ArchiveKept ==
  /\ journal = "verified" => staging = "whole" \/ final = "whole"
  /\ archive.status = "completed" => final = "whole"
=============================================================================
