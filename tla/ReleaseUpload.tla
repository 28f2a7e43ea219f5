---------------------------- MODULE ReleaseUpload ----------------------------
(***************************************************************************)
(* backend/data_publishing/internal_jobs.py and upload_jobs.py: the tables *)
(* of a release are sent to the company's storage, file by file.           *)
(*                                                                         *)
(* A job keeps a receipt for each file that was accepted.  Every save      *)
(* writes the job's record and then, in another transaction, the summary   *)
(* in the release; a crash or an exception may come between the two.       *)
(***************************************************************************)
EXTENDS ReleaseImport, Sequences

CONSTANTS Tables,       \* the files of a release, numbered from 1
          MaxAttempts   \* bound on the jobs of a release

Active == {"queued", "uploading"}
JobStatuses == Active \cup {"succeeded", "failed", "interrupted"}
Senders == {"submit", "sender", "boot"}

ASSUME UploadAssumption ==   \* None is none of the records below
  /\ None \notin [no : Nat, status : JobStatuses, done : SUBSET Tables]
  /\ None \notin [rel : Releases, no : Nat, by : Senders]
  /\ None \notin [rel : Releases, no : Nat, status : JobStatuses, done : SUBSET Tables, pc : {"save", "saving", "send"}]

VARIABLES
  jobs,     \* dataset_upload_jobs, by release, in order of creation
  summary,  \* internal_upload of the release: which job it shows, and as what
  saving,   \* the save that has written its job and not yet the summary
  queue,    \* what the executor has yet to run
  sender,   \* the job its thread runs, as it has it in memory
  boot,     \* the jobs mark_interrupted_jobs has yet to look at
  sent      \* how often the storage was asked to take each file

uploadVars == <<jobs, summary, saving, queue, sender, boot, sent>>

UploadInit ==
  /\ jobs = [r \in Releases |-> <<>>] /\ summary = [r \in Releases |-> None]
  /\ saving = None /\ queue = <<>> /\ sender = None /\ boot = {}
  /\ sent = [r \in Releases |-> [f \in Tables |-> 0]]

\* _save_internal, the first half; the lock is kept until the summary is there.
Write(r, n, job, by) ==
  /\ saving = None
  /\ jobs' = [jobs EXCEPT ![r] = IF n > Len(@) THEN Append(@, job) ELSE [@ EXCEPT ![n] = job]]
  /\ saving' = [rel |-> r, no |-> n, by |-> by]

Saved == jobs[saving.rel][saving.no]
Shown == [no |-> saving.no, status |-> Saved.status, done |-> Saved.done]

\* The second half. The caller then goes on: a submission starts its job.
Summarise ==
  /\ saving # None
  /\ summary' = [summary EXCEPT ![saving.rel] = Shown]
  /\ saving' = None
  /\ queue' = IF saving.by = "submit" /\ Saved.status = "queued"
              THEN Append(queue, <<saving.rel, saving.no>>) ELSE queue
  /\ sender' = IF saving.by # "sender" THEN sender
               ELSE IF Saved.status \in Active THEN [sender EXCEPT !.pc = "send"] ELSE None
  /\ UNCHANGED <<jobs, boot, sent>>

-----------------------------------------------------------------------------
(* _submit_internal. *)

\* The job the release shows, as its own record has it.
Previous(r) == IF summary[r] = None THEN {} ELSE {jobs[r][summary[r].no]}

Receipts(r) == UNION {p.done : p \in Previous(r)}

SubmitUpload(r) ==
  /\ phase = "up" /\ r \in releases /\ final[r] = "whole"
  /\ \A p \in Previous(r) : p.status \notin Active \cup {"succeeded"}
  /\ Len(jobs[r]) < MaxAttempts
  /\ Write(r, Len(jobs[r]) + 1,
           [attempt |-> 1 + (IF Previous(r) = {} THEN 0 ELSE jobs[r][summary[r].no].attempt),
            status |-> IF Receipts(r) = Tables THEN "succeeded" ELSE "queued",
            done |-> Receipts(r)], "submit")
  /\ UNCHANGED <<summary, queue, sender, boot, sent>>

-----------------------------------------------------------------------------
(* _run_internal, on one thread. *)

TakeUpload ==
  /\ sender = None /\ queue # <<>>
  /\ LET r == Head(queue)[1]
         n == Head(queue)[2]
     IN  sender' = [rel |-> r, no |-> n, status |-> "uploading", done |-> jobs[r][n].done, pc |-> "save"]
  /\ queue' = Tail(queue)
  /\ UNCHANGED <<jobs, summary, saving, boot, sent>>

SaveUpload ==
  /\ sender # None /\ sender.pc = "save"
  /\ Write(sender.rel, sender.no,
           [jobs[sender.rel][sender.no] EXCEPT !.status = sender.status, !.done = sender.done], "sender")
  /\ sender' = [sender EXCEPT !.pc = "saving"]
  /\ UNCHANGED <<summary, queue, boot, sent>>

Waiting == {f \in Tables : f \notin sender.done}

\* The storage takes the file, and says so or not; or it does not take it.
Send ==
  /\ sender # None /\ sender.pc = "send"
  /\ \E f \in Waiting :
       LET taken == [sent EXCEPT ![sender.rel][f] = @ + 1]
       IN  /\ \A g \in Waiting : f =< g
           /\ \/ /\ sender' = [sender EXCEPT !.done = @ \cup {f}, !.pc = "save"]
                 /\ sent' = taken
              \/ /\ sender' = [sender EXCEPT !.status = "failed", !.pc = "save"]
                 /\ sent' \in {sent, taken}
  /\ UNCHANGED <<jobs, summary, saving, queue, boot>>

AllSent ==
  /\ sender # None /\ sender.pc = "send" /\ Waiting = {}
  /\ sender' = [sender EXCEPT !.status = "succeeded", !.pc = "save"]
  /\ UNCHANGED <<jobs, summary, saving, queue, boot, sent>>

\* A save that raises fails the job, which is saved again with the receipts
\* it has in memory; if that raises too, the thread is done with it.
Reported == IF sender.status = "failed" THEN None
            ELSE [sender EXCEPT !.status = "failed", !.pc = "save"]

SaveFails ==
  /\ faults < MaxFaults /\ faults' = faults + 1
  /\ \/ sender # None /\ sender.pc = "save" /\ saving = None /\ sender' = Reported /\ UNCHANGED saving
     \/ saving # None /\ saving.by = "sender" /\ sender' = Reported /\ saving' = None
     \/ saving # None /\ saving.by = "submit" /\ saving' = None /\ UNCHANGED sender
  /\ UNCHANGED <<jobs, summary, queue, boot, sent>>

-----------------------------------------------------------------------------
(* Restarts. *)

UploadCrash ==
  /\ saving' = None /\ queue' = <<>> /\ sender' = None
  /\ boot' = UNION {{<<r, n>> : n \in DOMAIN jobs[r]} : r \in Releases}
  /\ UNCHANGED <<jobs, summary, sent>>

\* internal_order: the attempt, then the time of creation.
Before(r, m, n) == \/ jobs[r][m].attempt < jobs[r][n].attempt
                   \/ jobs[r][m].attempt = jobs[r][n].attempt /\ m < n

\* Mutant of Interrupted: the receipts are marked as interrupted as well.
InterruptedAll(job) == IF job.status \in Active THEN [job EXCEPT !.status = "interrupted", !.done = {}] ELSE job

Interrupted(job) == IF job.status \in Active THEN [job EXCEPT !.status = "interrupted"] ELSE job

\* Mutant of Repaired: only jobs that were running are looked at.
RepairedActive(r, n) == jobs[r][n].status \in Active

\* What the release shows is not replaced by an older job.
Repaired(r, n) == summary[r] = None \/ ~Before(r, n, summary[r].no)

BootUpload(r, n) ==
  /\ phase = "uploads" /\ saving = None /\ <<r, n>> \in boot
  /\ \A m \in DOMAIN jobs[r] : <<r, m>> \in boot => ~Before(r, m, n)
  /\ boot' = boot \ {<<r, n>>}
  /\ IF Repaired(r, n) THEN Write(r, n, Interrupted(jobs[r][n]), "boot") ELSE UNCHANGED <<jobs, saving>>
  /\ UNCHANGED <<summary, queue, sender, sent>>

UploadsBooted == phase = "uploads" /\ boot = {} /\ saving = None /\ phase' = "imports"

UploadSteps == \/ Summarise \/ TakeUpload \/ SaveUpload \/ Send \/ AllSent
               \/ \E r \in Releases : \E n \in DOMAIN jobs[r] : BootUpload(r, n)

-----------------------------------------------------------------------------
(* A file with a receipt is never sent again, whatever was cut short in     *)
(* between: jobs, summaries, or their repair at a start.                    *)
NeverSentAgain ==
  [][\A r \in Releases, f \in Tables :
       sent'[r][f] # sent[r][f] => \A n \in DOMAIN jobs[r] : f \notin jobs[r][n].done]_<<sent>>

(* When a start has looked at the jobs, no job is shown as running and each *)
(* release shows its latest job, with every receipt there is.               *)
SummaryRepaired ==
  phase = "imports" =>
    \A r \in Releases : jobs[r] # <<>> =>
      \E n \in DOMAIN jobs[r] :
        /\ \A m \in DOMAIN jobs[r] : ~Before(r, n, m)
        /\ summary[r] = [no |-> n, status |-> jobs[r][n].status, done |-> jobs[r][n].done]
        /\ jobs[r][n].status \notin Active
        /\ \A m \in DOMAIN jobs[r] : jobs[r][m].done \subseteq jobs[r][n].done
=============================================================================
