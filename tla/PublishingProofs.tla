-------------------------- MODULE PublishingProofs --------------------------
(***************************************************************************)
(* Uploads and imports, within the whole service: for all imports,         *)
(* requests, releases and files, and any number of jobs, crashes and       *)
(* failed writes.  First: no file with a receipt is sent again, and a      *)
(* start shows of each release its latest job with all receipts.           *)
(***************************************************************************)
EXTENDS Publishing, SequenceTheorems, TLAPS

Job == [attempt : Nat, status : JobStatuses, done : SUBSET Tables]
Summary == [no : Nat, status : JobStatuses, done : SUBSET Tables]
Saving == [rel : Releases, no : Nat, by : Senders]
Sender == [rel : Releases, no : Nat, status : {"uploading", "succeeded", "failed"}, done : SUBSET Tables,
           pc : {"save", "saving", "send"}]

UploadType ==
  /\ jobs \in [Releases -> Seq(Job)]
  /\ summary \in [Releases -> Summary \cup {None}]
  /\ saving \in Saving \cup {None}
  /\ queue \in Seq(Releases \X Nat)
  /\ sender \in Sender \cup {None}
  /\ sent \in [Releases -> [Tables -> Nat]]

\* n is the job that r shows, and its last.
Latest(r, n) == n = Len(jobs[r]) /\ n \in DOMAIN jobs[r] /\ summary[r] # None /\ summary[r].no = n

\* Later jobs of a release have the receipts of earlier ones, and none has more than
\* the one that is shown; so attempts never decrease.
ChainInv ==
  \A r \in Releases :
    /\ summary[r] # None => summary[r].no \in DOMAIN jobs[r]
    /\ \A m, n \in DOMAIN jobs[r] : m < n => /\ jobs[r][m].attempt =< jobs[r][n].attempt
                                             /\ jobs[r][m].done \subseteq jobs[r][n].done
    /\ \A m \in DOMAIN jobs[r] :
         IF summary[r] = None THEN jobs[r][m].attempt =< 1 /\ jobs[r][m].done = {}
         ELSE /\ jobs[r][m].attempt =< 1 + jobs[r][summary[r].no].attempt
              /\ jobs[r][m].done \subseteq jobs[r][summary[r].no].done

\* What waits is the latest job of its release, and the only one of it that waits.
QueueInv ==
  \A k \in DOMAIN queue :
    /\ Latest(queue[k][1], queue[k][2]) /\ jobs[queue[k][1]][queue[k][2]].status = "queued"
    /\ \A j \in DOMAIN queue : queue[j][1] = queue[k][1] => j = k

\* What the thread runs, too; it has every receipt, and nobody may ask for another job.
SenderInv ==
  sender # None =>
    /\ Latest(sender.rel, sender.no)
    /\ jobs[sender.rel][sender.no].done \subseteq sender.done
    /\ sender.pc # "saving" => jobs[sender.rel][sender.no].status \in Active \cup {"succeeded"}
    /\ sender.pc = "saving" => saving # None /\ saving.by = "sender"
    /\ \A k \in DOMAIN queue : queue[k][1] # sender.rel

SavingInv ==
  saving # None =>
    /\ saving.no \in DOMAIN jobs[saving.rel]
    /\ saving.by = "sender" => /\ sender # None /\ sender.pc = "saving"
                               /\ sender.rel = saving.rel /\ sender.no = saving.no
                               /\ Saved.status = sender.status /\ Saved.done = sender.done
    /\ saving.by = "submit" => /\ saving.no = Len(jobs[saving.rel])
                               /\ Saved.status \in {"queued", "succeeded"}
                               /\ \A k \in DOMAIN queue : queue[k][1] # saving.rel
                               /\ sender # None => sender.rel # saving.rel
    /\ saving.by # "sender" => summary[saving.rel] = None \/ summary[saving.rel].no =< saving.no

\* Before the start is over, nothing waits and nothing is sent.
StartInv ==
  /\ phase # "up" => queue = <<>> /\ sender = None /\ (saving # None => saving.by = "boot")
  /\ saving # None /\ saving.by = "boot" => phase = "uploads"

\* What a start looked at is shown, or something later is.
Exact(r) == /\ summary[r] = [no |-> summary[r].no, status |-> jobs[r][summary[r].no].status,
                             done |-> jobs[r][summary[r].no].done]
            /\ jobs[r][summary[r].no].status \notin Active

RepairInv ==
  /\ phase = "uploads" =>
       /\ saving # None => Saved.status \notin Active /\ <<saving.rel, saving.no>> \notin boot
       /\ \A r \in Releases : \A n \in DOMAIN jobs[r] : <<r, n>> \notin boot =>
            \/ (saving # None /\ saving.rel = r /\ n =< saving.no)
            \/ (summary[r] # None /\ n =< summary[r].no)
       /\ \A r \in Releases : summary[r] # None /\ <<r, summary[r].no>> \notin boot =>
            (saving # None /\ saving.rel = r /\ saving.no = summary[r].no) \/ Exact(r)
  /\ phase = "imports" =>
       \A r \in Releases : jobs[r] # <<>> => Latest(r, Len(jobs[r])) /\ Exact(r)

UploadInv == UploadType /\ ChainInv /\ QueueInv /\ SenderInv /\ SavingInv /\ StartInv /\ RepairInv

USE ImportAssumption, UploadAssumption DEF Active, JobStatuses, Senders

uploadState == <<jobs, summary, saving, queue, sender, boot, sent>>

-----------------------------------------------------------------------------
(* Jobs are added at the end or replaced in place. *)

LEMMA Written ==
  ASSUME UploadType, NEW r \in Releases, NEW n \in 1 .. (Len(jobs[r]) + 1), NEW job \in Job,
         NEW by \in Senders, Write(r, n, job, by)
  PROVE  /\ saving = None /\ saving' = [rel |-> r, no |-> n, by |-> by] /\ saving' \in Saving /\ saving' # None
         /\ jobs' \in [Releases -> Seq(Job)]
         /\ Len(jobs'[r]) = IF n > Len(jobs[r]) THEN n ELSE Len(jobs[r])
         /\ DOMAIN jobs'[r] = DOMAIN jobs[r] \cup {n}
         /\ jobs'[r][n] = job
         /\ \A m \in DOMAIN jobs[r] \ {n} : jobs'[r][m] = jobs[r][m]
         /\ \A q \in Releases \ {r} : jobs'[q] = jobs[q]
<1>1. jobs[r] \in Seq(Job) /\ Len(jobs[r]) \in Nat
  BY DEF UploadType
<1>2. saving = None /\ saving' = [rel |-> r, no |-> n, by |-> by] /\ saving' \in Saving /\ saving' # None
  BY <1>1 DEF Write, Saving
<1>3. /\ jobs'[r] = IF n > Len(jobs[r]) THEN Append(jobs[r], job) ELSE [jobs[r] EXCEPT ![n] = job]
      /\ \A q \in Releases \ {r} : jobs'[q] = jobs[q]
      /\ jobs' = [q \in Releases |-> jobs'[q]]
  BY DEF Write, UploadType
<1> DEFINE t == jobs'[r]
           Good == /\ t \in Seq(Job)
                   /\ Len(t) = IF n > Len(jobs[r]) THEN n ELSE Len(jobs[r])
                   /\ t[n] = job
                   /\ \A m \in 1 .. Len(jobs[r]) : m # n => t[m] = jobs[r][m]
<1>4. ASSUME n > Len(jobs[r]) PROVE Good
  <2>1. n = Len(jobs[r]) + 1 /\ t = Append(jobs[r], job)
    BY <1>1, <1>3, <1>4
  <2> HIDE DEF t
  <2> QED BY <1>1, <1>4, <2>1
<1>5. ASSUME n =< Len(jobs[r]) PROVE Good
  <2>1. t = [jobs[r] EXCEPT ![n] = job] /\ n \in 1 .. Len(jobs[r])
    BY <1>1, <1>3, <1>5
  <2> HIDE DEF t
  <2> QED BY <1>1, <2>1, ExceptSeq
<1>6. Good
  BY <1>1, <1>4, <1>5
<1>7. jobs' \in [Releases -> Seq(Job)]
  <2>1. \A q \in Releases : jobs[q] \in Seq(Job)
    BY DEF UploadType
  <2>2. t \in Seq(Job)
    BY <1>6
  <2>3. ASSUME NEW q \in Releases PROVE jobs'[q] \in Seq(Job)
    BY <1>3, <2>1, <2>2
  <2> HIDE DEF t
  <2> QED BY <1>3, <2>3
<1> QED BY <1>1, <1>2, <1>3, <1>6, <1>7

LEMMA UploadStarts == Init => UploadInv
BY DEF Init, ImportInit, UploadInit, UploadInv, UploadType, ChainInv, QueueInv, SenderInv, SavingInv, StartInv, RepairInv

LEMMA UploadUntouched == ASSUME UploadInv, UNCHANGED uploadState, phase' = phase PROVE UploadInv'
<1>1. UploadType'
  BY DEF uploadState, UploadInv, UploadType
<1>2. ChainInv' /\ QueueInv' /\ SenderInv'
  BY DEF uploadState, UploadInv, ChainInv, QueueInv, SenderInv, Latest
<1>3. SavingInv' /\ StartInv'
  BY DEF uploadState, UploadInv, SavingInv, StartInv, Saved
<1>4. RepairInv'
  BY DEF uploadState, UploadInv, RepairInv, Latest, Saved, Exact
<1> QED BY <1>1, <1>2, <1>3, <1>4 DEF UploadInv

LEMMA JobsTyped ==
  ASSUME UploadInv, NEW r \in Releases
  PROVE  /\ Len(jobs[r]) \in Nat /\ DOMAIN jobs[r] = 1 .. Len(jobs[r])
         /\ \A m \in DOMAIN jobs[r] : jobs[r][m] \in Job
BY DEF UploadInv, UploadType

-----------------------------------------------------------------------------
(* The second half of a save. *)

LEMMA SummariseInv == ASSUME UploadInv, Summarise, phase' = phase PROVE UploadInv'
<1>0. saving \in Saving /\ saving.no \in DOMAIN jobs[saving.rel] /\ saving # None
  BY DEF Summarise, UploadInv, UploadType, SavingInv, Saving
<1>01. PICK r \in Releases, n \in Nat : r = saving.rel /\ n = saving.no
  BY <1>0 DEF Saving
<1>1. saving \in Saving /\ r = saving.rel /\ n = saving.no /\ n \in DOMAIN jobs[r] /\ saving # None
  BY <1>0, <1>01
<1>2. Saved \in Job /\ n \in Nat /\ Shown \in Summary /\ Shown # None
  <2>1. Saved \in Job /\ n \in Nat
    BY <1>1, JobsTyped DEF Saved
  <2>2. Shown \in Summary
    BY <1>1, <2>1 DEF Shown, Summary, Job
  <2> QED BY <2>1, <2>2 DEF Summary
<1>3. /\ summary' = [summary EXCEPT ![r] = Shown] /\ saving' = None /\ UNCHANGED <<jobs, boot, sent>>
      /\ Shown.no = n /\ Shown.status = jobs[r][n].status /\ Shown.done = jobs[r][n].done
      /\ Saved = jobs[r][n]
  BY <1>1 DEF Summarise, Shown, Saved
<1>4. summary'[r] = Shown /\ \A q \in Releases \ {r} : summary'[q] = summary[q]
  BY <1>1, <1>3 DEF UploadInv, UploadType
<1>5. summary[r] = None \/ summary[r].no =< n
  BY <1>1, <1>2 DEF UploadInv, SavingInv, SenderInv, Latest, Saving
<1>6. /\ \A k \in DOMAIN queue : queue[k][1] # r
      /\ saving.by # "sender" => sender = None \/ sender.rel # r
      /\ saving.by = "boot" => queue = <<>> /\ sender = None
  BY <1>1 DEF UploadInv, SavingInv, SenderInv, StartInv, Saving
<1>7. /\ queue' = IF saving.by = "submit" /\ Saved.status = "queued" THEN Append(queue, <<r, n>>) ELSE queue
      /\ sender' = IF saving.by # "sender" THEN sender
                   ELSE IF Saved.status \in Active THEN [sender EXCEPT !.pc = "send"] ELSE None
  BY <1>1 DEF Summarise
<1>8. UploadType'
  <2>1. summary' \in [Releases -> Summary \cup {None}]
    BY <1>1, <1>2, <1>3 DEF UploadInv, UploadType
  <2>2. queue' \in Seq(Releases \X Nat)
    BY <1>1, <1>2, <1>7 DEF UploadInv, UploadType
  <2>3. sender' \in Sender \cup {None}
    <3>1. CASE saving.by = "sender"
      <4>1. sender \in Sender /\ sender # None
        BY <1>1, <3>1 DEF UploadInv, UploadType, SavingInv
      <4>2. [sender EXCEPT !.pc = "send"] \in Sender
        BY <4>1 DEF Sender
      <4> QED BY <1>7, <3>1, <4>1, <4>2
    <3>2. CASE saving.by # "sender"
      BY <1>7, <3>2 DEF UploadInv, UploadType
    <3> QED BY <3>1, <3>2
  <2> QED BY <1>3, <2>1, <2>2, <2>3 DEF UploadInv, UploadType
<1>9. ChainInv'
  <2> SUFFICES ASSUME NEW q \in Releases
               PROVE  (/\ summary[q] # None => summary[q].no \in DOMAIN jobs[q]
                       /\ \A m, k \in DOMAIN jobs[q] : m < k => /\ jobs[q][m].attempt =< jobs[q][k].attempt
                                                                /\ jobs[q][m].done \subseteq jobs[q][k].done
                       /\ \A m \in DOMAIN jobs[q] :
                            IF summary[q] = None THEN jobs[q][m].attempt =< 1 /\ jobs[q][m].done = {}
                            ELSE /\ jobs[q][m].attempt =< 1 + jobs[q][summary[q].no].attempt
                                 /\ jobs[q][m].done \subseteq jobs[q][summary[q].no].done)'
    BY DEF ChainInv
  <2>1. CASE q # r
    BY <1>3, <1>4, <2>1 DEF UploadInv, ChainInv
  <2>2. CASE q = r
    <3>1. \A m \in DOMAIN jobs[r] : jobs[r][m].attempt \in Nat
      BY <1>1, JobsTyped DEF Job
    <3>2. ASSUME NEW m \in DOMAIN jobs[r]
          PROVE  jobs[r][m].attempt =< 1 + jobs[r][n].attempt /\ jobs[r][m].done \subseteq jobs[r][n].done
      <4>1. CASE summary[r] = None
        BY <1>1, <3>1, <4>1 DEF UploadInv, ChainInv
      <4>2. CASE summary[r] # None
        <5>1. summary[r].no \in DOMAIN jobs[r] /\ DOMAIN jobs[r] \subseteq Nat
          BY <1>1, <4>2, JobsTyped DEF UploadInv, ChainInv
        <5>2. /\ jobs[r][summary[r].no].attempt =< jobs[r][n].attempt
              /\ jobs[r][summary[r].no].done \subseteq jobs[r][n].done
          <6>1. CASE summary[r].no = n
            BY <1>1, <3>1, <6>1
          <6>2. CASE summary[r].no < n
            BY <1>1, <4>2, <5>1, <6>2 DEF UploadInv, ChainInv
          <6> QED BY <1>1, <1>5, <4>2, <5>1, <6>1, <6>2
        <5>3. /\ jobs[r][m].attempt =< 1 + jobs[r][summary[r].no].attempt
              /\ jobs[r][m].done \subseteq jobs[r][summary[r].no].done
          BY <1>1, <4>2 DEF UploadInv, ChainInv
        <5> QED BY <1>1, <3>1, <5>1, <5>2, <5>3
      <4> QED BY <4>1, <4>2
    <3>3. /\ summary'[r] # None /\ summary'[r].no = n /\ n \in DOMAIN jobs[r] /\ jobs' = jobs
          /\ \A m, k \in DOMAIN jobs[r] : m < k => /\ jobs[r][m].attempt =< jobs[r][k].attempt
                                                   /\ jobs[r][m].done \subseteq jobs[r][k].done
      BY <1>1, <1>2, <1>3, <1>4 DEF UploadInv, ChainInv
    <3> QED BY <2>2, <3>2, <3>3
  <2> QED BY <2>1, <2>2
<1>10. \A q \in Releases, k \in Nat : Latest(q, k) /\ q # r => Latest(q, k)'
  BY <1>3, <1>4 DEF Latest
<1>11. n = Len(jobs[r]) => Latest(r, n)'
  <2>1. summary'[r] = Shown /\ Shown # None /\ Shown.no = n /\ jobs' = jobs /\ n \in DOMAIN jobs[r]
    BY <1>1, <1>2, <1>3, <1>4
  <2> QED BY <2>1 DEF Latest
<1>12. QueueInv'
  <2>1. CASE queue' = queue
    BY <1>3, <1>6, <1>10, <2>1 DEF UploadInv, UploadType, QueueInv
  <2>2. CASE saving.by = "submit" /\ Saved.status = "queued"
    <3>1. queue' = Append(queue, <<r, n>>) /\ Latest(r, n)' /\ jobs'[r][n].status = "queued"
      BY <1>1, <1>3, <1>7, <1>11, <2>2 DEF UploadInv, SavingInv
    <3>2. /\ DOMAIN queue = 1 .. Len(queue) /\ DOMAIN queue' = 1 .. (Len(queue) + 1) /\ Len(queue) \in Nat
          /\ \A k \in DOMAIN queue : queue'[k] = queue[k]
          /\ queue'[Len(queue) + 1] = <<r, n>>
      BY <3>1 DEF UploadInv, UploadType
    <3>3. \A k \in DOMAIN queue : queue[k][1] \in Releases /\ queue[k][2] \in Nat
      BY DEF UploadInv, UploadType
    <3>4. \A k \in DOMAIN queue : Latest(queue[k][1], queue[k][2])' /\ (jobs[queue[k][1]][queue[k][2]].status)' = "queued"
      <4>1. ASSUME NEW k \in DOMAIN queue
            PROVE  Latest(queue[k][1], queue[k][2])' /\ (jobs[queue[k][1]][queue[k][2]].status)' = "queued"
        <5>0. PICK q \in Releases, j \in Nat : q = queue[k][1] /\ j = queue[k][2]
          BY <3>3
        <5>1. q # r /\ Latest(q, j) /\ jobs[q][j].status = "queued" /\ queue'[k][1] = q /\ queue'[k][2] = j
          BY <1>6, <3>2, <5>0 DEF UploadInv, QueueInv
        <5>2. summary'[q] = summary[q] /\ jobs' = jobs
          BY <1>3, <1>4, <5>1
        <5> QED BY <5>1, <5>2 DEF Latest
      <4> QED BY <4>1
    <3>5. \A j, k \in DOMAIN queue : queue[j][1] = queue[k][1] => j = k
      BY DEF UploadInv, QueueInv
    <3> QED BY <1>6, <3>1, <3>2, <3>4, <3>5 DEF QueueInv
  <2> QED BY <1>7, <2>1, <2>2
<1>13. SenderInv'
  <2> SUFFICES ASSUME sender' # None PROVE SenderInv'
    BY DEF SenderInv
  <2>1. CASE saving.by # "sender"
    <3>1. sender' = sender /\ sender \in Sender /\ sender.rel # r /\ sender.pc # "saving"
      BY <1>6, <1>7, <2>1 DEF UploadInv, UploadType, SenderInv
    <3>2. Latest(sender.rel, sender.no)'
      BY <1>10, <3>1 DEF UploadInv, SenderInv, Sender
    <3>3. \A k \in DOMAIN queue' : queue'[k][1] # sender.rel
      BY <1>7, <3>1 DEF UploadInv, UploadType, SenderInv
    <3> QED BY <1>3, <3>1, <3>2, <3>3 DEF UploadInv, SenderInv
  <2>2. CASE saving.by = "sender"
    <3>1. sender \in Sender /\ sender.rel = r /\ sender.no = n /\ n = Len(jobs[r]) /\ Saved.status = sender.status
      BY <1>1, <2>2 DEF UploadInv, UploadType, SavingInv, SenderInv, Latest
    <3>2. sender' = [sender EXCEPT !.pc = "send"] /\ Saved.status \in Active /\ queue' = queue
      BY <1>7, <2>2
    <3> QED BY <1>3, <1>6, <1>11, <3>1, <3>2 DEF UploadInv, SenderInv, Sender
  <2> QED BY <2>1, <2>2
<1>14. SavingInv'
  BY <1>3 DEF SavingInv
<1>15. StartInv'
  BY <1>1, <1>3, <1>6, <1>7 DEF UploadInv, StartInv
<1>16. RepairInv'
  <2>1. ASSUME phase = "uploads"
        PROVE  /\ \A q \in Releases : \A m \in DOMAIN jobs[q] : <<q, m>> \notin boot => summary'[q] # None /\ m =< summary'[q].no
               /\ \A q \in Releases : summary'[q] # None /\ <<q, summary'[q].no>> \notin boot => Exact(q)'
    <3>1. jobs[r][n].status \notin Active /\ <<r, n>> \notin boot
      BY <1>1, <1>3, <2>1 DEF UploadInv, RepairInv
    <3>2. Exact(r)'
      BY <1>1, <1>3, <1>4, <3>1 DEF Exact, Shown
    <3>3. ASSUME NEW q \in Releases, NEW m \in DOMAIN jobs[q], <<q, m>> \notin boot
          PROVE  summary'[q] # None /\ m =< summary'[q].no
      <4>1. CASE q = r
        <5>1. m \in Nat /\ ((m =< n) \/ (summary[r] # None /\ m =< summary[r].no))
          BY <1>1, <2>1, <3>3, <4>1, JobsTyped DEF UploadInv, RepairInv
        <5>2. summary[r] # None => summary[r].no \in Nat
          BY <1>1, JobsTyped DEF UploadInv, ChainInv
        <5> QED BY <1>2, <1>3, <1>4, <1>5, <4>1, <5>1, <5>2
      <4>2. CASE q # r
        <5>1. summary'[q] = summary[q] /\ saving.rel # q
          BY <1>1, <1>4, <4>2
        <5>2. RepairInv
          BY DEF UploadInv
        <5> QED BY <2>1, <3>3, <5>1, <5>2 DEF RepairInv
      <4> QED BY <4>1, <4>2
    <3>4. ASSUME NEW q \in Releases, summary'[q] # None /\ <<q, summary'[q].no>> \notin boot, q # r
          PROVE  Exact(q)'
      <4>1. summary'[q] = summary[q] /\ jobs' = jobs /\ saving.rel # q
        BY <1>1, <1>3, <1>4, <3>4
      <4>2. RepairInv
        BY DEF UploadInv
      <4>3. Exact(q)
        BY <2>1, <3>4, <4>1, <4>2 DEF RepairInv
      <4> QED BY <4>1, <4>3 DEF Exact
    <3> QED BY <3>2, <3>3, <3>4
  <2>2. phase # "imports"
    BY <1>1 DEF UploadInv, StartInv
  <2> QED BY <1>3, <2>1, <2>2 DEF RepairInv
<1> QED BY <1>8, <1>9, <1>12, <1>13, <1>14, <1>15, <1>16 DEF UploadInv

-----------------------------------------------------------------------------
(* A submission adds a job with all receipts; it is not one that is still    *)
(* running that it follows, so nothing of the release waits or is sent.      *)

LEMMA SubmitInv == ASSUME UploadInv, NEW r \in Releases, SubmitUpload(r), phase' = phase PROVE UploadInv'
<1> DEFINE n == Len(jobs[r]) + 1
           shown == summary[r].no
           done == Receipts(r)
           attempt == 1 + (IF Previous(r) = {} THEN 0 ELSE jobs[r][shown].attempt)
           job == [attempt |-> attempt, status |-> IF done = Tables THEN "succeeded" ELSE "queued", done |-> done]
<1>1. /\ phase = "up" /\ Write(r, n, job, "submit") /\ UNCHANGED <<summary, queue, sender, boot, sent>>
      /\ \A p \in Previous(r) : p.status \notin Active \cup {"succeeded"}
  BY DEF SubmitUpload
<1>2. summary[r] # None => /\ shown \in DOMAIN jobs[r] /\ jobs[r][shown] \in Job
                           /\ jobs[r][shown].status \notin Active \cup {"succeeded"}
                           /\ attempt = 1 + jobs[r][shown].attempt /\ done = jobs[r][shown].done
  <2> SUFFICES ASSUME summary[r] # None PROVE <1>2!2
    OBVIOUS
  <2>1. Previous(r) = {jobs[r][shown]} /\ done = jobs[r][shown].done
    BY DEF Previous, Receipts
  <2>2. shown \in DOMAIN jobs[r]
    BY DEF UploadInv, ChainInv
  <2> QED BY <1>1, <2>1, <2>2, JobsTyped
<1>3. summary[r] = None => attempt = 1 /\ done = {}
  BY DEF Previous, Receipts
<1>4. job \in Job
  <2>1. attempt \in Nat /\ done \in SUBSET Tables
    BY <1>2, <1>3 DEF Job
  <2> QED BY <2>1 DEF Job
<1>5. n \in 1 .. (Len(jobs[r]) + 1) /\ n > Len(jobs[r]) /\ n \in Nat /\ DOMAIN jobs[r] = 1 .. Len(jobs[r])
  BY JobsTyped
<1>6. job.attempt = attempt /\ job.done = done /\ job.status \in {"queued", "succeeded"}
  OBVIOUS
<1> HIDE DEF job, attempt, done
<1>7. /\ saving = None /\ saving' = [rel |-> r, no |-> n, by |-> "submit"] /\ saving' \in Saving /\ saving' # None
      /\ jobs' \in [Releases -> Seq(Job)]
      /\ Len(jobs'[r]) = n /\ DOMAIN jobs'[r] = DOMAIN jobs[r] \cup {n} /\ jobs'[r][n] = job
      /\ \A m \in DOMAIN jobs[r] : jobs'[r][m] = jobs[r][m]
      /\ \A q \in Releases \ {r} : jobs'[q] = jobs[q]
  <2>1. UploadType
    BY DEF UploadInv
  <2> HIDE DEF n
  <2> QED BY <1>1, <1>4, <1>5, <2>1, Written
<1> HIDE DEF n
<1>8. UploadType'
  BY <1>1, <1>7 DEF UploadInv, UploadType
<1>9. ASSUME NEW q \in Releases, NEW k \in Nat, Latest(q, k), jobs[q][k].status \in Active \cup {"succeeded"}
      PROVE  q # r /\ Latest(q, k)' /\ jobs'[q] = jobs[q]
  BY <1>1, <1>2, <1>7, <1>9 DEF Latest
<1>10. \A k \in DOMAIN queue : queue[k][1] \in Releases \ {r} /\ queue[k][2] \in Nat
                              /\ jobs'[queue[k][1]] = jobs[queue[k][1]]
  <2>1. \A k \in DOMAIN queue : queue[k][1] \in Releases /\ queue[k][2] \in Nat
    BY DEF UploadInv, UploadType
  <2> QED BY <1>9, <2>1 DEF UploadInv, QueueInv
<1>11. sender # None => sender \in Sender /\ sender.rel \in Releases \ {r} /\ sender.no \in Nat /\ jobs'[sender.rel] = jobs[sender.rel]
  <2>1. sender # None => sender \in Sender /\ sender.rel \in Releases /\ sender.no \in Nat
    BY DEF UploadInv, UploadType, Sender
  <2> QED BY <1>7, <1>9, <2>1 DEF UploadInv, SenderInv
<1>12. ChainInv'
  <2>1. DOMAIN jobs'[r] = 1 .. n /\ DOMAIN jobs[r] = 1 .. (n - 1)
    BY <1>5, <1>7 DEF n
  <2>2. ASSUME NEW m \in DOMAIN jobs[r] PROVE jobs[r][m].attempt =< attempt /\ jobs[r][m].done \subseteq done
    BY <1>2, <1>3 DEF UploadInv, ChainInv
  <2>3. \A m, k \in DOMAIN jobs'[r] : m < k => /\ jobs'[r][m].attempt =< jobs'[r][k].attempt
                                               /\ jobs'[r][m].done \subseteq jobs'[r][k].done
    <3> SUFFICES ASSUME NEW m \in DOMAIN jobs'[r], NEW k \in DOMAIN jobs'[r], m < k
                 PROVE  jobs'[r][m].attempt =< jobs'[r][k].attempt /\ jobs'[r][m].done \subseteq jobs'[r][k].done
      OBVIOUS
    <3>1. m \in DOMAIN jobs[r] /\ (k \in DOMAIN jobs[r] \/ k = n)
      BY <1>5, <2>1
    <3>2. CASE k = n
      BY <1>6, <1>7, <2>2, <3>1, <3>2
    <3>3. CASE k \in DOMAIN jobs[r]
      BY <1>7, <3>1, <3>3 DEF UploadInv, ChainInv
    <3> QED BY <3>1, <3>2, <3>3
  <2>4. \A m \in DOMAIN jobs'[r] :
          IF summary[r] = None THEN jobs'[r][m].attempt =< 1 /\ jobs'[r][m].done = {}
          ELSE /\ jobs'[r][m].attempt =< 1 + jobs'[r][shown].attempt
               /\ jobs'[r][m].done \subseteq jobs'[r][shown].done
    <3>1. ASSUME NEW m \in DOMAIN jobs[r] PROVE <2>4!(m)
      BY <1>2, <1>7 DEF UploadInv, ChainInv
    <3>2. <2>4!(n)
      BY <1>2, <1>3, <1>6, <1>7 DEF Job
    <3> QED BY <1>7, <3>1, <3>2
  <2> SUFFICES ASSUME NEW q \in Releases
               PROVE  (/\ summary[q] # None => summary[q].no \in DOMAIN jobs[q]
                       /\ \A m, k \in DOMAIN jobs[q] : m < k => /\ jobs[q][m].attempt =< jobs[q][k].attempt
                                                                /\ jobs[q][m].done \subseteq jobs[q][k].done
                       /\ \A m \in DOMAIN jobs[q] :
                            IF summary[q] = None THEN jobs[q][m].attempt =< 1 /\ jobs[q][m].done = {}
                            ELSE /\ jobs[q][m].attempt =< 1 + jobs[q][summary[q].no].attempt
                                 /\ jobs[q][m].done \subseteq jobs[q][summary[q].no].done)'
    BY DEF ChainInv
  <2>5. CASE q # r
    BY <1>1, <1>7, <2>5 DEF UploadInv, ChainInv
  <2>6. CASE q = r
    BY <1>1, <1>2, <1>7, <2>3, <2>4, <2>6
  <2> QED BY <2>5, <2>6
<1>13. QueueInv'
  <2> SUFFICES ASSUME NEW k \in DOMAIN queue
               PROVE  (/\ Latest(queue[k][1], queue[k][2]) /\ jobs[queue[k][1]][queue[k][2]].status = "queued"
                       /\ \A j \in DOMAIN queue : queue[j][1] = queue[k][1] => j = k)'
    BY <1>1 DEF QueueInv
  <2>1. Latest(queue[k][1], queue[k][2]) /\ jobs[queue[k][1]][queue[k][2]].status = "queued"
    BY DEF UploadInv, QueueInv
  <2>2. \A j \in DOMAIN queue : queue[j][1] = queue[k][1] => j = k
    BY DEF UploadInv, QueueInv
  <2> QED BY <1>1, <1>10, <2>1, <2>2 DEF Latest
<1>14. SenderInv'
  BY <1>1, <1>7, <1>11 DEF UploadInv, SenderInv, Latest
<1>15. SavingInv'
  <2>1. (Saved.status)' \in {"queued", "succeeded"}
    BY <1>6, <1>7 DEF Saved
  <2>2. summary[r] # None => summary[r].no =< n
    BY <1>2, <1>5
  <2> QED BY <1>1, <1>7, <1>10, <1>11, <2>1, <2>2 DEF SavingInv
<1>16. StartInv' /\ RepairInv'
  BY <1>1, <1>7 DEF StartInv, RepairInv
<1> QED BY <1>8, <1>12, <1>13, <1>14, <1>15, <1>16 DEF UploadInv

-----------------------------------------------------------------------------
(* The thread. *)

\* What the thread runs is of a release, and the service is up.
LEMMA SenderTyped ==
  ASSUME UploadInv, sender # None
  PROVE  /\ sender \in Sender /\ sender.rel \in Releases /\ sender.no \in Nat /\ phase = "up"
         /\ Latest(sender.rel, sender.no) /\ jobs[sender.rel][sender.no] \in Job
<1>1. sender \in Sender /\ sender.rel \in Releases /\ sender.no \in Nat /\ phase = "up"
  BY DEF UploadInv, UploadType, Sender, StartInv
<1>2. Latest(sender.rel, sender.no)
  BY DEF UploadInv, SenderInv
<1> QED BY <1>1, <1>2, JobsTyped DEF Latest

LEMMA TakeInv == ASSUME UploadInv, TakeUpload, phase' = phase PROVE UploadInv'
<1>1. /\ DOMAIN queue = 1 .. Len(queue) /\ Len(queue) \in Nat \ {0} /\ queue' = Tail(queue)
      /\ DOMAIN queue' = 1 .. (Len(queue) - 1) /\ queue' \in Seq(Releases \X Nat)
      /\ \A k \in DOMAIN queue' : queue'[k] = queue[k + 1] /\ k + 1 \in DOMAIN queue
      /\ Head(queue) = queue[1] /\ 1 \in DOMAIN queue /\ queue[1] \in Releases \X Nat
  BY DEF TakeUpload, UploadInv, UploadType
<1>2. PICK r \in Releases, n \in Nat : r = queue[1][1] /\ n = queue[1][2]
  BY <1>1
<1>3. /\ sender = None /\ UNCHANGED <<jobs, summary, saving, boot, sent>>
      /\ sender' = [rel |-> r, no |-> n, status |-> "uploading", done |-> jobs[r][n].done, pc |-> "save"]
  BY <1>1, <1>2 DEF TakeUpload
<1>4. Latest(r, n) /\ jobs[r][n].status = "queued" /\ \A k \in DOMAIN queue : queue[k][1] = r => k = 1
  BY <1>1, <1>2 DEF UploadInv, QueueInv
<1>5. jobs[r][n] \in Job
  BY <1>4, JobsTyped DEF Latest
<1>6. sender' \in Sender /\ sender' # None
  BY <1>3, <1>5 DEF Sender, Job
<1>7. \A k \in DOMAIN queue' : queue'[k][1] # r
  BY <1>1, <1>4
<1>8. UploadType'
  BY <1>1, <1>3, <1>6 DEF UploadInv, UploadType
<1>9. ChainInv'
  BY <1>3 DEF UploadInv, ChainInv
<1>10. QueueInv'
  <2> SUFFICES ASSUME NEW k \in DOMAIN queue'
               PROVE  (/\ Latest(queue[k][1], queue[k][2]) /\ jobs[queue[k][1]][queue[k][2]].status = "queued"
                       /\ \A j \in DOMAIN queue : queue[j][1] = queue[k][1] => j = k)'
    BY DEF QueueInv
  <2>1. queue'[k] = queue[k + 1] /\ k + 1 \in DOMAIN queue
    BY <1>1
  <2>2. Latest(queue[k + 1][1], queue[k + 1][2]) /\ jobs[queue[k + 1][1]][queue[k + 1][2]].status = "queued"
    BY <2>1 DEF UploadInv, QueueInv
  <2>3. ASSUME NEW j \in DOMAIN queue', queue'[j][1] = queue'[k][1] PROVE j = k
    <3>1. j + 1 \in DOMAIN queue /\ queue[j + 1][1] = queue[k + 1][1]
      BY <1>1, <2>1, <2>3
    <3>2. j + 1 = k + 1
      BY <2>1, <3>1 DEF UploadInv, QueueInv
    <3> QED BY <1>1, <3>2
  <2> QED BY <1>3, <2>1, <2>2, <2>3 DEF Latest
<1>11. SenderInv'
  BY <1>3, <1>4, <1>7 DEF SenderInv, Latest
<1>12. SavingInv'
  <2>1. saving # None => saving.by # "sender" /\ (saving.by = "submit" => saving.rel # r)
    BY <1>1, <1>2, <1>3 DEF UploadInv, SavingInv
  <2>2. ASSUME saving # None, saving.by = "submit" PROVE \A k \in DOMAIN queue' : queue'[k][1] # saving.rel
    BY <1>1, <2>2 DEF UploadInv, SavingInv
  <2> QED BY <1>3, <2>1, <2>2 DEF UploadInv, SavingInv, Saved
<1>13. StartInv'
  BY <1>1, <1>3 DEF UploadInv, StartInv
<1>14. RepairInv'
  BY <1>3 DEF UploadInv, RepairInv, Latest, Exact, Saved
<1> QED BY <1>8, <1>9, <1>10, <1>11, <1>12, <1>13, <1>14 DEF UploadInv

\* The storage answers; or there was nothing left to send.
LEMMA AnsweredInv ==
  ASSUME UploadInv, sender # None, sender.pc = "send", NEW done \in SUBSET Tables, sender.done \subseteq done,
         NEW status \in {"uploading", "succeeded", "failed"},
         sender' = [sender EXCEPT !.status = status, !.done = done, !.pc = "save"],
         UNCHANGED <<jobs, summary, saving, queue, boot>>, sent' \in [Releases -> [Tables -> Nat]], phase' = phase
  PROVE  UploadInv'
<1>1. sender' \in Sender /\ sender' # None /\ sender'.rel = sender.rel /\ sender'.no = sender.no
      /\ sender'.pc = "save" /\ sender'.done = done
  BY SenderTyped DEF Sender
<1>2. saving # None => saving.by # "sender"
  BY DEF UploadInv, SavingInv
<1>3. UploadType'
  BY <1>1 DEF UploadInv, UploadType
<1>4. ChainInv' /\ QueueInv'
  BY DEF UploadInv, ChainInv, QueueInv, Latest
<1>5. SenderInv'
  BY <1>1 DEF UploadInv, SenderInv, Latest
<1>6. SavingInv'
  BY <1>1, <1>2 DEF UploadInv, SavingInv, Saved
<1>7. StartInv' /\ RepairInv'
  BY SenderTyped DEF UploadInv, StartInv, RepairInv
<1> QED BY <1>3, <1>4, <1>5, <1>6, <1>7 DEF UploadInv

LEMMA SendInv == ASSUME UploadInv, Send, phase' = phase PROVE UploadInv'
<1>1. PICK f \in Waiting :
        \/ /\ sender' = [sender EXCEPT !.done = @ \cup {f}, !.pc = "save"]
           /\ sent' = [sent EXCEPT ![sender.rel][f] = @ + 1]
        \/ /\ sender' = [sender EXCEPT !.status = "failed", !.pc = "save"]
           /\ sent' \in {sent, [sent EXCEPT ![sender.rel][f] = @ + 1]}
  BY DEF Send
<1>2. /\ sender # None /\ sender.pc = "send" /\ UNCHANGED <<jobs, summary, saving, queue, boot>>
      /\ f \in Tables /\ sender \in Sender /\ sender.rel \in Releases
  BY SenderTyped DEF Send, Waiting
<1>3. sent' \in [Releases -> [Tables -> Nat]]
  <2>1. sent \in [Releases -> [Tables -> Nat]]
    BY DEF UploadInv, UploadType
  <2>2. [sent EXCEPT ![sender.rel][f] = @ + 1] \in [Releases -> [Tables -> Nat]]
    BY <1>2, <2>1
  <2> QED BY <1>1, <2>1, <2>2
<1>4. PICK done \in SUBSET Tables, status \in {"uploading", "succeeded", "failed"} :
        /\ sender.done \subseteq done
        /\ sender' = [sender EXCEPT !.status = status, !.done = done, !.pc = "save"]
  <2>1. sender.status \in {"uploading", "succeeded", "failed"} /\ sender.done \in SUBSET Tables
    BY <1>2 DEF Sender
  <2>2. CASE sender' = [sender EXCEPT !.done = @ \cup {f}, !.pc = "save"]
    <3>1. sender' = [sender EXCEPT !.status = sender.status, !.done = sender.done \cup {f}, !.pc = "save"]
      BY <1>2, <2>2 DEF Sender
    <3>2. sender.done \cup {f} \in SUBSET Tables /\ sender.done \subseteq sender.done \cup {f}
      BY <1>2, <2>1
    <3> QED BY <2>1, <3>1, <3>2
  <2>3. CASE sender' = [sender EXCEPT !.status = "failed", !.pc = "save"]
    <3>1. sender' = [sender EXCEPT !.status = "failed", !.done = sender.done, !.pc = "save"]
      BY <1>2, <2>3 DEF Sender
    <3> QED BY <2>1, <3>1
  <2> QED BY <1>1, <2>2, <2>3
<1> QED BY <1>2, <1>3, <1>4, AnsweredInv

LEMMA AllSentInv == ASSUME UploadInv, AllSent, phase' = phase PROVE UploadInv'
<1>1. /\ sender # None /\ sender.pc = "send" /\ UNCHANGED <<jobs, summary, saving, queue, boot, sent>>
      /\ sender \in Sender
  BY SenderTyped DEF AllSent
<1>2. sender.done \in SUBSET Tables /\ sent \in [Releases -> [Tables -> Nat]]
  BY <1>1 DEF UploadInv, UploadType, Sender
<1>3. sender' = [sender EXCEPT !.status = "succeeded", !.done = sender.done, !.pc = "save"]
  BY <1>1 DEF AllSent, Sender
<1> QED BY <1>1, <1>2, <1>3, AnsweredInv

LEMMA SaveInv == ASSUME UploadInv, SaveUpload, phase' = phase PROVE UploadInv'
<1>1. PICK r \in Releases, n \in Nat : r = sender.rel /\ n = sender.no
  BY SenderTyped DEF SaveUpload
<1> DEFINE job == [jobs[r][n] EXCEPT !.status = sender.status, !.done = sender.done]
<1>2. /\ sender # None /\ sender.pc = "save" /\ Write(r, n, job, "sender")
      /\ sender' = [sender EXCEPT !.pc = "saving"] /\ UNCHANGED <<summary, queue, boot, sent>>
  BY <1>1 DEF SaveUpload
<1>3. sender \in Sender /\ phase = "up" /\ Latest(r, n) /\ jobs[r][n] \in Job /\ jobs[r][n].done \subseteq sender.done
  BY <1>1, <1>2, SenderTyped DEF UploadInv, SenderInv
<1>4. job \in Job /\ job.attempt = jobs[r][n].attempt /\ job.done = sender.done /\ job.status = sender.status
  BY <1>3 DEF Job, Sender
<1>5. n \in 1 .. (Len(jobs[r]) + 1) /\ n = Len(jobs[r]) /\ DOMAIN jobs[r] = 1 .. n /\ n \in DOMAIN jobs[r]
  BY <1>3, JobsTyped DEF Latest
<1>6. sender' \in Sender /\ sender' # None /\ sender'.rel = r /\ sender'.no = n /\ sender'.pc = "saving"
      /\ sender'.done = sender.done /\ sender'.status = sender.status
  BY <1>1, <1>2, <1>3 DEF Sender
<1> HIDE DEF job
<1>7. /\ saving = None /\ saving' = [rel |-> r, no |-> n, by |-> "sender"] /\ saving' \in Saving /\ saving' # None
      /\ jobs' \in [Releases -> Seq(Job)]
      /\ Len(jobs'[r]) = n /\ DOMAIN jobs'[r] = DOMAIN jobs[r] /\ jobs'[r][n] = job
      /\ \A m \in DOMAIN jobs[r] \ {n} : jobs'[r][m] = jobs[r][m]
      /\ \A q \in Releases \ {r} : jobs'[q] = jobs[q]
  <2>1. UploadType
    BY DEF UploadInv
  <2>2. /\ saving = None /\ saving' = [rel |-> r, no |-> n, by |-> "sender"] /\ saving' \in Saving /\ saving' # None
        /\ jobs' \in [Releases -> Seq(Job)]
        /\ Len(jobs'[r]) = IF n > Len(jobs[r]) THEN n ELSE Len(jobs[r])
        /\ DOMAIN jobs'[r] = DOMAIN jobs[r] \cup {n} /\ jobs'[r][n] = job
        /\ \A m \in DOMAIN jobs[r] \ {n} : jobs'[r][m] = jobs[r][m]
        /\ \A q \in Releases \ {r} : jobs'[q] = jobs[q]
    BY <1>2, <1>4, <1>5, <2>1, Written
  <2> QED BY <1>5, <2>2
<1>8. UploadType'
  BY <1>2, <1>6, <1>7 DEF UploadInv, UploadType
<1>9. ChainInv'
  <2>1. summary[r] # None /\ summary[r].no = n /\ summary' = summary
    BY <1>2, <1>3 DEF Latest
  <2>2. \A m \in DOMAIN jobs[r] : jobs[r][m].attempt =< 1 + jobs[r][n].attempt /\ jobs[r][m].done \subseteq jobs[r][n].done
    BY <1>1, <2>1 DEF UploadInv, ChainInv
  <2>3. ASSUME NEW m \in DOMAIN jobs[r]
        PROVE  /\ jobs'[r][m].attempt = jobs[r][m].attempt /\ jobs'[r][m].done \subseteq sender.done
               /\ m # n => jobs'[r][m].done = jobs[r][m].done
    BY <1>3, <1>4, <1>7, <2>2
  <2>4. \A m, k \in DOMAIN jobs[r] : m < k => /\ jobs'[r][m].attempt =< jobs'[r][k].attempt
                                              /\ jobs'[r][m].done \subseteq jobs'[r][k].done
    <3> SUFFICES ASSUME NEW m \in DOMAIN jobs[r], NEW k \in DOMAIN jobs[r], m < k
                 PROVE  jobs'[r][m].attempt =< jobs'[r][k].attempt /\ jobs'[r][m].done \subseteq jobs'[r][k].done
      OBVIOUS
    <3>1. jobs[r][m].attempt =< jobs[r][k].attempt /\ jobs[r][m].done \subseteq jobs[r][k].done /\ m # n
      BY <1>5 DEF UploadInv, ChainInv
    <3> QED BY <1>4, <1>7, <2>3, <3>1
  <2>5. \A m \in DOMAIN jobs[r] : jobs'[r][m].attempt =< 1 + jobs'[r][n].attempt /\ jobs'[r][m].done \subseteq jobs'[r][n].done
    BY <1>4, <1>5, <1>7, <2>2, <2>3
  <2> SUFFICES ASSUME NEW q \in Releases
               PROVE  (/\ summary[q] # None => summary[q].no \in DOMAIN jobs[q]
                       /\ \A m, k \in DOMAIN jobs[q] : m < k => /\ jobs[q][m].attempt =< jobs[q][k].attempt
                                                                /\ jobs[q][m].done \subseteq jobs[q][k].done
                       /\ \A m \in DOMAIN jobs[q] :
                            IF summary[q] = None THEN jobs[q][m].attempt =< 1 /\ jobs[q][m].done = {}
                            ELSE /\ jobs[q][m].attempt =< 1 + jobs[q][summary[q].no].attempt
                                 /\ jobs[q][m].done \subseteq jobs[q][summary[q].no].done)'
    BY DEF ChainInv
  <2>6. CASE q # r
    BY <1>2, <1>7, <2>6 DEF UploadInv, ChainInv
  <2>7. CASE q = r
    BY <1>5, <1>7, <2>1, <2>4, <2>5, <2>7
  <2> QED BY <2>6, <2>7
<1>10. \A k \in DOMAIN queue : queue[k][1] \in Releases \ {r} /\ jobs'[queue[k][1]] = jobs[queue[k][1]]
  <2>1. \A k \in DOMAIN queue : queue[k][1] \in Releases
    BY DEF UploadInv, UploadType
  <2>2. \A k \in DOMAIN queue : queue[k][1] # r
    BY <1>1, <1>2 DEF UploadInv, SenderInv
  <2> QED BY <1>7, <2>1, <2>2
<1>11. QueueInv'
  BY <1>2, <1>10 DEF UploadInv, QueueInv, Latest
<1>12. SenderInv'
  <2>1. Latest(r, n)'
    BY <1>2, <1>3, <1>7 DEF Latest
  <2> QED BY <1>2, <1>4, <1>6, <1>7, <1>10, <2>1 DEF SenderInv
<1>13. SavingInv'
  BY <1>4, <1>5, <1>6, <1>7 DEF SavingInv, Saved
<1>14. StartInv' /\ RepairInv'
  BY <1>3, <1>7 DEF StartInv, RepairInv
<1> QED BY <1>8, <1>9, <1>11, <1>12, <1>13, <1>14 DEF UploadInv

LEMMA FailsInv == ASSUME UploadInv, SaveFails, phase' = phase PROVE UploadInv'
<1>1. UNCHANGED <<jobs, summary, queue, boot, sent>> /\ phase' = phase
  BY DEF SaveFails
<1>2. CASE saving # None /\ saving.by = "submit" /\ saving' = None /\ UNCHANGED sender
  <2>1. UploadType' /\ ChainInv' /\ QueueInv' /\ SenderInv'
    BY <1>1, <1>2 DEF UploadInv, UploadType, ChainInv, QueueInv, SenderInv, Latest
  <2>2. SavingInv' /\ StartInv'
    BY <1>1, <1>2 DEF UploadInv, SavingInv, StartInv
  <2>3. RepairInv'
    BY <1>1, <1>2 DEF UploadInv, StartInv, RepairInv
  <2> QED BY <2>1, <2>2, <2>3 DEF UploadInv
<1>3. ASSUME sender # None, sender' = Reported, saving' = None,
             \/ sender.pc = "save" /\ saving = None
             \/ saving # None /\ saving.by = "sender"
      PROVE  UploadInv'
  <2>1. sender \in Sender /\ phase = "up" /\ Latest(sender.rel, sender.no)
        /\ jobs[sender.rel][sender.no].done \subseteq sender.done
    BY <1>3, SenderTyped DEF UploadInv, SenderInv
  <2>2. sender.status # "failed" => jobs[sender.rel][sender.no].status \in Active \cup {"succeeded"}
    <3>1. CASE sender.pc = "save"
      BY <1>3, <3>1 DEF UploadInv, SenderInv
    <3>2. CASE saving # None /\ saving.by = "sender"
      BY <2>1, <3>2 DEF UploadInv, SavingInv, Saved, Sender
    <3> QED BY <1>3, <3>1, <3>2
  <2>3. \/ sender' = None
        \/ /\ sender' = [sender EXCEPT !.status = "failed", !.pc = "save"] /\ sender.status # "failed"
           /\ sender' \in Sender
    BY <1>3, <2>1 DEF Reported, Sender
  <2>4. UploadType'
    BY <1>1, <1>3, <2>3 DEF UploadInv, UploadType
  <2>5. SenderInv'
    <3>1. CASE sender' = None
      BY <3>1 DEF SenderInv
    <3>2. CASE sender' = [sender EXCEPT !.status = "failed", !.pc = "save"] /\ sender.status # "failed"
      <4>1. sender'.rel = sender.rel /\ sender'.no = sender.no /\ sender'.done = sender.done /\ sender'.pc = "save"
        BY <2>1, <3>2 DEF Sender
      <4> QED BY <1>1, <1>3, <2>1, <2>2, <3>2, <4>1 DEF UploadInv, SenderInv, Latest
    <3> QED BY <2>3, <3>1, <3>2
  <2>6. ChainInv' /\ QueueInv'
    BY <1>1 DEF UploadInv, ChainInv, QueueInv, Latest
  <2>7. SavingInv' /\ StartInv' /\ RepairInv'
    BY <1>1, <1>3, <2>1 DEF SavingInv, StartInv, RepairInv
  <2> QED BY <2>4, <2>5, <2>6, <2>7 DEF UploadInv
<1>4. saving # None /\ saving.by = "sender" => sender # None
  BY DEF UploadInv, SavingInv
<1> QED BY <1>2, <1>3, <1>4 DEF SaveFails

-----------------------------------------------------------------------------
(* A start looks at the jobs, the latest of each release first to be kept.   *)

\* By attempt, and then by creation, is by creation.
LEMMA BeforeIsOlder ==
  ASSUME UploadInv, NEW r \in Releases, NEW m \in DOMAIN jobs[r], NEW n \in DOMAIN jobs[r]
  PROVE  Before(r, m, n) <=> m < n
<1>1. m \in Nat /\ n \in Nat /\ jobs[r][m].attempt \in Nat /\ jobs[r][n].attempt \in Nat
  BY JobsTyped DEF Job
<1>2. /\ m < n => jobs[r][m].attempt =< jobs[r][n].attempt
      /\ n < m => jobs[r][n].attempt =< jobs[r][m].attempt
  BY DEF UploadInv, ChainInv
<1> QED BY <1>1, <1>2 DEF Before

LEMMA BootInv == ASSUME UploadInv, NEW r \in Releases, NEW n \in DOMAIN jobs[r], BootUpload(r, n), phase' = phase PROVE UploadInv'
<1>1. /\ phase = "uploads" /\ saving = None /\ <<r, n>> \in boot /\ boot' = boot \ {<<r, n>>}
      /\ UNCHANGED <<summary, queue, sender, sent>>
      /\ queue = <<>> /\ sender = None
  BY DEF BootUpload, UploadInv, StartInv
<1>2. /\ jobs[r][n] \in Job /\ DOMAIN jobs[r] = 1 .. Len(jobs[r]) /\ Len(jobs[r]) \in Nat /\ n \in Nat
      /\ summary[r] # None => summary[r].no \in DOMAIN jobs[r]
  BY JobsTyped DEF UploadInv, ChainInv
<1>3. summary[r] # None => (Before(r, n, summary[r].no) <=> n < summary[r].no)
  BY <1>2, BeforeIsOlder
<1>4. CASE ~Repaired(r, n)
  <2>1. UNCHANGED <<jobs, saving>> /\ summary[r] # None /\ n < summary[r].no
    BY <1>3, <1>4 DEF BootUpload, Repaired
  <2>2. UploadType' /\ ChainInv' /\ QueueInv' /\ SenderInv' /\ SavingInv'
    BY <1>1, <2>1 DEF UploadInv, UploadType, ChainInv, QueueInv, SenderInv, SavingInv
  <2>3. StartInv'
    BY <1>1, <2>1 DEF StartInv
  <2>4. RepairInv'
    <3>1. ASSUME NEW q \in Releases, NEW m \in DOMAIN jobs[q], <<q, m>> \notin boot'
          PROVE  summary[q] # None /\ m =< summary[q].no
      <4>1. CASE <<q, m>> = <<r, n>>
        BY <1>2, <2>1, <4>1
      <4>2. CASE <<q, m>> # <<r, n>>
        BY <1>1, <3>1, <4>2 DEF UploadInv, RepairInv
      <4> QED BY <4>1, <4>2
    <3>2. ASSUME NEW q \in Releases, summary[q] # None, <<q, summary[q].no>> \notin boot'
          PROVE  Exact(q)
      <4>1. <<q, summary[q].no>> # <<r, n>>
        BY <1>2, <2>1
      <4> QED BY <1>1, <3>2, <4>1 DEF UploadInv, RepairInv
    <3> QED BY <1>1, <2>1, <3>1, <3>2 DEF RepairInv, Exact
  <2> QED BY <2>2, <2>3, <2>4 DEF UploadInv
<1>5. CASE Repaired(r, n)
  <2> DEFINE job == Interrupted(jobs[r][n])
  <2>1. job \in Job /\ job.attempt = jobs[r][n].attempt /\ job.done = jobs[r][n].done /\ job.status \notin Active
    BY <1>2 DEF Interrupted, Job
  <2>2. Write(r, n, job, "boot") /\ n \in 1 .. (Len(jobs[r]) + 1) /\ ~(n > Len(jobs[r])) /\ UploadType
    BY <1>2, <1>5 DEF BootUpload, UploadInv
  <2> HIDE DEF job
  <2>3. /\ saving = None /\ saving' = [rel |-> r, no |-> n, by |-> "boot"] /\ saving' \in Saving /\ saving' # None
        /\ jobs' \in [Releases -> Seq(Job)]
        /\ Len(jobs'[r]) = (IF n > Len(jobs[r]) THEN n ELSE Len(jobs[r]))
        /\ DOMAIN jobs'[r] = DOMAIN jobs[r] \cup {n} /\ jobs'[r][n] = job
        /\ \A m \in DOMAIN jobs[r] \ {n} : jobs'[r][m] = jobs[r][m]
        /\ \A q \in Releases \ {r} : jobs'[q] = jobs[q]
    BY <2>1, <2>2, Written
  <2>4. /\ \A q \in Releases : DOMAIN jobs'[q] = DOMAIN jobs[q]
        /\ \A q \in Releases : \A m \in DOMAIN jobs[q] :
             jobs'[q][m].attempt = jobs[q][m].attempt /\ jobs'[q][m].done = jobs[q][m].done
    BY <1>2, <2>1, <2>3
  <2>5. UploadType'
    BY <1>1, <2>3 DEF UploadInv, UploadType
  <2>6. ChainInv'
    <3> SUFFICES ASSUME NEW q \in Releases
                 PROVE  (/\ summary[q] # None => summary[q].no \in DOMAIN jobs[q]
                         /\ \A m, k \in DOMAIN jobs[q] : m < k => /\ jobs[q][m].attempt =< jobs[q][k].attempt
                                                                  /\ jobs[q][m].done \subseteq jobs[q][k].done
                         /\ \A m \in DOMAIN jobs[q] :
                              IF summary[q] = None THEN jobs[q][m].attempt =< 1 /\ jobs[q][m].done = {}
                              ELSE /\ jobs[q][m].attempt =< 1 + jobs[q][summary[q].no].attempt
                                   /\ jobs[q][m].done \subseteq jobs[q][summary[q].no].done)'
      BY DEF ChainInv
    <3>1. summary[q] # None => summary[q].no \in DOMAIN jobs[q]
      BY DEF UploadInv, ChainInv
    <3> QED BY <1>1, <2>4, <3>1 DEF UploadInv, ChainInv
  <2>7. QueueInv' /\ SenderInv' /\ StartInv'
    BY <1>1, <2>3 DEF QueueInv, SenderInv, StartInv
  <2>8. SavingInv'
    <3>1. summary[r] = None \/ summary[r].no =< n
      BY <1>2, <1>3, <1>5 DEF Repaired
    <3> QED BY <1>1, <2>3, <3>1 DEF SavingInv
  <2>9. RepairInv'
    <3>1. (Saved.status)' \notin Active
      BY <2>1, <2>3 DEF Saved
    <3>2. ASSUME NEW q \in Releases, NEW m \in DOMAIN jobs[q], <<q, m>> \notin boot'
          PROVE  (q = r /\ m = n) \/ (summary[q] # None /\ m =< summary[q].no)
      BY <1>1, <3>2 DEF UploadInv, RepairInv
    <3>3. ASSUME NEW q \in Releases, summary[q] # None, <<q, summary[q].no>> \notin boot', ~(q = r /\ summary[q].no = n)
          PROVE  Exact(q)'
      <4>1. Exact(q) /\ summary[q].no \in DOMAIN jobs[q]
        BY <1>1, <3>3 DEF UploadInv, RepairInv, ChainInv
      <4>2. jobs'[q][summary[q].no] = jobs[q][summary[q].no]
        BY <2>3, <3>3, <4>1
      <4> QED BY <1>1, <4>1, <4>2 DEF Exact
    <3>4. n =< n
      BY <1>2
    <3> QED BY <1>1, <2>3, <2>4, <3>1, <3>2, <3>3, <3>4 DEF RepairInv
  <2> QED BY <2>5, <2>6, <2>7, <2>8, <2>9 DEF UploadInv
<1> QED BY <1>4, <1>5

LEMMA BootedInv == ASSUME UploadInv, UploadsBooted, UNCHANGED uploadState PROVE UploadInv'
<1>1. phase = "uploads" /\ boot = {} /\ saving = None /\ phase' = "imports" /\ queue = <<>> /\ sender = None
  BY DEF UploadsBooted, UploadInv, StartInv
<1>2. UploadType' /\ ChainInv' /\ QueueInv' /\ SenderInv' /\ SavingInv' /\ StartInv'
  BY <1>1 DEF uploadState, UploadInv, UploadType, ChainInv, QueueInv, SenderInv, SavingInv, StartInv
<1>3. ASSUME NEW r \in Releases, jobs[r] # <<>> PROVE Latest(r, Len(jobs[r])) /\ Exact(r)
  <2>1. Len(jobs[r]) \in DOMAIN jobs[r] /\ DOMAIN jobs[r] = 1 .. Len(jobs[r]) /\ Len(jobs[r]) \in Nat
    BY <1>3 DEF UploadInv, UploadType
  <2>2. summary[r] # None /\ Len(jobs[r]) =< summary[r].no /\ summary[r].no \in DOMAIN jobs[r]
    BY <1>1, <2>1 DEF UploadInv, RepairInv, ChainInv
  <2>3. Exact(r)
    BY <1>1, <2>2 DEF UploadInv, RepairInv
  <2> QED BY <2>1, <2>2, <2>3 DEF Latest
<1>4. RepairInv'
  BY <1>1, <1>3 DEF uploadState, RepairInv, Latest, Exact
<1> QED BY <1>2, <1>4 DEF UploadInv

LEMMA CrashInv == ASSUME UploadInv, UploadCrash, phase' = "uploads" PROVE UploadInv'
<1>1. /\ saving' = None /\ queue' = <<>> /\ sender' = None /\ UNCHANGED <<jobs, summary, sent>>
      /\ \A r \in Releases : \A n \in DOMAIN jobs[r] : <<r, n>> \in boot'
  BY DEF UploadCrash
<1>2. UploadType' /\ ChainInv' /\ QueueInv' /\ SenderInv' /\ SavingInv' /\ StartInv'
  BY <1>1 DEF UploadInv, UploadType, ChainInv, QueueInv, SenderInv, SavingInv, StartInv
<1>3. \A r \in Releases : summary[r] # None => summary[r].no \in DOMAIN jobs[r]
  BY DEF UploadInv, ChainInv
<1>4. RepairInv'
  BY <1>1, <1>3 DEF RepairInv
<1> QED BY <1>2, <1>4 DEF UploadInv

\* The start goes on to the imports, the overview and the service.
LEMMA OnwardInv ==
  ASSUME UploadInv, UNCHANGED uploadState, phase \in {"imports", "overview"}, phase' \in {"overview", "up"} PROVE UploadInv'
<1>1. UploadType' /\ ChainInv' /\ QueueInv' /\ SenderInv' /\ SavingInv'
  BY DEF uploadState, UploadInv, UploadType, ChainInv, QueueInv, SenderInv, SavingInv, Latest, Saved
<1>2. StartInv' /\ RepairInv'
  BY DEF uploadState, UploadInv, StartInv, RepairInv
<1> QED BY <1>1, <1>2 DEF UploadInv

LEMMA ImportPhase == ASSUME ImportNext PROVE phase' = phase \/ (phase = "imports" /\ phase' = "overview")
<1>1. CASE \E i \in Imports : Receive(i) \/ Preview(i) \/ Expire(i)
  BY <1>1 DEF Receive, Preview, Expire
<1>2. CASE RecoverRecord
  BY <1>2 DEF RecoverRecord, TakeBack, Tidy, Recovered
<1>3. CASE Sweep
  BY <1>3 DEF Sweep, StartSweep, NextRecord, SweepDone
<1>4. CASE Publish
  BY <1>4 DEF Publish, AnswerAgain, Refuse, Reuse, Mark, Stage, Rename, Commit, CommitUnheard, Raise, Keep, Undo, Clean
<1>5. CASE \E r \in Requests : AskAgain(r) \/ \E i \in Imports : Ask(i, r)
  BY <1>5 DEF AskAgain, Ask
<1> QED BY <1>1, <1>2, <1>3, <1>4, <1>5 DEF ImportNext

LEMMA UploadKept == ASSUME UploadInv, plan \in Plans, [Next]_vars PROVE UploadInv'
<1>1. CASE Imported
  <2>1. UNCHANGED uploadState /\ (phase' = phase \/ (phase = "imports" /\ phase' = "overview"))
    BY <1>1, ImportPhase DEF Imported, uploadVars, uploadState
  <2> QED BY <2>1, UploadUntouched, OnwardInv
<1>2. CASE \E w \in Workflow : Create(w)
  BY <1>2, UploadUntouched DEF Create, uploadVars, uploadState
<1>3. CASE Uploaded
  <2>1. CASE UploadSteps /\ UNCHANGED <<phase, faults>>
    BY <2>1, SummariseInv, TakeInv, SaveInv, SendInv, AllSentInv, BootInv DEF UploadSteps
  <2>2. CASE (\E r \in plan.uploads : SubmitUpload(r)) /\ UNCHANGED <<phase, faults>>
    BY <2>2, PlansAssumption, SubmitInv
  <2>3. CASE SaveFails /\ UNCHANGED phase
    BY <2>3, FailsInv
  <2>4. CASE UploadsBooted /\ UNCHANGED <<uploadVars, faults>>
    BY <2>4, BootedInv DEF uploadVars, uploadState
  <2> QED BY <1>3, <2>1, <2>2, <2>3, <2>4 DEF Uploaded
<1>4. CASE Converted
  <2>1. UNCHANGED uploadState /\ (phase' = phase \/ (phase = "overview" /\ phase' = "up"))
    BY <1>4 DEF Converted, StartConversions, uploadVars, uploadState
  <2> QED BY <2>1, UploadUntouched, OnwardInv
<1>5. CASE Crash
  BY <1>5, CrashInv DEF Crash
<1>6. CASE UNCHANGED vars
  BY <1>6, UploadUntouched DEF vars, uploadVars, uploadState
<1> QED BY <1>1, <1>2, <1>3, <1>4, <1>5, <1>6 DEF Next

\* The inductive invariant of the uploads (internal_jobs.py, upload_jobs.py).
THEOREM UploadInvariance == Spec => []UploadInv
<1>1. Init => UploadInv /\ plan \in Plans
  BY UploadStarts DEF Init
<1>2. plan \in Plans /\ [Next]_vars => (plan \in Plans)'
  BY DEF Next, Imported, Create, Uploaded, Converted, Crash, vars
<1>3. UploadInv /\ plan \in Plans /\ [Next]_vars => UploadInv'
  BY UploadKept
<1> QED BY <1>1, <1>2, <1>3, PTL DEF Spec

\* SummaryRepaired: whatever was cut off between a job and the summary of its release, a start
\* puts right, and no older job replaces a later one (mark_interrupted_jobs, internal_order).
THEOREM Shows == Spec => []SummaryRepaired
<1>1. UploadInv => SummaryRepaired
  <2> SUFFICES ASSUME UploadInv, phase = "imports", NEW r \in Releases, jobs[r] # <<>>
               PROVE  \E n \in DOMAIN jobs[r] :
                        /\ \A m \in DOMAIN jobs[r] : ~Before(r, n, m)
                        /\ summary[r] = [no |-> n, status |-> jobs[r][n].status, done |-> jobs[r][n].done]
                        /\ jobs[r][n].status \notin Active
                        /\ \A m \in DOMAIN jobs[r] : jobs[r][m].done \subseteq jobs[r][n].done
    BY DEF SummaryRepaired
  <2>1. PICK n \in DOMAIN jobs[r] : n = Len(jobs[r]) /\ summary[r] # None /\ summary[r].no = n /\ Exact(r)
    BY DEF UploadInv, RepairInv, Latest
  <2>2. DOMAIN jobs[r] = 1 .. n /\ n \in Nat
    BY <2>1, JobsTyped
  <2>3. ASSUME NEW m \in DOMAIN jobs[r] PROVE ~Before(r, n, m) /\ jobs[r][m].done \subseteq jobs[r][n].done
    BY <2>1, <2>2, BeforeIsOlder DEF UploadInv, ChainInv
  <2> QED BY <2>1, <2>3 DEF Exact
<1> QED BY <1>1, UploadInvariance, PTL

\* NeverSentAgain: the thread knows of every receipt, and sends only what has none (_run_internal).
THEOREM Never == Spec => NeverSentAgain
<1> DEFINE Step == \A r \in Releases, f \in Tables :
                     sent'[r][f] # sent[r][f] => \A n \in DOMAIN jobs[r] : f \notin jobs[r][n].done
<1>1. UploadInv /\ [Next]_vars => [Step]_<<sent>>
  <2> SUFFICES ASSUME UploadInv, Next, sent' # sent PROVE Step
    BY DEF vars, uploadVars
  <2>1. Send
    BY DEF Next, Imported, Create, Uploaded, Converted, Crash, UploadCrash, UploadSteps, Summarise, TakeUpload, SaveUpload,
           AllSent, BootUpload, SubmitUpload, SaveFails, uploadVars
  <2>2. PICK f \in Waiting : sent' = [sent EXCEPT ![sender.rel][f] = @ + 1]
    BY <2>1 DEF Send
  <2>3. sender # None /\ sender.rel \in Releases /\ Latest(sender.rel, sender.no) /\ f \in Tables /\ f \notin sender.done
    BY <2>1, SenderTyped DEF Send, Waiting
  <2>4. ASSUME NEW n \in DOMAIN jobs[sender.rel] PROVE f \notin jobs[sender.rel][n].done
    <3>1. /\ jobs[sender.rel][n].done \subseteq jobs[sender.rel][sender.no].done
          /\ jobs[sender.rel][sender.no].done \subseteq sender.done
      BY <2>3 DEF UploadInv, ChainInv, SenderInv, Latest
    <3> QED BY <2>3, <3>1
  <2>5. ASSUME NEW r \in Releases, NEW g \in Tables, sent'[r][g] # sent[r][g] PROVE r = sender.rel /\ g = f
    BY <2>2, <2>3, <2>5 DEF UploadInv, UploadType
  <2> QED BY <2>4, <2>5
<1> QED BY <1>1, UploadInvariance, PTL DEF Spec, NeverSentAgain

-----------------------------------------------------------------------------
(***************************************************************************)
(* Imports: whatever a publication, a recovery or a crash does, the files  *)
(* of a registered release are there and whole, and the same data has one  *)
(* release.                                                                *)
(***************************************************************************)
Dirs == {"none", "torn", "whole"}
Statuses == {"none", "receiving", "gone", "validated", "publishing", "published", "expired"}
Publishes == {"stage", "rename", "commit"}
Working == Publishes \cup {"record", "ready", "failed", "clean"}
Files == {Data[i].file : i \in Imports}
Metas == {Data[i].meta : i \in Imports}
Contents == {Data[i].content : i \in Imports}

ImportType ==
  /\ imp \in [Imports -> [status : Statuses, rel : Imports \cup {None}]]
  /\ staging \in [Imports -> Dirs] /\ final \in [Releases -> Dirs]
  /\ releases \subseteq Releases
  /\ call \in [pc : Working \cup {"idle", "sweep"}, imp : Imports \cup {None}, req : Requests \cup {None}]
  /\ call.pc \in Working => call.imp \in Imports
  /\ answers \in [Requests -> [imp : Imports, rel : Imports] \cup {None}]
  /\ byFile \in [Files -> [rel : Imports, meta : Metas] \cup {None}]
  /\ byContent \in [Contents -> Imports \cup {None}]

\* i and the release of r are the same data.
SameData(i, r) == r \in releases \cap Imports /\ Data[i].content = Data[r].content

\* What is renamed is complete, and so is what is registered.
FilesInv ==
  /\ At("rename") => staging[I] = "whole"
  /\ At("commit") => final[I] = "whole"
  /\ ReleasesWhole

\* What the indexes name is registered and of that data.
IndexInv ==
  /\ \A d \in Files : byFile[d] # None =>
       \A i \in Imports : Data[i].file = d /\ Data[i].meta = byFile[d].meta => SameData(i, byFile[d].rel)
  /\ \A d \in Files : byFile[d] # None => byFile[d].rel \in releases
  /\ \A i \in Imports : byContent[Data[i].content] # None => SameData(i, byContent[Data[i].content])

\* What is registered is in both indexes.
OwnInv ==
  \A i \in releases \cap Imports :
    /\ byFile[Data[i].file] # None /\ byFile[Data[i].file].rel = i
    /\ byContent[Data[i].content] = i
    /\ Data[i].file \notin Platform

\* What is published, and what was answered, is of that data.
AnswerInv ==
  /\ call.pc \in Publishes => Data[I].file \notin Platform
  /\ \A i \in Imports : imp[i].status = "published" => SameData(i, imp[i].rel)
  /\ \A r \in Requests : answers[r] # None => SameData(answers[r].imp, answers[r].rel)

ImportInv == ImportType /\ FilesInv /\ IndexInv /\ OwnInv /\ AnswerInv

USE ImportAssumption DEF Dirs, Statuses, Publishes, Working, Files, Metas, Contents, Releases, I, At, Goto

importState == <<imp, staging, final, releases, call, answers, byFile, byContent>>

-----------------------------------------------------------------------------
(* Owners and indexes. *)

\* The owner of data, unless in conflict, has the same data.
LEMMA OwnerHasData ==
  ASSUME ImportInv, NEW i \in Imports, ~Conflict(i), NEW o \in Owners(i)
  PROVE  SameData(i, o.rel)
<1>1. o.meta = Data[i].meta
  BY DEF Conflict
<1>2. CASE byFile[Data[i].file] # None
  <2>1. o = byFile[Data[i].file]
    BY <1>2 DEF Owners
  <2> QED BY <1>1, <1>2, <2>1 DEF ImportInv, IndexInv
<1>3. CASE byFile[Data[i].file] = None
  <2>1. byContent[Data[i].content] # None /\ o.rel = byContent[Data[i].content]
    BY <1>3 DEF Owners
  <2> QED BY <2>1 DEF ImportInv, IndexInv
<1> QED BY <1>2, <1>3

\* What has no owner is in neither index.
LEMMA NoOwner ==
  ASSUME ImportInv, NEW i \in Imports, Owners(i) = {}
  PROVE  byFile[Data[i].file] = None /\ byContent[Data[i].content] = None
<1>1. byFile[Data[i].file] = None
  BY DEF Owners
<1>2. ASSUME byContent[Data[i].content] # None PROVE FALSE
  <2>1. [rel |-> byContent[Data[i].content], meta |-> Data[i].meta] \in Owners(i)
    BY <1>1, <1>2 DEF Owners
  <2> QED BY <2>1
<1> QED BY <1>1, <1>2

LEMMA ImportStarts == Init => ImportInv
BY DEF Init, ImportInit, Idle, ImportInv, ImportType, FilesInv, ReleasesWhole, IndexInv, OwnInv, AnswerInv, SameData

LEMMA ImportUntouched == ImportInv /\ UNCHANGED importState => ImportInv'
BY DEF importState, ImportInv, ImportType, FilesInv, ReleasesWhole, IndexInv, OwnInv, AnswerInv, SameData

\* Nothing is registered or answered, and no publication begins.
Quiet ==
  /\ UNCHANGED <<releases, answers, byFile, byContent>>
  /\ call'.pc \in Publishes => call.pc \in Publishes /\ call'.imp = call.imp
  /\ \A i \in Imports : imp'[i].status = "published" =>
       imp'[i] = imp[i] \/ (i \in releases /\ imp'[i].rel = i)

LEMMA Steady == ASSUME ImportInv, ImportType', FilesInv', Quiet PROVE ImportInv'
<1>1. IndexInv' /\ OwnInv'
  BY DEF Quiet, ImportInv, ImportType, IndexInv, OwnInv, SameData
<1>2. call'.pc \in Publishes => Data[call'.imp].file \notin Platform
  BY DEF Quiet, ImportInv, AnswerInv
<1>3. ASSUME NEW i \in Imports, imp'[i].status = "published" PROVE SameData(i, imp'[i].rel)
  <2>1. CASE imp'[i] = imp[i]
    BY <1>3, <2>1 DEF ImportInv, AnswerInv
  <2>2. CASE i \in releases /\ imp'[i].rel = i
    BY <2>2 DEF SameData
  <2> QED BY <1>3, <2>1, <2>2 DEF Quiet
<1>4. \A r \in Requests : answers[r] # None => SameData(answers[r].imp, answers[r].rel)
  BY DEF ImportInv, AnswerInv
<1>5. UNCHANGED <<releases, answers>>
  BY DEF Quiet
<1> QED BY <1>1, <1>2, <1>3, <1>4, <1>5 DEF ImportInv, AnswerInv, SameData

-----------------------------------------------------------------------------
(* Steps that leave the indexes and the releases alone. *)

LEMMA PreviewInv == ASSUME ImportInv, NEW i \in Imports, Receive(i) \/ Preview(i) \/ Expire(i) PROVE ImportInv'
<1>1. CASE Receive(i)
  <2>1. ImportType'
    BY <1>1 DEF Receive, ImportInv, ImportType
  <2>2. FilesInv'
    BY <1>1 DEF Receive, ImportInv, ImportType, FilesInv, ReleasesWhole
  <2>3. Quiet
    BY <1>1 DEF Receive, ImportInv, ImportType, Quiet
  <2> QED BY <2>1, <2>2, <2>3, Steady
<1>2. CASE Preview(i)
  <2>1. imp' \in [Imports -> [status : Statuses, rel : Imports \cup {None}]]
    <3>1. \E s \in Statuses : imp' = [imp EXCEPT ![i].status = s]
      BY <1>2 DEF Preview
    <3> QED BY <3>1 DEF ImportInv, ImportType
  <2>11. ImportType'
    BY <1>2, <2>1 DEF Preview, ImportInv, ImportType
  <2>2. FilesInv'
    BY <1>2 DEF Preview, ImportInv, ImportType, FilesInv, ReleasesWhole
  <2>3. Quiet
    BY <1>2 DEF Preview, ImportInv, ImportType, Quiet
  <2> QED BY <2>11, <2>2, <2>3, Steady
<1>3. CASE Expire(i)
  BY <1>3, ImportUntouched DEF Expire, importState, records, disk
<1> QED BY <1>1, <1>2, <1>3

LEMMA RecoverRecordInv == ASSUME ImportInv, RecoverRecord PROVE ImportInv'
<1>1. CASE TakeBack
  <2>1. ImportType'
    <3>1. I \in Imports /\ UNCHANGED <<releases, answers, byFile, byContent>>
      BY <1>1 DEF TakeBack, Cut, Removing, ImportInv, ImportType
    <3>2. (Removing(staging) \/ staging' = staging) /\ (Removing(final) \/ final' = final)
      BY <1>1 DEF TakeBack
    <3>3. staging' \in [Imports -> Dirs] /\ final' \in [Releases -> Dirs]
      BY <3>1, <3>2 DEF Removing, ImportInv, ImportType
    <3>4. imp' = imp \/ imp' = [imp EXCEPT ![I].status = "validated"]
      BY <1>1 DEF TakeBack
    <3>5. imp' \in [Imports -> [status : Statuses, rel : Imports \cup {None}]]
      BY <3>4 DEF ImportInv, ImportType
    <3> QED BY <1>1, <3>1, <3>3, <3>5 DEF TakeBack, ImportInv, ImportType
  <2>2. FilesInv'
    BY <1>1 DEF TakeBack, Cut, Removing, ImportInv, ImportType, FilesInv, ReleasesWhole
  <2>3. Quiet
    BY <1>1 DEF TakeBack, Cut, Removing, ImportInv, ImportType, Quiet
  <2> QED BY <2>1, <2>2, <2>3, Steady
<1>2. CASE Tidy
  BY <1>2, ImportUntouched DEF Tidy, importState, records
<1>3. CASE Recovered
  <2>1. ImportType'
    <3>1. I \in Imports /\ imp[I] \in [status : Statuses, rel : Imports \cup {None}]
      BY <1>3 DEF Recovered, ImportInv, ImportType
    <3>2. imp'[I] \in [status : Statuses, rel : Imports \cup {None}]
      BY <1>3, <3>1 DEF Recovered, ImportInv, ImportType
    <3>3. imp' \in [Imports -> [status : Statuses, rel : Imports \cup {None}]]
      BY <1>3, <3>1, <3>2 DEF Recovered, ImportInv, ImportType
    <3>4. /\ call' \in [pc : Working \cup {"idle", "sweep"}, imp : Imports \cup {None}, req : Requests \cup {None}]
          /\ call'.pc \in Working => call'.imp \in Imports
      BY <1>3, <3>1 DEF Recovered, Return, ImportInv, ImportType
    <3> QED BY <1>3, <3>3, <3>4 DEF Recovered, disk, ImportInv, ImportType
  <2>2. FilesInv'
    BY <1>3 DEF Recovered, Cut, Return, disk, ImportInv, ImportType, FilesInv, ReleasesWhole
  <2>3. Quiet
    BY <1>3 DEF Recovered, Cut, Return, disk, ImportInv, ImportType, Quiet
  <2> QED BY <2>1, <2>2, <2>3, Steady
<1> QED BY <1>1, <1>2, <1>3 DEF RecoverRecord

LEMMA SweepInv == ASSUME ImportInv, Sweep PROVE ImportInv'
<1>1. CASE StartSweep
  <2>1. ImportType'
    BY <1>1 DEF StartSweep, Idle, records, disk, ImportInv, ImportType
  <2>2. FilesInv'
    BY <1>1 DEF StartSweep, Idle, records, disk, ImportInv, ImportType, FilesInv, ReleasesWhole
  <2>3. Quiet
    BY <1>1 DEF StartSweep, Idle, records, disk, ImportInv, ImportType, Quiet
  <2> QED BY <2>1, <2>2, <2>3, Steady
<1>2. ASSUME NEW i \in Imports, NextRecord(i) PROVE ImportInv'
  <2>1. ImportType'
    BY <1>2 DEF NextRecord, records, disk, ImportInv, ImportType
  <2>2. FilesInv'
    BY <1>2 DEF NextRecord, records, disk, ImportInv, ImportType, FilesInv, ReleasesWhole
  <2>3. Quiet
    BY <1>2 DEF NextRecord, records, disk, ImportInv, ImportType, Quiet
  <2> QED BY <2>1, <2>2, <2>3, Steady
<1>3. CASE SweepDone
  <2>1. ImportType'
    BY <1>3 DEF SweepDone, Idle, records, ImportInv, ImportType
  <2>2. FilesInv'
    BY <1>3 DEF SweepDone, Idle, records, ImportInv, ImportType, FilesInv, ReleasesWhole
  <2>3. Quiet
    BY <1>3 DEF SweepDone, Idle, records, ImportInv, ImportType, Quiet
  <2> QED BY <2>1, <2>2, <2>3, Steady
<1> QED BY <1>1, <1>2, <1>3 DEF Sweep

LEMMA AskInv == ASSUME ImportInv, NEW r \in Requests, AskAgain(r) \/ \E i \in Imports : Ask(i, r) PROVE ImportInv'
<1>1. CASE AskAgain(r)
  BY <1>1, ImportUntouched DEF AskAgain, importState, records, disk
<1>2. ASSUME NEW i \in Imports, Ask(i, r) PROVE ImportInv'
  <2>1. ImportType'
    BY <1>2 DEF Ask, records, disk, ImportInv, ImportType
  <2>2. FilesInv'
    BY <1>2 DEF Ask, records, disk, ImportInv, ImportType, FilesInv, ReleasesWhole
  <2>3. Quiet
    BY <1>2 DEF Ask, records, disk, ImportInv, ImportType, Quiet
  <2> QED BY <2>1, <2>2, <2>3, Steady
<1> QED BY <1>1, <1>2

LEMMA UndoInv == ASSUME ImportInv, Refuse \/ Raise \/ Keep \/ Undo \/ Clean PROVE ImportInv'
<1>1. CASE Refuse
  <2>1. ImportType'
    BY <1>1 DEF Refuse, Idle, records, disk, ImportInv, ImportType
  <2>2. FilesInv'
    BY <1>1 DEF Refuse, Idle, records, disk, ImportInv, ImportType, FilesInv, ReleasesWhole
  <2>3. Quiet
    BY <1>1 DEF Refuse, Idle, records, disk, ImportInv, ImportType, Quiet
  <2> QED BY <2>1, <2>2, <2>3, Steady
<1>2. CASE Raise
  <2>1. ImportType'
    BY <1>2 DEF Raise, Idle, records, disk, ImportInv, ImportType
  <2>2. FilesInv'
    BY <1>2 DEF Raise, Idle, records, disk, ImportInv, ImportType, FilesInv, ReleasesWhole
  <2>3. Quiet
    BY <1>2 DEF Raise, Idle, records, disk, ImportInv, ImportType, Quiet
  <2> QED BY <2>1, <2>2, <2>3, Steady
<1>3. CASE Keep
  <2>1. ImportType'
    BY <1>3 DEF Keep, Idle, records, disk, ImportInv, ImportType
  <2>2. FilesInv'
    BY <1>3 DEF Keep, Idle, records, disk, ImportInv, ImportType, FilesInv, ReleasesWhole
  <2>3. Quiet
    BY <1>3 DEF Keep, Idle, records, disk, ImportInv, ImportType, Quiet
  <2> QED BY <2>1, <2>2, <2>3, Steady
<1>4. CASE Undo
  <2>1. ImportType'
    <3>1. I \in Imports /\ UNCHANGED <<releases, answers, byFile, byContent>>
      BY <1>4 DEF Undo, Unregistered, Removing, Idle, ImportInv, ImportType
    <3>2. staging' \in [Imports -> Dirs]
      BY <1>4, <3>1 DEF Undo, Unregistered, Removing, Idle, ImportInv, ImportType
    <3>3. final' \in [Releases -> Dirs]
      BY <1>4, <3>1 DEF Undo, Unregistered, Removing, Idle, ImportInv, ImportType
    <3>4. imp' \in [Imports -> [status : Statuses, rel : Imports \cup {None}]]
      BY <1>4, <3>1 DEF Undo, Unregistered, Removing, Idle, ImportInv, ImportType
    <3> QED BY <1>4, <3>1, <3>2, <3>3, <3>4 DEF Undo, Unregistered, Removing, Idle, ImportInv, ImportType
  <2>2. FilesInv'
    BY <1>4 DEF Undo, Unregistered, Removing, Idle, ImportInv, ImportType, FilesInv, ReleasesWhole
  <2>3. Quiet
    BY <1>4 DEF Undo, Unregistered, Removing, Idle, ImportInv, ImportType, Quiet
  <2> QED BY <2>1, <2>2, <2>3, Steady
<1>5. CASE Clean
  <2>1. ImportType'
    BY <1>5 DEF Clean, Idle, records, ImportInv, ImportType
  <2>2. FilesInv'
    BY <1>5 DEF Clean, Idle, records, ImportInv, ImportType, FilesInv, ReleasesWhole
  <2>3. Quiet
    BY <1>5 DEF Clean, Idle, records, ImportInv, ImportType, Quiet
  <2> QED BY <2>1, <2>2, <2>3, Steady
<1> QED BY <1>1, <1>2, <1>3, <1>4, <1>5

LEMMA StageInv == ASSUME ImportInv, Mark \/ Stage \/ Rename PROVE ImportInv'
<1>1. CASE Mark
  <2>1. Data[I].file \notin Platform
    BY <1>1 DEF Mark, Publishable, Conflict
  <2>11. I \in Imports /\ imp' = [imp EXCEPT ![I].status = "publishing"] /\ call' = [call EXCEPT !.pc = "stage"]
        /\ UNCHANGED <<staging, final, releases, answers, byFile, byContent>>
    BY <1>1 DEF Mark, Publishable, disk, ImportInv, ImportType
  <2>12. imp' \in [Imports -> [status : Statuses, rel : Imports \cup {None}]]
    BY <2>11 DEF ImportInv, ImportType
  <2>13. ImportType'
    BY <2>11, <2>12 DEF ImportInv, ImportType
  <2>14. FilesInv'
    BY <2>11 DEF ImportInv, ImportType, FilesInv, ReleasesWhole
  <2>3. IndexInv' /\ OwnInv'
    BY <1>1 DEF Mark, disk, ImportInv, ImportType, IndexInv, OwnInv, SameData
  <2>4. AnswerInv'
    BY <1>1, <2>1 DEF Mark, disk, ImportInv, ImportType, AnswerInv, SameData
  <2> QED BY <2>13, <2>14, <2>3, <2>4 DEF ImportInv
<1>2. CASE Stage
  <2>1. ImportType'
    BY <1>2 DEF Stage, records, ImportInv, ImportType
  <2>2. FilesInv'
    BY <1>2 DEF Stage, records, ImportInv, ImportType, FilesInv, ReleasesWhole
  <2>3. Quiet
    BY <1>2 DEF Stage, records, ImportInv, ImportType, Quiet
  <2> QED BY <2>1, <2>2, <2>3, Steady
<1>3. CASE Rename
  <2>1. ImportType'
    BY <1>3 DEF Rename, records, ImportInv, ImportType
  <2>2. FilesInv'
    BY <1>3 DEF Rename, records, ImportInv, ImportType, FilesInv, ReleasesWhole
  <2>3. Quiet
    BY <1>3 DEF Rename, records, ImportInv, ImportType, Quiet
  <2> QED BY <2>1, <2>2, <2>3, Steady
<1> QED BY <1>1, <1>2, <1>3

-----------------------------------------------------------------------------
(* Steps that answer a request. *)

LEMMA AnswerAgainInv == ASSUME ImportInv, AnswerAgain PROVE ImportInv'
<1>1. I \in Imports /\ imp[I].rel \in Imports
  BY DEF AnswerAgain, ImportInv, ImportType, AnswerInv, SameData
<1>2. ImportType' /\ FilesInv'
  BY <1>1 DEF AnswerAgain, Answer, Idle, disk, ImportInv, ImportType, FilesInv, ReleasesWhole
<1>3. IndexInv' /\ OwnInv'
  BY DEF AnswerAgain, disk, ImportInv, IndexInv, OwnInv, SameData
<1>4. AnswerInv'
  BY <1>1 DEF AnswerAgain, Answer, Idle, disk, ImportInv, ImportType, AnswerInv, SameData
<1> QED BY <1>2, <1>3, <1>4 DEF ImportInv

LEMMA ReuseInv == ASSUME ImportInv, Reuse PROVE ImportInv'
<1>1. PICK o \in Owners(I) :
        /\ imp' = [imp EXCEPT ![I] = [status |-> "published", rel |-> o.rel]]
        /\ Answer(o.rel) /\ Index(I, o.rel)
  BY DEF Reuse
<1>2. I \in Imports /\ ~Conflict(I)
  BY DEF Reuse, Publishable, ImportInv, ImportType
<1>3. SameData(I, o.rel)
  BY <1>2, OwnerHasData
<1>4. UNCHANGED <<staging, final, releases>> /\ call' = [call EXCEPT !.pc = "clean"] /\ call.pc = "ready"
  BY DEF Reuse, Publishable, disk
<1>5. ImportType'
  BY <1>1, <1>2, <1>3, <1>4 DEF Answer, Index, ImportInv, ImportType, SameData
<1>6. FilesInv'
  BY <1>4 DEF ImportInv, FilesInv, ReleasesWhole
<1>7. IndexInv'
  <2> DEFINE d == Data[I].file
             c == Data[I].content
  <2>1. /\ \A e \in Files : byFile'[e] = IF e = d /\ byFile[e] = None THEN [rel |-> o.rel, meta |-> Data[I].meta] ELSE byFile[e]
        /\ \A e \in Contents : byContent'[e] = IF e = c /\ byContent[e] = None THEN o.rel ELSE byContent[e]
    BY <1>1, <1>2 DEF Index, ImportInv, ImportType
  <2>2. \A i \in Imports : Data[i].content = c => SameData(i, o.rel)
    BY <1>3 DEF SameData
  <2>3. \A i \in Imports : Data[i].file = d /\ Data[i].meta = Data[I].meta => Data[i].content = c
    BY <1>2
  <2>4. \A e \in Files : byFile'[e] # None =>
          /\ \A i \in Imports : Data[i].file = e /\ Data[i].meta = byFile'[e].meta => SameData(i, byFile'[e].rel)
          /\ byFile'[e].rel \in releases
    <3> SUFFICES ASSUME NEW e \in Files, byFile'[e] # None
                 PROVE  /\ \A i \in Imports : Data[i].file = e /\ Data[i].meta = byFile'[e].meta => SameData(i, byFile'[e].rel)
                        /\ byFile'[e].rel \in releases
      OBVIOUS
    <3>1. CASE e = d /\ byFile[e] = None
      BY <1>3, <1>4, <2>1, <2>2, <2>3, <3>1 DEF SameData
    <3>2. CASE ~(e = d /\ byFile[e] = None)
      BY <1>4, <2>1, <3>2 DEF ImportInv, IndexInv, SameData
    <3> QED BY <3>1, <3>2
  <2>5. \A i \in Imports : byContent'[Data[i].content] # None => SameData(i, byContent'[Data[i].content])
    BY <1>4, <2>1, <2>2 DEF ImportInv, IndexInv, SameData
  <2> QED BY <1>4, <2>4, <2>5 DEF IndexInv, SameData
<1>8. OwnInv'
  <2>1. /\ \A d \in Files : byFile[d] # None => byFile'[d] = byFile[d]
        /\ \A c \in Contents : byContent[c] # None => byContent'[c] = byContent[c]
    BY <1>1, <1>2 DEF Index, ImportInv, ImportType
  <2>2. \A i \in Imports : Data[i].file \in Files /\ Data[i].content \in Contents
    OBVIOUS
  <2>3. OwnInv
    BY DEF ImportInv
  <2>4. \A i \in Imports : i # None
    OBVIOUS
  <2> QED BY <1>4, <2>1, <2>2, <2>3, <2>4 DEF OwnInv
<1>9. AnswerInv'
  BY <1>1, <1>2, <1>3, <1>4 DEF Answer, ImportInv, ImportType, AnswerInv, SameData
<1> QED BY <1>5, <1>6, <1>7, <1>8, <1>9 DEF ImportInv

LEMMA RegisterInv == ASSUME ImportInv, Commit \/ CommitUnheard PROVE ImportInv'
<1>1. /\ Indexable(I, I) /\ I \notin releases /\ releases' = releases \cup {I} /\ Answer(I) /\ Index(I, I)
      /\ imp' = [imp EXCEPT ![I] = [status |-> "published", rel |-> I]]
  BY DEF Commit, CommitUnheard, Register
<1>2. /\ call.pc = "commit" /\ UNCHANGED <<staging, final>>
      /\ call' \in {[call EXCEPT !.pc = "clean"], [call EXCEPT !.pc = "failed"]}
  BY DEF Commit, CommitUnheard, disk
<1>3. I \in Imports
  BY <1>2 DEF ImportInv, ImportType
<1>4. Owners(I) = {}
  <2> SUFFICES ASSUME NEW o \in Owners(I) PROVE FALSE
    OBVIOUS
  <2>1. o.rel = I
    BY <1>1 DEF Indexable
  <2>2. o.rel \in releases
    BY <1>3 DEF Owners, ImportInv, ImportType, IndexInv, SameData
  <2> QED BY <1>1, <2>1, <2>2
<1>5. byFile[Data[I].file] = None /\ byContent[Data[I].content] = None
  BY <1>3, <1>4, NoOwner
<1>6. ImportType'
  <2>1. imp' \in [Imports -> [status : Statuses, rel : Imports \cup {None}]]
    BY <1>1, <1>3 DEF ImportInv, ImportType
  <2>2. answers' \in [Requests -> [imp : Imports, rel : Imports] \cup {None}]
    BY <1>1, <1>3 DEF Answer, ImportInv, ImportType
  <2>3. byFile' \in [Files -> [rel : Imports, meta : Metas] \cup {None}]
    BY <1>1, <1>3 DEF Index, ImportInv, ImportType
  <2>4. byContent' \in [Contents -> Imports \cup {None}]
    BY <1>1, <1>3 DEF Index, ImportInv, ImportType
  <2>5. releases' \subseteq Releases
    BY <1>1, <1>3 DEF ImportInv, ImportType
  <2>6. /\ call' \in [pc : Working \cup {"idle", "sweep"}, imp : Imports \cup {None}, req : Requests \cup {None}]
        /\ call'.pc \in Working => call'.imp \in Imports
    BY <1>2, <1>3 DEF ImportInv, ImportType
  <2> QED BY <1>2, <2>1, <2>2, <2>3, <2>4, <2>5, <2>6 DEF ImportInv, ImportType
<1>7. FilesInv'
  BY <1>1, <1>2, <1>3 DEF ImportInv, ImportType, FilesInv, ReleasesWhole
<1>81. /\ byFile'[Data[I].file] = [rel |-> I, meta |-> Data[I].meta] /\ byContent'[Data[I].content] = I
       /\ \A d \in Files \ {Data[I].file} : byFile'[d] = byFile[d]
       /\ \A d \in Contents \ {Data[I].content} : byContent'[d] = byContent[d]
  BY <1>1, <1>3, <1>5 DEF Index, ImportInv, ImportType
<1>8. IndexInv'
  <2>1. \A i, r \in Imports : SameData(i, r) => SameData(i, r)'
    BY <1>1 DEF SameData
  <2>2. ASSUME NEW d \in Files, byFile'[d] # None
        PROVE  /\ byFile'[d].rel \in releases'
               /\ \A i \in Imports : Data[i].file = d /\ Data[i].meta = byFile'[d].meta => SameData(i, byFile[d].rel)'
    <3>1. CASE d = Data[I].file
      <4>1. /\ byFile'[d].rel = I /\ byFile'[d].meta = Data[I].meta /\ I \in releases' \cap Imports
        BY <1>1, <1>3, <1>81, <3>1
      <4>2. \A i \in Imports : Data[i].file = d /\ Data[i].meta = Data[I].meta => Data[i].content = Data[I].content
        BY <1>3, <3>1
      <4> QED BY <4>1, <4>2 DEF SameData
    <3>2. CASE d # Data[I].file
      BY <1>1, <1>81, <2>2, <3>2 DEF ImportInv, IndexInv, SameData
    <3> QED BY <3>1, <3>2
  <2>3. ASSUME NEW i \in Imports, byContent'[Data[i].content] # None PROVE SameData(i, byContent[Data[i].content])'
    <3>1. CASE Data[i].content = Data[I].content
      BY <1>1, <1>3, <1>81, <3>1 DEF SameData
    <3>2. CASE Data[i].content # Data[I].content
      BY <1>1, <1>81, <2>3, <3>2 DEF ImportInv, IndexInv, SameData
    <3> QED BY <3>1, <3>2
  <2> QED BY <2>2, <2>3 DEF IndexInv
<1>9. OwnInv'
  BY <1>1, <1>2, <1>3, <1>5 DEF Index, ImportInv, ImportType, IndexInv, OwnInv, AnswerInv, SameData
<1>10. AnswerInv'
  BY <1>1, <1>2, <1>3 DEF Answer, ImportInv, ImportType, AnswerInv, SameData
<1> QED BY <1>6, <1>7, <1>8, <1>9, <1>10 DEF ImportInv

-----------------------------------------------------------------------------
(* The service. *)

LEMMA ImportKept == ASSUME ImportInv, [Next]_vars PROVE ImportInv'
<1>1. CASE Imported
  BY <1>1, PreviewInv, RecoverRecordInv, SweepInv, AskInv, UndoInv, StageInv, AnswerAgainInv, ReuseInv, RegisterInv
    DEF Imported, ImportNext, Publish
<1>2. ASSUME NEW w \in Workflow, Create(w) PROVE ImportInv'
  <2>1. ImportType' /\ FilesInv'
    BY <1>2 DEF Create, ImportInv, ImportType, FilesInv, ReleasesWhole
  <2>2. IndexInv' /\ OwnInv'
    BY <1>2 DEF Create, ImportInv, ImportType, IndexInv, OwnInv, SameData
  <2>3. AnswerInv'
    BY <1>2 DEF Create, ImportInv, ImportType, AnswerInv, SameData
  <2> QED BY <2>1, <2>2, <2>3 DEF ImportInv
<1>3. CASE Uploaded
  BY <1>3, ImportUntouched DEF Uploaded, importVars, importState, records, disk
<1>4. CASE Converted
  BY <1>4, ImportUntouched DEF Converted, importState, records, disk
<1>5. CASE Crash
  <2>1. ImportType'
    BY <1>5 DEF Crash, ImportCrash, Idle, disk, ImportInv, ImportType
  <2>2. FilesInv'
    BY <1>5 DEF Crash, ImportCrash, Idle, disk, ImportInv, ImportType, FilesInv, ReleasesWhole
  <2>3. Quiet
    BY <1>5 DEF Crash, ImportCrash, Idle, disk, ImportInv, ImportType, Quiet
  <2> QED BY <2>1, <2>2, <2>3, Steady
<1>6. CASE UNCHANGED vars
  BY <1>6, ImportUntouched DEF vars, importVars, importState, records, disk
<1> QED BY <1>1, <1>2, <1>3, <1>4, <1>5, <1>6 DEF Next

\* The inductive invariant of the imports (external_imports.py).
THEOREM ImportInvariance == Spec => []ImportInv
BY ImportStarts, ImportKept, PTL DEF Spec

\* ReleasesWhole: what is cleaned up is never a registered release (publish, _recover_record).
THEOREM Whole == Spec => []ReleasesWhole
<1>1. ImportInv => ReleasesWhole
  BY DEF ImportInv, FilesInv
<1> QED BY <1>1, ImportInvariance, PTL

\* ReleasedOnce: the same data has one release, and requests are answered with it (publish, _duplicate).
THEOREM Once == Spec => []ReleasedOnce
<1>1. ImportInv => ReleasedOnce
  <2> SUFFICES ASSUME ImportInv PROVE ReleasedOnce
    OBVIOUS
  <2>1. releases \ Workflow = releases \cap Imports
    BY DEF ImportInv, ImportType
  <2> QED BY <2>1 DEF ImportInv, ImportType, OwnInv, AnswerInv, SameData, ReleasedOnce
<1> QED BY <1>1, ImportInvariance, PTL
=============================================================================
