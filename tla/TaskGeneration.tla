-------------------------- MODULE TaskGeneration --------------------------
(***************************************************************************)
(* One task-generation job of task_generation/jobs.py, from its submission *)
(* to the collection batch frozen from its rows.  An augmentation first    *)
(* classifies its seeds, waits for a person, then generates a row per      *)
(* seed, each seed being checkpointed by a thread of a pool; an initial    *)
(* generation writes its rows at its end.  One executor thread works; the  *)
(* executor's queue, the pool and the answers of the model die with the    *)
(* process, what is on disk does not.  An operation of several writes      *)
(* holds the batch lock and the manager's lock throughout, so nobody sees  *)
(* the disk between two of them, except a restart or the code that handles *)
(* an exception: "cuts" is the set of disks an operation may leave behind. *)
(***************************************************************************)
EXTENDS Naturals, FiniteSets

CONSTANTS Seeds,       \* rows of the uploaded workbook, or execution units
          Plans,       \* the submissions: [kind, auto]
          MaxCrashes, MaxRaises, MaxEdits

VARIABLES plan,        \* the submission
          disk,        \* what survives: job, seeds, rows, folder, artifact
          queue,       \* what the executor was given and has not begun
          worker,      \* what the executor's thread is doing
          pool,        \* per seed, the state of its thread
          answer,      \* per seed, the rows and the issue the model gave
          up, crashes, raises

vars == <<plan, disk, queue, worker, pool, answer, up, crashes, raises>>

Kinds == {"augmentation", "task_generation"}
Phases == {"classify", "generate", "initial"}
Statuses == {"none", "queued", "running", "awaiting_confirmation",
             "succeeded", "partial", "failed", "interrupted"}
Ended == {"succeeded", "partial", "failed", "interrupted"}
Kept == {"zero", "pre", "weak"}

ASSUME SeedsAssumption == IsFiniteSet(Seeds) /\ Seeds # {}
ASSUME PlansAssumption == Plans \subseteq [kind : Kinds, auto : BOOLEAN]
ASSUME BoundsAssumption == MaxCrashes \in Nat /\ MaxRaises \in Nat /\ MaxEdits \in Nat

Job == [status : Statuses, begun : BOOLEAN, classified : BOOLEAN, errors : BOOLEAN]
Seed == [cls : {"pending", "classifying", "classified", "failed"},
         gen : {"waiting", "generating", "skipped", "succeeded", "partial", "failed"}]
Row == [unit : Seeds, part : Kept, text : 0..MaxEdits, deleted : BOOLEAN]

Augmentation == plan.kind = "augmentation"
Idle == [s \in Seeds |-> "done"]
NoAnswer == [s \in Seeds |-> [rows |-> {}, issue |-> FALSE]]

----------------------------------------------------------------------------
(* What the stored values say *)

Fresh(s, parts) == {[unit |-> s, part |-> k, text |-> 0, deleted |-> FALSE] : k \in parts}

Eligible(d) == {s \in DOMAIN d.seeds : d.seeds[s].cls = "classified"}
AllClassified(d) == \A s \in DOMAIN d.seeds : d.seeds[s].cls \in {"classified", "failed"}

\* A seed that is still being worked on.
Open(x) == \/ x.cls \in {"pending", "classifying"}
           \/ x.cls = "classified" /\ x.gen \in {"waiting", "generating"}

Stop(x) ==
    IF x.cls \in {"pending", "classifying"} THEN [cls |-> "failed", gen |-> "skipped"]
    ELSE IF x.cls = "classified" /\ x.gen \in {"waiting", "generating"}
    THEN [x EXCEPT !.gen = "failed"] ELSE x

Stopped(d) == IF ~Augmentation THEN d
              ELSE [d EXCEPT !.seeds = [s \in DOMAIN d.seeds |-> Stop(d.seeds[s])]]

Failed(d) == [Stopped(d) EXCEPT !.job.status = "failed", !.job.errors = TRUE]

\* The disks a stop may be cut at: the seeds are closed before the job is.
Stopping(d) == {d, Stopped(d)}

\* The state a completed classification leaves the job in.
Ready(d) == [d EXCEPT !.job.status = IF Eligible(d) # {} THEN "awaiting_confirmation" ELSE "failed",
                      !.job.classified = TRUE,
                      !.job.errors = \E s \in DOMAIN d.seeds : d.seeds[s].cls = "failed"]

----------------------------------------------------------------------------
(* The process *)

Lost == /\ up' = FALSE /\ crashes' = crashes + 1
        /\ queue' = {} /\ worker' = "idle" /\ pool' = Idle /\ answer' = NoAnswer
        /\ UNCHANGED <<plan, raises>>

\* The process dies when some of the writes of an operation were made.
Cut(cuts) == crashes < MaxCrashes /\ disk' \in cuts /\ Lost

Alive == UNCHANGED <<plan, up, crashes>>
Quiet == Alive /\ raises' = raises
Raises(n) == Alive /\ raises + n <= MaxRaises /\ raises' = raises + n
Raise == Raises(1)

\* _fail_augmentation closes the job after an exception, unless it raises too.
Handled(d) == \/ disk' = Failed(d) /\ Raise
              \/ disk' \in Stopping(d) /\ Raises(2)

Crash == up /\ Cut({disk})

----------------------------------------------------------------------------
(* Submission and confirmation *)

Queued(d) == [d EXCEPT !.job.status = "queued"]
Prepared == [s \in Seeds |-> [cls |-> "pending", gen |-> "waiting"]]

Submit ==
    LET registered == Queued(disk)
        written == IF Augmentation THEN [registered EXCEPT !.seeds = Prepared] ELSE registered
        cuts == {disk, registered, written}
    IN /\ up /\ disk.job.status = "none"
       /\ \/ /\ disk' = written /\ Quiet
             /\ queue' = {IF Augmentation THEN "classify" ELSE "initial"}
             /\ UNCHANGED <<worker, pool, answer>>
          \/ /\ IF Augmentation THEN \E d \in cuts \ {disk} : Handled(d)
                                 ELSE disk' = registered /\ Raise
             /\ UNCHANGED <<queue, worker, pool, answer>>
          \/ Cut(cuts \union {Stopped(d) : d \in cuts})

Startable(d) == /\ d.job.status = "awaiting_confirmation" /\ d.job.classified /\ ~d.job.begun
                /\ AllClassified(d) /\ Eligible(d) # {}

\* start_augmentation, called by a person or by the thread that classified.
Begin(next, broken) ==
    LET begun == [Queued(disk) EXCEPT !.job.begun = TRUE]
    IN \/ /\ UNCHANGED <<pool, answer>>
          /\ \/ /\ Startable(disk) /\ disk' = begun /\ queue' = queue \union {"generate"}
                /\ worker' = next /\ Quiet
             \/ /\ ~Startable(disk) /\ disk.job.begun /\ UNCHANGED <<disk, queue>>
                /\ worker' = next /\ Quiet
             \/ /\ Startable(disk) /\ worker' = broken /\ UNCHANGED queue
                /\ Handled(begun) \/ (disk' = disk /\ Raise)
       \/ Startable(disk) /\ Cut({begun, Stopped(begun)})

Start == up /\ Augmentation /\ Begin(worker, worker)
AutoStart == up /\ worker = "start" /\ Begin("idle", "failing")

\* The executor's thread takes the next call.  What raises before the try, at the first write of
\* the job or right after it, ends the call and nobody is told; the reservation of the batch may
\* be refused within it.
Take(t) ==
    LET taken == [disk EXCEPT !.job.status = "running"]
    IN /\ up /\ worker = "idle" /\ t \in queue
       /\ queue' = queue \ {t}
       /\ answer' = NoAnswer
       /\ pool' = [s \in Seeds |-> IF t = "generate" /\ s \notin Eligible(disk) THEN "done" ELSE "todo"]
       /\ \/ disk' = taken /\ worker' = t /\ Quiet
          \/ disk' = taken /\ worker' = "failing" /\ Raise
          \/ disk' \in {disk, taken} /\ worker' = "idle" /\ Raise

----------------------------------------------------------------------------
(* The pool of threads *)

\* A write of a thread: it is made, or it raises or the process dies on the way.
Checkpoint(s, cuts, written, next) ==
    \/ /\ disk' = written /\ pool' = [pool EXCEPT ![s] = next] /\ Quiet
       /\ UNCHANGED <<queue, worker>>
    \/ /\ disk' \in cuts /\ pool' = [pool EXCEPT ![s] = "broken"] /\ Raise
       /\ UNCHANGED <<queue, worker>>

Mark(d, s, x) == [d EXCEPT !.seeds[s] = x]

Opened(s) ==
    LET x == disk.seeds[s]
        written == Mark(disk, s, IF worker = "classify" THEN [x EXCEPT !.cls = "classifying"]
                                 ELSE [x EXCEPT !.gen = "generating"])
        cuts == {disk, written}
    IN /\ up /\ worker \in {"classify", "generate"} /\ pool[s] = "todo"
       /\ \/ Checkpoint(s, cuts, written, "open") /\ UNCHANGED answer
          \/ Cut(cuts)

\* The model classifies the seed, or does not manage to.
Classified(s) ==
    \E c \in {"classified", "failed"} :
        LET written == Mark(disk, s, [cls |-> c, gen |-> IF c = "failed" THEN "skipped" ELSE "waiting"])
            cuts == {disk, written}
        IN /\ up /\ worker = "classify" /\ pool[s] = "open"
           /\ \/ Checkpoint(s, cuts, written, "done") /\ UNCHANGED answer
              \/ Cut(cuts)

Replaced(d, s, rows) == [d EXCEPT !.rows = {r \in d.rows : r.unit # s} \union rows]
Outcome(rows, issue) == IF ~issue THEN "succeeded" ELSE IF rows # {} THEN "partial" ELSE "failed"

SeedFirst(s, rows, x) == {disk, Mark(disk, s, x)}
\* The disks between the writes of a seed's end: its rows are saved before it is marked.
SavedFirst(s, rows, x) == {disk, Replaced(disk, s, rows)}

\* The model gives all rows asked for, or some and an issue; all of it is checkpointed.
Generated(s) ==
    \E rows \in {{}, Fresh(s, {"zero"})}, issue \in BOOLEAN :
        LET x == [disk.seeds[s] EXCEPT !.gen = Outcome(rows, issue)]
            written == Mark(Replaced(disk, s, rows), s, x)
            cuts == SavedFirst(s, rows, x)
        IN /\ up /\ worker = "generate" /\ pool[s] = "open"
           /\ issue \/ rows # {}
           /\ \/ /\ Checkpoint(s, cuts \union {written}, written, "done")
                 /\ answer' = [answer EXCEPT ![s] = [rows |-> rows, issue |-> issue]]
              \/ Cut(cuts \union {written})

\* A unit of an initial generation: its rows stay in memory; a weak task brings the task before it.
UnitDone(s) ==
    \E parts \in {{}, {"zero"}, {"pre", "weak"}}, issue \in BOOLEAN :
        /\ up /\ worker = "initial" /\ pool[s] = "todo"
        /\ issue \/ parts # {}
        /\ answer' = [answer EXCEPT ![s] = [rows |-> Fresh(s, parts), issue |-> issue]]
        /\ pool' = [pool EXCEPT ![s] = "done"]
        /\ UNCHANGED <<disk, queue, worker>> /\ Quiet

Joined == \A s \in Seeds : pool[s] \in {"done", "broken"}
Whole == \A s \in Seeds : pool[s] = "done"

----------------------------------------------------------------------------
(* The end of a call *)

ClassifyDone ==
    /\ up /\ worker = "classify" /\ Whole
    /\ \/ /\ disk' = Ready(disk) /\ Quiet
          /\ worker' = IF Eligible(disk) # {} /\ plan.auto THEN "start" ELSE "idle"
       \/ disk' \in {disk, Ready(disk)} /\ worker' = "failing" /\ Raise
    /\ UNCHANGED <<queue, pool, answer>>

Finish ==
    LET rows == UNION {answer[s].rows : s \in Seeds}
        issues == (Augmentation /\ disk.job.errors) \/ \E s \in Seeds : answer[s].issue
        saved == [disk EXCEPT !.rows = rows]
        written == [saved EXCEPT !.job.status = IF ~issues THEN "succeeded" ELSE IF rows # {} THEN "partial" ELSE "failed",
                                 !.job.errors = issues]
        cuts == {disk, saved, written}
    IN /\ up /\ worker \in {"generate", "initial"} /\ Whole
       /\ \/ /\ disk' = written /\ worker' = "idle" /\ UNCHANGED <<queue, pool, answer>> /\ Quiet
          \/ /\ disk' \in cuts /\ worker' = "failing" /\ UNCHANGED <<queue, pool, answer>> /\ Raise
          \/ Cut(cuts)

\* The pool is joined before the exception of one of its threads is handled; what raises in
\* the handler ends the call.
Fail ==
    LET cuts == Stopping(disk) \union {Failed(disk)}
    IN /\ up
       /\ worker = "failing" \/ (worker \in {"classify", "generate"} /\ Joined /\ ~Whole)
       /\ \/ /\ (disk' = Failed(disk) /\ Quiet) \/ (disk' \in cuts /\ Raise)
             /\ worker' = "idle" /\ UNCHANGED <<queue, pool, answer>>
          \/ Cut(cuts)

----------------------------------------------------------------------------
(* A restart *)

Interrupted(d) == [Stopped(d) EXCEPT !.job.status = "interrupted"]

OnlyRunning(d) == d.job.status = "running"
Running(d) == d.job.status \in {"queued", "running"}
Matched(d) == Augmentation /\ ~d.job.begun /\ d.seeds # <<>> /\ AllClassified(d)

\* mark_interrupted_jobs: a classification whose checkpoints are all there is complete.
Recovered(d) == IF ~Running(d) THEN d ELSE IF Matched(d) THEN Ready(d) ELSE Interrupted(d)

Boot ==
    LET stopping == Running(disk) /\ ~Matched(disk)
        cuts == {disk, Recovered(disk)} \union IF stopping THEN Stopping(disk) ELSE {}
    IN /\ ~up
       /\ \/ /\ disk' = Recovered(disk) /\ up' = TRUE
             /\ UNCHANGED <<plan, queue, worker, pool, answer, crashes, raises>>
          \/ Cut(cuts)

----------------------------------------------------------------------------
(* A person *)

AnyTime == up
Reviewable == up /\ ~(Augmentation /\ disk.job.status \in {"queued", "running", "awaiting_confirmation"})

Rewrite(r) ==
    /\ Reviewable /\ r \in disk.rows /\ r.text < MaxEdits
    /\ disk' = [disk EXCEPT !.rows = (@ \ {r}) \union {[r EXCEPT !.text = @ + 1]}]
    /\ UNCHANGED <<queue, worker, pool, answer>> /\ Quiet

\* Rows deleted or restored with r: those of its dependency group.
Group(r) == {q \in disk.rows : q = r \/ (~Augmentation /\ q.unit = r.unit)}

SetDeleted(r, b) ==
    /\ Reviewable /\ r \in disk.rows /\ r.deleted # b
    /\ disk' = [disk EXCEPT !.rows = (@ \ Group(r)) \union {[q EXCEPT !.deleted = b] : q \in Group(r)}]
    /\ UNCHANGED <<queue, worker, pool, answer>> /\ Quiet

\* What a collection batch is made of, and when it can be: collection_input.
Tasks(d) == {r \in d.rows : ~r.deleted}
Collectable(d) ==
    /\ d.job.status \in {"succeeded", "partial"} /\ Tasks(d) # {}
    /\ \A r \in Tasks(d) : r.part = "weak" => \E q \in Tasks(d) : q.unit = r.unit /\ q.part = "pre"

\* submit_collection_batch: the directory is renamed into place, then its artifact is published.
\* A batch has at least one task, so {} stands for none.
Freeze ==
    LET placed == [disk EXCEPT !.folder = Tasks(disk)]
        written == [placed EXCEPT !.artifact = Tasks(disk)]
    IN /\ up /\ disk.folder = {} /\ Collectable(disk)
       /\ \/ disk' = written /\ UNCHANGED <<queue, worker, pool, answer>> /\ Quiet
          \/ /\ disk' \in {[d EXCEPT !.folder = {}] : d \in {placed, written}}
             /\ UNCHANGED <<queue, worker, pool, answer>> /\ Raise
          \/ Cut({placed, written})

----------------------------------------------------------------------------
Init == /\ plan \in Plans
        /\ disk = [job |-> [status |-> "none", begun |-> FALSE, classified |-> FALSE, errors |-> FALSE],
                   seeds |-> <<>>, rows |-> {}, folder |-> {}, artifact |-> {}]
        /\ queue = {} /\ worker = "idle" /\ pool = Idle /\ answer = NoAnswer
        /\ up = TRUE /\ crashes = 0 /\ raises = 0

Work == \/ \E t \in Phases : Take(t)
        \/ \E s \in Seeds : Opened(s) \/ Classified(s) \/ Generated(s) \/ UnitDone(s)
        \/ ClassifyDone \/ AutoStart \/ Finish \/ Fail

Next == \/ Submit \/ Start \/ Work \/ Crash \/ Boot \/ Freeze
        \/ \E r \in disk.rows : Rewrite(r) \/ \E b \in BOOLEAN : SetDeleted(r, b)

Spec == Init /\ [][Next]_vars

\* The executor's thread and the pool run, and the service is started again.
FairSpec == Spec /\ WF_vars(Work) /\ WF_vars(Boot)

----------------------------------------------------------------------------
TypeOK ==
    /\ plan \in Plans /\ up \in BOOLEAN
    /\ disk.job \in Job /\ disk.rows \subseteq Row
    /\ disk.seeds = <<>> \/ disk.seeds \in [Seeds -> Seed]
    /\ disk.folder \subseteq Row /\ disk.artifact \subseteq Row
    /\ queue \subseteq Phases /\ worker \in Phases \union {"idle", "start", "failing"}
    /\ pool \in [Seeds -> {"todo", "open", "done", "broken"}]
    /\ answer \in [Seeds -> [rows : SUBSET Row, issue : BOOLEAN]]
    /\ crashes \in 0..MaxCrashes /\ raises \in 0..MaxRaises

\* A seed that the preview shows as generated, in full or in part, has rows, whatever
\* write a crash or an exception came after (_checkpoint_seed, jobs.py:401-406).
RowsBehindSeeds ==
    \A s \in DOMAIN disk.seeds :
        disk.seeds[s].gen \in {"succeeded", "partial"} => \E r \in disk.rows : r.unit = s

\* No step loses a row or what a person wrote in it: neither the last write of a job,
\* which replaces all rows, nor a repeated or late run of a call (jobs.py:490-498, 669-697).
RowsKept ==
    [][\A r \in disk.rows :
         \E q \in disk'.rows : q.unit = r.unit /\ q.part = r.part /\ q.text >= r.text]_vars

\* An exception that no handler took to its end: no call works on the job, or will.
Stranded == /\ raises > 0 /\ up /\ queue = {} /\ worker = "idle"
            /\ disk.job.status \in {"queued", "running"}

Settled == disk.job.status \in Ended \union {"awaiting_confirmation"}

\* A job that was submitted ends or waits for a person, through crashes and exceptions.  It is
\* left queued or running only by an exception outside a call's try, or of its handler
\* (jobs.py:318, 426, 462, 517, 412), and then a restart settles it.
JobsSettle ==
    /\ [](disk.job.status \in {"queued", "running"} => <>(Settled \/ Stranded))
    /\ [](disk.job.status \in {"queued", "running"} /\ ~up => <>Settled)
=============================================================================
