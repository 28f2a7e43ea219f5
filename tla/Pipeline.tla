------------------------------- MODULE Pipeline -------------------------------
(***************************************************************************)
(* One automatic pipeline: the orchestrator of pipelines.py (tick, control, *)
(* fence, retries), the child jobs, the collection run and its remote, the  *)
(* collection resume head, the release and its conversion.                  *)
(*                                                                          *)
(* A tick holds the pipeline's lock from its read to its last save, and so  *)
(* does a control.  What runs beside it is everything outside the lock: the *)
(* jobs, the collector, the transfer worker, the resume service, a restart. *)
(* A tick is cut where it saves an intent and then calls a service; "pc"    *)
(* says which call it is about to make.  Input versions are numbered: an    *)
(* epoch stands for the digest of a collection snapshot.                    *)
(***************************************************************************)
EXTENDS Integers, Sequences, FiniteSets

CONSTANTS
    MaxAttempts,  \* RETRY_POLICY["max_attempts"]
    Plans         \* the pipelines considered, each with the bounds on its run

VARIABLE plan     \* the pipeline's plan, frozen when it is created

Steps      == Plans[plan].steps      \* the steps in order, a subsequence of STEPS
Mode       == Plans[plan].mode       \* "automatic" or "manual"
Start      == Plans[plan].start      \* "collect" or "existing"
Faults     == Plans[plan].faults     \* what may go wrong with a dispatch and its run
MaxJobs    == Plans[plan].jobs
MaxEpoch   == Plans[plan].epochs
MaxCrashes == Plans[plan].crashes
MaxGrants  == Plans[plan].grants

STEPS    == <<"collection", "preprocessing", "tree", "quality", "correction", "cot",
              "publication", "overview">>
StepIds  == {Steps[i] : i \in 1..Len(Steps)}
JobSteps == StepIds \cap {"preprocessing", "tree", "quality"}
Closed   == {"succeeded", "skipped"}
TERMINAL == {"terminated", "no_publishable_data", "succeeded", "published_summary_failed"}
Statuses == TERMINAL \cup {"running", "retry_waiting", "paused", "failed",
                           "waiting_for_correction", "terminating"}
NoInfo   == -1    \* a step whose retry_info is gone

ASSUME PipelineAssumption ==
    /\ MaxAttempts \in Nat /\ MaxAttempts >= 2
    /\ \A i \in DOMAIN Plans : LET c == Plans[i]
                                   S == {c.steps[k] : k \in 1..Len(c.steps)}
       IN  /\ c.steps \in Seq({STEPS[k] : k \in 1..8})
           /\ \A k \in 1..Len(c.steps) : \A l \in 1..k - 1 :
                 \E a \in 1..8 : \E b \in 1..a - 1 : c.steps[k] = STEPS[a] /\ c.steps[l] = STEPS[b]
           /\ {"collection", "correction", "publication", "overview"} \subseteq S
           /\ S \cap {"preprocessing", "tree", "quality"} # {}
           /\ c.mode \in {"automatic", "manual"} /\ c.start \in {"collect", "existing"}
           /\ c.faults \subseteq {"lost", "unsent", "late", "rejected", "refused", "empty"}
           /\ {c.jobs, c.epochs, c.crashes, c.grants} \subseteq Nat

VARIABLES
    p,       \* the stored pipeline
    pc,      \* the call the tick is about to make, "idle" outside a tick
    jobs,    \* every child job, in order of creation
    have,    \* per job step, the epoch its current results were made from
    run,     \* the collection run's record
    remote,  \* the run at the collector: "none", "late" (a lost request that
             \* may still arrive), "running" or "ended"
    head,    \* the collection resume head: "none", "active" or "stable"
    data,    \* the epoch of the last complete collection input, 0 for none
    clean,   \* that input has no failed or missing instance
    release, \* the batch is published
    intent,  \* the selection the release intent was frozen with, 0 for none
    conv,    \* the conversion of the release
    made,    \* history: attempts really made per step since the last grant
    crashes, grants   \* how many restarts and manual retries so far

vars == <<plan, p, pc, jobs, have, run, remote, head, data, clean, release, intent,
          conv, made, crashes, grants>>
world == <<have, run, remote, head, data, clean, release, intent, conv>>
-----------------------------------------------------------------------------
Index(s) == CHOOSE i \in 1..Len(Steps) : Steps[i] = s
Before(s, t) == Index(s) < Index(t)
Last(S) == CHOOSE i \in S : \A j \in S : j <= i

\* The input a job step works on: the collection, or the job step before it.
Source(s) ==
    LET earlier == {i \in 1..Index(s) - 1 : Steps[i] \in JobSteps}
    IN  IF earlier = {} THEN data ELSE have[Steps[Last(earlier)]]
FirstJobStep == CHOOSE s \in JobSteps : \A t \in JobSteps : Index(s) <= Index(t)
LastJobStep  == CHOOSE s \in JobSteps : \A t \in JobSteps : Index(t) <= Index(s)

Ready(s) == have[s] # 0 /\ have[s] = Source(s) /\ (s = FirstJobStep => head # "active")
HasResult(s) == s \in JobSteps /\ Ready(s)    \* COT is never complete by its files
Current(epoch) == head = "none" \/ (head = "stable" /\ epoch = data)
Active(j) == jobs[j].status = "active"
ActiveJobs == (\E j \in DOMAIN jobs : Active(j)) \/ run.status \in {"dispatching", "running"}
\* Mutants of Busy: a lost answer is a failure, or is never resolved.
OnlyJobs == ActiveJobs
Unresolved == ActiveJobs \/ (run.attempted /\ run.error)
Busy == ActiveJobs \/ (run.attempted /\ run.error /\ ~run.settled /\ run.status # "completed")
\* publication_blockers: every stage made from the current input, nothing running.
Publishable == (\A s \in JobSteps : Ready(s) /\ have[s] = data) /\ ~ActiveJobs

\* What a step does to the record: finish, start an attempt, give up or wait.
Done(q, s, how) == [q EXCEPT !.step[s].status = how, !.step[s].due = FALSE]
Attempt(q, s) ==
    IF q.step[s].tries = NoInfo THEN q
    ELSE [q EXCEPT !.step[s].tries = q.step[s].tries + 1, !.step[s].due = FALSE]
Running(q, s) == [q EXCEPT !.step[s].status = "running"]
Mark(q, s, status, failure, due) ==
    [q EXCEPT !.status = status, !.error = failure, !.step[s].status =
                  IF status = "retry_waiting" THEN status ELSE "failed",
              !.step[s].due = due]
\* Mutant of Retries: one attempt too few.
OneLess(q, s, failure) ==
    failure = "transient" /\ q.step[s].tries # NoInfo /\ q.step[s].tries + 1 < MaxAttempts
Retries(q, s, failure) ==
    /\ s # "correction" /\ failure = "transient"
    /\ q.step[s].tries # NoInfo /\ q.step[s].tries < MaxAttempts
\* Mutant of ScheduleOrFail: the time of the retry is not kept.
NeverDue(q, s, failure) ==
    Mark(q, s, IF Retries(q, s, failure) THEN "retry_waiting" ELSE "failed", failure, FALSE)
ScheduleOrFail(q, s, failure) ==
    IF Retries(q, s, failure)
    THEN Mark([q EXCEPT !.step[s].tries = IF @ = 0 THEN 1 ELSE @], s, "retry_waiting", failure, TRUE)
    ELSE Mark(q, s, IF s = "overview" /\ q.released THEN "published_summary_failed" ELSE "failed",
              failure, FALSE)
Restarted(st, tries) ==
    [st EXCEPT !.previous = @ \cup st.jobs, !.jobs = {}, !.status = "pending",
               !.last = IF st.jobs = {} THEN 0 ELSE Last(st.jobs),
               !.retry = TRUE, !.due = FALSE, !.tries = tries]
-----------------------------------------------------------------------------
NewStep == [status |-> "pending", jobs |-> {}, previous |-> {}, tries |-> 0,
            due |-> FALSE, retry |-> FALSE, last |-> 0]
NoRun == [status |-> "none", error |-> FALSE, attempted |-> FALSE, rejected |-> FALSE,
          settled |-> FALSE]

Init ==
    /\ plan \in DOMAIN Plans
    /\ p = [status |-> "running", current |-> "collection", pausedFrom |-> "running",
            wait |-> "none", error |-> "none", released |-> FALSE, bound |-> FALSE,
            input |-> 0, selection |-> 0, confirmed |-> FALSE,
            step |-> [s \in StepIds |-> NewStep]]
    /\ pc = "idle" /\ jobs = << >> /\ head = "none" /\ release = FALSE /\ intent = 0
    /\ have = [s \in JobSteps |-> 0] /\ conv = "none"
    /\ IF Start = "collect"
       THEN run = NoRun /\ remote = "none" /\ data = 0 /\ clean = FALSE
       ELSE /\ run = [NoRun EXCEPT !.status = "completed", !.attempted = TRUE, !.settled = TRUE]
            /\ remote = "ended" /\ data = 1 /\ clean \in BOOLEAN
    /\ made = [s \in StepIds |-> 0] /\ crashes = 0 /\ grants = 0

Save(q) == p' = q /\ pc' = "idle"
Beside == UNCHANGED <<plan, crashes, grants>> \* what no tick touches
Inside == UNCHANGED <<jobs, made, world>> /\ Beside
Try(s) == made' = [made EXCEPT ![s] = @ + 1]
Kinds  == {"transient", "permanent"}
Paused(q) == [q EXCEPT !.status = "paused"]
-----------------------------------------------------------------------------
(* The fence: a collection being resumed, or resumed since, stops the walk *)
(* until its snapshot is stable and nothing old still runs, then restarts. *)
Fenced ==
    /\ head # "none" /\ ~p.released /\ p.status \notin (TERMINAL \cup {"terminating"})
    /\ ~Current(p.input) \/ p.wait # "none"
WasThen == IF p.wait = "none" THEN p.status ELSE p.wait
Restart ==
    [p EXCEPT !.status = IF WasThen = "paused" THEN "paused" ELSE "running",
              !.wait = "none", !.pausedFrom = "running", !.current = "collection",
              !.error = "none", !.input = data, !.selection = 0, !.confirmed = FALSE,
              !.step = [s \in StepIds |->
                  [NewStep EXCEPT !.previous = p.step[s].previous \cup p.step[s].jobs,
                                  !.tries = NoInfo]]]
Fence ==
    /\ pc = "idle" /\ Fenced
    /\ \/ head = "active" /\ Save([Paused(p) EXCEPT !.wait = WasThen, !.pausedFrom = "running",
                                                    !.error = "none"])
       \/ head = "stable" /\ ActiveJobs /\ Save([Paused(p) EXCEPT !.wait = WasThen, !.error = "none"])
       \/ head = "stable" /\ ~ActiveJobs /\ Save(Restart)
    /\ IF p'.wait = "none" THEN made' = [s \in StepIds |-> 0] ELSE UNCHANGED made
    /\ UNCHANGED <<jobs, world>> /\ Beside

\* Mutant of Walks: a failed summary is not polled any more.
NotEnded == pc = "idle" /\ ~Fenced /\ p.status \notin TERMINAL
\* A tick that walks: the fence does not hold it and the record is not at rest.
Walks == pc = "idle" /\ ~Fenced /\ p.status \notin TERMINAL \ {"published_summary_failed"}

\* The record once the tick has seen the batch published.
Reconciled ==
    IF ~release THEN p
    ELSE LET q == [Done(p, "publication", "succeeded") EXCEPT !.released = TRUE, !.current = "overview"]
             late == p.current = "publication"
         IN  CASE p.status = "paused" ->
                    [q EXCEPT !.pausedFrom = IF late THEN "running" ELSE @]
               [] p.status = "retry_waiting" /\ ~late -> q
               [] p.status = "published_summary_failed" /\ ~late -> q
               [] OTHER -> [q EXCEPT !.status = "running", !.error = "none"]

Terminate ==
    /\ Walks /\ p.status = "terminating"
    /\ \/ release /\ Save([Done(p, "publication", "succeeded") EXCEPT !.released = TRUE,
                                                                   !.status = "terminated"])
       \/ ~release /\ ~Busy /\ Save([p EXCEPT !.status = "terminated"])
    /\ Inside

Rests(q) == q.status \in {"paused", "failed", "waiting_for_correction"}
Open(q) == {s \in StepIds : q.step[s].status \notin Closed}
StepOf(q) == IF q.released \/ Open(q) = {} THEN "overview"
             ELSE CHOOSE s \in Open(q) : \A t \in Open(q) : Index(s) <= Index(t)
\* A walk with no step left (pipelines.py:717-720) does not occur: publication
\* is closed with its release only.

\* input_ready: is the collection's input complete, still coming, or unusable.
Input ==
    CASE head = "active" -> "wait"
      [] head = "stable" -> IF clean THEN "ready" ELSE "error"
      [] head = "none" /\ Start = "existing" -> "ready"
      [] head = "none" /\ Start = "collect" ->
            IF run.status \in {"none", "dispatching", "running"} THEN "wait"
            ELSE IF run.status = "completed" /\ clean THEN "ready" ELSE "error"

\* A result that came while a retry was waiting wins over the retry.
CompletedWhileWaiting(q, s) ==
    \/ s = "collection" /\ run.status = "completed" /\ Input = "ready"
    \/ s \in JobSteps /\ Ready(s)
    \/ s = "cot" /\ q.step[s].jobs # {} /\ \A j \in q.step[s].jobs : jobs[j].status = "succeeded"
    \/ s = "overview" /\ conv = "succeeded"

LateError(s) == s = "collection" /\ run.status = "completed" /\ Input = "error"

\* The records a tick may walk with at step s: a due retry restarts the step.
Retried(q, s) ==
    LET again == [q EXCEPT !.status = "running", !.error = "none",
                           !.step[s] = Restarted(@, @.tries)]
    IN  IF s = "collection" THEN Attempt(again, s) ELSE again
At(q, s) ==
    /\ Walks /\ p.status # "terminating" /\ ~Rests(Reconciled)
    /\ Reconciled.released \/ Open(Reconciled) # {}
    /\ s = StepOf(Reconciled)
    /\ LET r == [Reconciled EXCEPT !.current = s]
       IN  IF r.status = "retry_waiting"
           THEN ~CompletedWhileWaiting(r, s) /\ ~LateError(s) /\ r.step[s].due /\ q = Retried(r, s)
           ELSE q = r
Waiting == [Reconciled EXCEPT !.current = StepOf(Reconciled)]

LateResult ==
    /\ Walks /\ Reconciled.status = "retry_waiting"
    /\ LET s == Waiting.current
       IN  \/ /\ CompletedWhileWaiting(Waiting, s)
              /\ Save([Done(Waiting, s, "succeeded") EXCEPT
                          !.status = IF s = "overview" THEN "succeeded" ELSE "running",
                          !.error = "none", !.input = IF s = "collection" THEN data ELSE @])
           \/ LateError(s) /\ Save(ScheduleOrFail(Waiting, s, "permanent"))
    /\ Inside

\* The configuration or the task scope is no longer the one frozen at creation.
Changed ==
    /\ Walks /\ p.status # "terminating" /\ ~Rests(Reconciled) /\ ~Reconciled.released
    /\ Open(Reconciled) # {}
    /\ Save(ScheduleOrFail(Waiting, Waiting.current, "permanent"))
    /\ Inside
-----------------------------------------------------------------------------
(* Collection: bind the run a lost tick left, dispatch, or wait for input. *)
Bound(q) == [q EXCEPT !.bound = run.status # "none"]
DispatchNeeded(q) ==
    /\ Start = "collect"
    /\ ~Bound(q).bound \/ (run.error /\ run.status \in {"failed", "dispatching"})
Collect(q) ==
    /\ At(q, "collection")
    /\ \/ /\ DispatchNeeded(q)
          /\ LET st == q.step["collection"]
                 t  == IF st.status # "running" /\ (~st.retry \/ st.tries \in {0, NoInfo})
                       THEN Attempt(q, "collection") ELSE q
             IN  p' = [Running(Bound(t), "collection") EXCEPT !.step["collection"].retry = FALSE]
          /\ pc' = "dispatch" /\ Try("collection")
       \/ /\ ~DispatchNeeded(q) /\ Input = "ready" /\ UNCHANGED made
          /\ Save([Done(Bound(q), "collection", "succeeded") EXCEPT !.input = data])
       \/ ~DispatchNeeded(q) /\ Input = "wait" /\ Save(Running(Bound(q), "collection")) /\ UNCHANGED made
       \/ /\ ~DispatchNeeded(q) /\ Input = "error" /\ UNCHANGED made
          /\ Save(ScheduleOrFail(Bound(q), "collection", "permanent"))
    /\ UNCHANGED <<jobs, world>> /\ Beside

Known == {"running", "ended"}     \* what the collector answers for the run
\* dispatch_collection raised: the record keeps the run's identity.
Undispatched(failure) ==
    Save(ScheduleOrFail([p EXCEPT !.bound = run'.status # "none"], "collection", failure))
Final(r) == r.status \in {"completed", "interrupted"}
Accepted(r) ==
    [r EXCEPT !.status = IF Final(r) THEN @ ELSE "running", !.error = FALSE, !.rejected = FALSE]
Unaccepted(r, rejected) ==
    IF Final(r) THEN r ELSE [r EXCEPT !.status = "failed", !.error = TRUE,
                                        !.rejected = rejected \/ r.rejected]
OnlyRun == UNCHANGED <<have, head, data, clean, release, intent, conv, jobs, made>> /\ Beside

\* remote_start up to the send: register the run, ask the collector for one
\* already accepted, check what must hold, and record that a send is tried.
Register ==
    /\ pc = "dispatch"
    /\ \/ run.status = "none" /\ "refused" \in Faults /\ UNCHANGED run /\ Undispatched("permanent")
       \/ /\ run.status = "none" /\ run' = [NoRun EXCEPT !.status = "dispatching"]
          /\ UNCHANGED <<p, pc>>
       \/ /\ run.status \notin {"none", "failed", "dispatching"} /\ UNCHANGED run
          /\ Save([p EXCEPT !.bound = TRUE])
    /\ UNCHANGED remote /\ OnlyRun
Recognise ==
    /\ pc = "dispatch" /\ run.status \in {"failed", "dispatching"} /\ remote \in Known
    /\ run' = [Accepted(run) EXCEPT !.attempted = TRUE] /\ Save([p EXCEPT !.bound = TRUE])
    /\ UNCHANGED remote /\ OnlyRun
Precheck ==
    /\ pc = "dispatch" /\ run.status \in {"failed", "dispatching"} /\ "refused" \in Faults
    /\ run' = Unaccepted(run, FALSE)
    /\ \E failure \in Kinds : Undispatched(failure)
    /\ UNCHANGED remote /\ OnlyRun
\* Mutant of Unsent: a dispatch that failed did not arrive.
NotAccepted == run.status = "failed" \/ ~run.attempted
Unsent == ~run.attempted \/ run.rejected     \* nothing sent so far may arrive
BeginDispatch ==
    /\ pc = "dispatch" /\ run.status \in {"failed", "dispatching"}
    /\ run' = [run EXCEPT !.status = "dispatching", !.attempted = TRUE, !.rejected = FALSE,
                          !.error = IF run.status = "failed" THEN FALSE ELSE @]
    /\ pc' = IF Unsent THEN "sent" ELSE "resent"
    /\ UNCHANGED <<p, remote>> /\ OnlyRun

\* The answer: accepted, accepted but lost, lost before it arrived, or refused.
\* A refusal is believed only when nothing was ever sent that may still arrive.
Arrived == IF remote \in Known THEN remote ELSE "running"
Answer ==
    /\ pc \in {"sent", "resent"}
    /\ \/ /\ run' = Accepted(run) /\ Save([p EXCEPT !.bound = TRUE])
          /\ remote' = Arrived
       \/ /\ "lost" \in Faults /\ run' = Unaccepted(run, FALSE) /\ Undispatched("transient")
          /\ remote' = Arrived
       \/ /\ "unsent" \in Faults /\ run' = Unaccepted(run, FALSE) /\ Undispatched("transient")
          /\ remote' \in IF "late" \in Faults /\ remote = "none" THEN {"none", "late"} ELSE {remote}
       \/ /\ "rejected" \in Faults /\ remote \notin Known
          /\ run' = Unaccepted(run, pc = "sent") /\ Undispatched("permanent")
          /\ UNCHANGED remote
    /\ OnlyRun
-----------------------------------------------------------------------------
(* A job step follows its jobs, reuses a current result, or submits.       *)
Outcome(j) == jobs[j].status
Failing(K) == {j \in K : Outcome(j) \in Kinds}
First(K) == CHOOSE j \in K : \A i \in K : j <= i
Unbound(q, s) == {j \in DOMAIN jobs : jobs[j].step = s /\ j \notin q.step[s].previous}

Follow(q, s) ==
    LET K == q.step[s].jobs
    IN  /\ At(q, s) /\ q.step[s].status = "running" /\ K # {} /\ ~\E j \in K : Active(j)
        /\ \/ HasResult(s) /\ Save(Done(q, s, "succeeded"))
           \/ /\ ~HasResult(s)
              /\ Failing(K) # {}
              /\ Save(ScheduleOrFail(q, s, Outcome(First(Failing(K)))))
           \/ /\ ~HasResult(s)
              /\ Failing(K) = {}
              /\ Save(IF s = "cot" THEN Done(q, s, "succeeded") ELSE ScheduleOrFail(q, s, "permanent"))
        /\ Inside
Reuse(q, s) ==
    /\ At(q, s) /\ ~(q.step[s].status = "running" /\ q.step[s].jobs # {})
    /\ HasResult(s) /\ Save(Done(q, s, "succeeded")) /\ Inside
Intend(q, s) ==
    /\ At(q, s) /\ ~(q.step[s].status = "running" /\ q.step[s].jobs # {})
    /\ ~HasResult(s)
    /\ LET lost == q.step[s].status = "running" /\ Unbound(q, s) # {}
       IN  IF lost
           THEN Save([q EXCEPT !.step[s].jobs = {Last(Unbound(q, s))}])
           ELSE /\ p' = Running(IF q.step[s].status = "running" THEN q ELSE Attempt(q, s), s)
                /\ pc' = "submit"
    /\ Inside
JobStep(s) == \E q \in {r \in {Waiting, Retried(Waiting, s)} : At(r, s)} :
                  Follow(q, s) \/ Reuse(q, s) \/ Intend(q, s)

\* The submission: the service returns an active job of the same input, or a
\* new one.  A retried preprocessing keeps its frozen input, and the result of a
\* job that did succeed.
Again(s) == s = "preprocessing" /\ p.step[s].retry /\ p.step[s].last # 0
Epoch(s) == IF Again(s) THEN jobs[p.step[s].last].epoch
            ELSE IF s = "cot" THEN p.selection ELSE Source(s)
Confirmed == p.confirmed /\ p.selection = have[LastJobStep]
Refuses(s) == \/ s = FirstJobStep /\ head = "active" /\ ~Again(s)
              \/ s = "cot" /\ ~Confirmed
Submitted == [p EXCEPT !.step[p.current].retry = FALSE]
NewJob(s) == [step |-> s, epoch |-> Epoch(s), status |-> "active"]
SubmitJob(s) ==
    IF Again(s) /\ jobs[p.step[s].last].status = "succeeded"
    THEN UNCHANGED jobs /\ Save([Submitted EXCEPT !.step[s].jobs = {p.step[s].last}])
    ELSE /\ IF \E j \in DOMAIN jobs : jobs[j] = NewJob(s) THEN UNCHANGED jobs
            ELSE Len(jobs) < MaxJobs /\ jobs' = Append(jobs, NewJob(s))
         /\ Save([Submitted EXCEPT !.step[s].jobs =
                    {j \in DOMAIN jobs' : jobs'[j].step = s /\ jobs'[j].status = "active"}])
Submit ==
    /\ pc = "submit"
    /\ LET s == p.current
       IN  \/ ~Refuses(s) /\ SubmitJob(s)
           \/ /\ \E failure \in Kinds : Save(ScheduleOrFail(Submitted, s,
                                             IF Refuses(s) THEN "permanent" ELSE failure))
              /\ UNCHANGED jobs
           \/ s = "cot" /\ Confirmed /\ Save(Done(Submitted, s, "skipped")) /\ UNCHANGED jobs
    /\ Try(p.current) /\ UNCHANGED world /\ Beside

\* A job's thread ends.  Results are kept only while their input is current; an
\* old preprocessing keeps its files as history, the others end as stale.
JobSucceeds(j) ==
    LET s == jobs[j].step
        e == jobs[j].epoch
        fits == IF s = FirstJobStep THEN Current(e) /\ data = e ELSE s = "cot" \/ Source(s) = e
    IN  /\ Active(j)
        /\ jobs' = [jobs EXCEPT ![j].status =
                       IF fits \/ s = "preprocessing" THEN "succeeded" ELSE "permanent"]
        /\ \/ fits /\ s # "cot" /\ have' = [have EXCEPT ![s] = e]
           \/ UNCHANGED have
JobFails(j) == /\ Active(j) /\ \E failure \in Kinds : jobs' = [jobs EXCEPT ![j].status = failure]
               /\ UNCHANGED have
JobEnds(j) ==
    /\ JobSucceeds(j) \/ JobFails(j)
    /\ UNCHANGED <<p, pc, run, remote, head, data, clean, release, intent, conv, made>> /\ Beside
-----------------------------------------------------------------------------
(* Correction: choose what to publish, and in manual mode wait for a person. *)
Choose(q) == [q EXCEPT !.selection = have[LastJobStep]]
Selected(q) == IF q.selection = 0 THEN Choose(q) ELSE q
Correct(q) ==
    /\ At(q, "correction") /\ Inside
    /\ \/ /\ q.selection = 0
          /\ Save([Choose(q) EXCEPT !.status = "no_publishable_data",
                     !.step = [s \in StepIds |-> IF s = "correction" \/ Before("correction", s)
                                                 THEN [@[s] EXCEPT !.status = "skipped", !.due = FALSE]
                                                 ELSE @[s]]])
       \/ Mode = "automatic" /\ Save(Done(Selected(q), "correction", "skipped"))
       \/ /\ Mode = "manual"
          /\ IF Publishable /\ Selected(q).selection = have[LastJobStep]
             THEN Save([Selected(q) EXCEPT !.status = "waiting_for_correction",
                                           !.step["correction"].status = "waiting"])
             ELSE Save(ScheduleOrFail(Selected(q), "correction", "permanent"))
SkipCot(q) == /\ Mode = "automatic" /\ At(q, "cot")
              /\ Save(Done(q, "cot", "skipped")) /\ Inside

(* Publication: an intent, then the one transaction under the batch's lock. *)
Prepare(q) ==
    /\ At(q, "publication")
    /\ p' = Running(IF q.step["publication"].status = "running" THEN q
                    ELSE Attempt(q, "publication"), "publication")
    /\ pc' = "publish" /\ Inside
\* Mutant of Admitted: what held when the intent was saved still holds.
Unchecked == p.selection = have[LastJobStep]
Admitted ==
    /\ Current(p.input) /\ Publishable
    /\ p.selection = have[LastJobStep] /\ (Mode = "manual" => p.confirmed)
Released == [Done(p, "publication", "succeeded") EXCEPT !.released = TRUE]
Publish ==
    /\ pc = "publish"
    /\ \/ release /\ Current(p.input) /\ Save(Released) /\ UNCHANGED <<release, intent>>
       \/ /\ ~release /\ Admitted /\ intent \in {0, p.selection}
          /\ intent' \in {intent, p.selection}
          /\ \/ intent' = p.selection /\ release' = TRUE /\ Save(Released)
             \/ /\ release' \in BOOLEAN /\ (release' => intent' = p.selection)
                /\ \E failure \in Kinds : Save(ScheduleOrFail(p, "publication", failure))
       \/ /\ ~(release /\ Current(p.input))
          /\ ~(Admitted /\ intent \in {0, p.selection}) \/ release
          /\ Save(ScheduleOrFail(p, "publication", "permanent")) /\ UNCHANGED <<release, intent>>
    /\ Try("publication")
    /\ UNCHANGED <<jobs, have, run, remote, head, data, clean, conv>> /\ Beside

(* Overview: submit the conversion of the release and follow it.           *)
Sent(again) == IF conv = "none" \/ (again /\ conv \in Kinds) THEN "running" ELSE conv
Convert(q) ==
    LET st == q.step["overview"]
        r  == [(IF st.status = "pending" THEN Attempt(q, "overview") ELSE q)
                  EXCEPT !.step["overview"].retry = FALSE]
        ok == [Running(r, "overview") EXCEPT !.status = "running", !.error = "none"]
        c  == Sent(st.retry)
    IN  /\ At(q, "overview") /\ conv' = c
        /\ \/ c = "running" /\ Save(ok)
           \/ c = "succeeded" /\ Save([Done(ok, "overview", "succeeded") EXCEPT !.status = "succeeded"])
           \/ c \in Kinds /\ p.status # "published_summary_failed" /\ Save(ScheduleOrFail(ok, "overview", c))
        /\ IF conv # c THEN Try("overview") ELSE UNCHANGED made
        /\ UNCHANGED <<jobs, have, run, remote, head, data, clean, release, intent>> /\ Beside

Handle(q) == Collect(q) \/ Correct(q) \/ SkipCot(q) \/ Prepare(q) \/ Convert(q)
Walk == \E q \in {Waiting} \cup {Retried(Waiting, s) : s \in StepIds} : Handle(q)
Tick == \/ Fence \/ Terminate \/ LateResult \/ Walk
        \/ \E s \in JobSteps \cup (StepIds \cap {"cot"}) : (s = "cot" => Mode = "manual") /\ JobStep(s)
        \/ Register \/ Recognise \/ Precheck \/ BeginDispatch \/ Answer \/ Submit \/ Publish
-----------------------------------------------------------------------------
(* Controls: a person's request at the revision now stored.                *)
Then(q, was) == [q EXCEPT !.wait = IF @ = "none" THEN @ ELSE was]
Pause == /\ p.status \in {"running", "retry_waiting", "waiting_for_correction"}
         /\ p' = Then([Paused(p) EXCEPT !.pausedFrom = p.status], "paused")
Resume == /\ p.status = "paused"
          /\ p' = Then([p EXCEPT !.status = p.pausedFrom, !.pausedFrom = "running"], "running")
Stop == /\ p.status \notin TERMINAL
        /\ p' = [p EXCEPT !.status = IF p.released THEN "terminated" ELSE "terminating"]
Retry == /\ p.status = "failed" /\ grants < MaxGrants
         /\ p' = [p EXCEPT !.status = "running", !.error = "none",
                           !.step[p.current] = Restarted(@, 0)]
RetrySummary == /\ p.status = "published_summary_failed" /\ grants < MaxGrants
                /\ p' = [Running(p, "overview") EXCEPT !.status = "running", !.error = "none",
                             !.step["overview"].tries = 1, !.step["overview"].due = FALSE]
Confirm == /\ p.status = "waiting_for_correction" /\ Publishable /\ p.selection = have[LastJobStep]
           /\ p' = [p EXCEPT !.confirmed = TRUE, !.status = "running",
                             !.step["correction"].status = "succeeded"]
\* Mutant of LockFree: a control comes between the steps of a tick.
Unlocked == TRUE
LockFree == pc = "idle"
Control ==
    /\ LockFree /\ UNCHANGED <<plan, pc, jobs, crashes, have, run, remote, head, data, clean, release, intent>>
    /\ \/ (Pause \/ Resume \/ Stop \/ Confirm) /\ UNCHANGED <<conv, made, grants>>
       \/ Retry /\ made' = [made EXCEPT ![p.current] = 0] /\ grants' = grants + 1 /\ UNCHANGED conv
       \/ /\ RetrySummary /\ conv' = Sent(TRUE) /\ grants' = grants + 1
          /\ made' = [made EXCEPT !["overview"] = 1]

(* What moves beside the pipeline.                                         *)
RemoteEnds == remote = "running" /\ remote' = "ended" /\ UNCHANGED <<run, head, data, clean>>
Arrives == remote = "late" /\ remote' = "running" /\ UNCHANGED <<run, head, data, clean>>
\* The transfer worker closes the run once everything is received.
Transfer ==
    /\ remote = "ended" /\ run.attempted /\ ~run.rejected /\ ~run.settled /\ ~release
    /\ \/ /\ run' = [run EXCEPT !.status = "completed", !.settled = TRUE]
          /\ data' = 1 /\ clean' \in BOOLEAN
       \/ /\ "empty" \in Faults /\ run' = [run EXCEPT !.status = "failed", !.settled = TRUE]
          /\ UNCHANGED <<data, clean>>
    /\ UNCHANGED <<remote, head>>
\* A person resumes the instances that failed; later the snapshot is stable.
ResumeCollection ==
    /\ run.settled /\ data \in 1..MaxEpoch - 1 /\ ~clean /\ head # "active" /\ ~release
    /\ head' = "active" /\ UNCHANGED <<run, remote, data, clean>>
Settle == /\ head = "active" /\ head' = "stable" /\ data' = data + 1 /\ clean' \in BOOLEAN
          /\ UNCHANGED <<run, remote>>
Collector == /\ RemoteEnds \/ Arrives \/ Transfer \/ ResumeCollection \/ Settle
             /\ UNCHANGED <<p, pc, jobs, have, release, intent, conv, made>> /\ Beside
ConversionEnds == /\ conv = "running" /\ conv' \in Kinds \cup {"succeeded"}
                  /\ UNCHANGED <<p, pc, jobs, have, run, remote, head, data, clean, release, intent, made>>
                  /\ Beside
RetryFromDetails == /\ conv \in Kinds /\ grants < MaxGrants /\ grants' = grants + 1 /\ conv' = "running"
                    /\ UNCHANGED <<plan, p, pc, jobs, have, run, remote, head, data, clean, release, intent, made, crashes>>

\* The service restarts: the call is lost, before or after it took effect, and
\* every active job is interrupted.
Interrupted(js) == [j \in DOMAIN js |-> IF js[j].status = "active"
                                        THEN [js[j] EXCEPT !.status = "transient"] ELSE js[j]]
Crash ==
    /\ crashes < MaxCrashes /\ crashes' = crashes + 1 /\ pc' = "idle"
    /\ \/ jobs' = Interrupted(jobs) /\ UNCHANGED <<p, made, world>>
       \/ /\ pc = "submit" /\ ~Refuses(p.current) /\ Len(jobs) < MaxJobs
          /\ jobs' = Interrupted(Append(jobs, NewJob(p.current)))
          /\ Try(p.current) /\ UNCHANGED <<p, world>>
       \/ /\ pc \in {"sent", "resent"} /\ remote' = Arrived
          /\ jobs' = Interrupted(jobs)
          /\ UNCHANGED <<p, made, have, run, head, data, clean, release, intent, conv>>
       \/ /\ pc = "publish" /\ ~release /\ Admitted /\ intent \in {0, p.selection}
          /\ intent' = p.selection /\ release' \in BOOLEAN /\ Try("publication")
          /\ jobs' = Interrupted(jobs)
          /\ UNCHANGED <<p, have, run, remote, head, data, clean, conv>>
    /\ UNCHANGED <<plan, grants>>

Next == \/ Tick \/ Changed \/ Control \/ Collector \/ ConversionEnds \/ RetryFromDetails \/ Crash
        \/ \E j \in DOMAIN jobs : JobEnds(j)

Spec == Init /\ [][Next]_vars

\* The polling thread, the jobs' threads, the collector and the workers go on;
\* no person and no restart has to come.
FairSpec ==
    /\ Spec
    /\ WF_vars(Tick) /\ WF_vars(\E j \in DOMAIN jobs : JobEnds(j))
    /\ WF_vars(Collector /\ remote = "running" /\ RemoteEnds)
    /\ WF_vars(Collector /\ Transfer) /\ WF_vars(Collector /\ Settle) /\ WF_vars(ConversionEnds)
-----------------------------------------------------------------------------
\* Every variable holds what the records it stands for can hold, and no step has been
\* attempted more often than the policy allows.
StepRecord ==
    [status : {"pending", "running", "succeeded", "skipped", "failed", "retry_waiting", "waiting"},
     jobs : SUBSET (1..Len(jobs)), previous : SUBSET (1..Len(jobs)), tries : {NoInfo} \cup 0..MaxAttempts,
     due : BOOLEAN, retry : BOOLEAN, last : 0..Len(jobs)]
JobRecord == [step : JobSteps \cup (StepIds \cap {"cot"}), epoch : Nat, status : {"active", "succeeded"} \cup Kinds]
RunRecord ==
    [status : {"none", "dispatching", "running", "completed", "failed"}, error : BOOLEAN,
     attempted : BOOLEAN, rejected : BOOLEAN, settled : BOOLEAN]
PipelineRecord ==
    [status : Statuses, current : StepIds, wait : Statuses \cup {"none"}, error : Kinds \cup {"none"},
     pausedFrom : {"running", "retry_waiting", "waiting_for_correction"}, released : BOOLEAN,
     bound : BOOLEAN, input : Nat, selection : Nat, confirmed : BOOLEAN, step : [StepIds -> StepRecord]]
TypeOK ==
    /\ plan \in DOMAIN Plans /\ p \in PipelineRecord /\ jobs \in Seq(JobRecord) /\ run \in RunRecord
    /\ pc \in {"idle", "dispatch", "sent", "resent", "submit", "publish"}
    /\ have \in [JobSteps -> Nat] /\ data \in Nat /\ intent \in Nat
    /\ remote \in Known \cup {"none", "late"} /\ head \in {"none", "active", "stable"}
    /\ clean \in BOOLEAN /\ release \in BOOLEAN
    /\ conv \in Kinds \cup {"none", "running", "succeeded"}
    /\ made \in [StepIds -> Nat] /\ crashes \in Nat /\ grants \in Nat

\* A pipeline gives up on a temporary failure only when its attempts are used up.
RetriesUsedUp ==
    p.status = "failed" /\ p.error = "transient" /\ pc = "idle" => made[p.current] >= MaxAttempts

\* So it is as long as its collection is not resumed, and no person's retry comes between
\* two restarts.
RetriesKept == head = "none" /\ (crashes <= 1 \/ grants = 0) => RetriesUsedUp

\* Nothing runs for a batch that nobody watches.  A terminated pipeline that gave its
\* batch back left nothing at work on it, and no request under way that may still start
\* a run; a run the dispatcher holds to be rejected was never accepted and never will be.
NothingRunsUnseen ==
    /\ p.status = "terminated" /\ ~p.released => ~ActiveJobs /\ remote \notin {"running", "late"}
    /\ run.rejected => remote = "none"

\* What is published was made from the newest input, by stages that all worked on
\* it, and in manual mode it is what a person confirmed.
PublishedIsCurrent ==
    [][~release /\ release' => /\ head # "active" /\ \A s \in JobSteps : have[s] = data
                               /\ p.selection = data /\ (Mode = "manual" => p.confirmed)]_vars

\* Work is sent, submitted and published only while the stored pipeline runs: a
\* pause or a termination that was answered holds.
PauseHolds ==
    [][\/ Len(jobs') > Len(jobs) \/ release' # release
       \/ remote = "none" /\ remote' # "none"
       => p.status = "running" /\ p.wait = "none"]_vars

\* Runs whose end nobody will report, though no call is under way: one that was
\* registered before a restart and not sent, which the next walk takes for sent
\* (line 743); one whose dispatches failed and that never arrived, so that its batch
\* is not given back (line 333); and one closed as failed that a late recognition
\* set running again (collection_runs.py:315).
Absent   == pc = "idle" /\ remote \notin Known
Stranded == Absent /\ run.status = "dispatching" /\ ~run.error
Withheld == Absent /\ run.attempted /\ run.error
Revived  == pc = "idle" /\ run.status \in {"dispatching", "running"} /\ run.settled

\* A pipeline left alone comes to rest, done, failed or waiting for a person, but
\* for one that a restart stranded or that waits for a run that was closed already.
Settles == (p.status \in {"running", "retry_waiting"} /\ head # "active")
           ~> \/ p.status \notin {"running", "retry_waiting"} \/ head = "active"
              \/ Stranded \/ Revived

\* The pipeline takes over how the release's conversion ended, whoever retried it.
SummaryFollows == conv = "succeeded" ~> p.status \in {"succeeded", "paused", "terminated"}

\* A termination is completed, unless the run is one whose end nobody will report.
TerminationEnds ==
    p.status = "terminating" ~> p.status = "terminated" \/ Stranded \/ Withheld \/ Revived
=============================================================================
