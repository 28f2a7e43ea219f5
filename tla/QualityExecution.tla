-------------------------- MODULE QualityExecution --------------------------
(***************************************************************************)
(* backend/quality_execution.py, quality_process.py, quality_jobs.py and   *)
(* the worker, DevelopRubrics/quality_job_runner.py: the quality jobs of   *)
(* one batch, each run by a process of its own under a lease.              *)
(*                                                                         *)
(* The supervisor (the one model-job thread of the service) records the    *)
(* lease, starts the process, records its pid, and only then writes        *)
(* QUALITY_GO to its stdin.  The worker writes checkpoints and rubrics     *)
(* behind a check of the lease, and commits its result and the lease in    *)
(* one transaction, by the lease's revision.  A supervisor that loses      *)
(* patience revokes the lease before it kills.  A service that comes back  *)
(* revokes, kills and judges what the one before it left.                  *)
(***************************************************************************)
EXTENDS Naturals

CONSTANTS Jobs, None,
          MaxLives,     \* bound on incarnations of the service
          MaxStuck      \* bound on kills that cannot be confirmed

ASSUME ConstantsAssumption == None \notin Jobs /\ MaxLives \in Nat /\ MaxStuck \in Nat

VARIABLES
  life,      \* the incarnation of the service
  phase,     \* "up", "down", or the part of mark_interrupted_jobs it is in
  boot,      \* what mark_interrupted_jobs did to each lease
  job,       \* quality_jobs
  lease,     \* quality_executions
  sup,       \* the job of the model-job thread, and its step
  worker,    \* each job's process
  go,        \* the jobs whose stdin got QUALITY_GO
  seen,      \* the lease revision the worker is committing against
  lock,      \* the worker that holds the batch lock
  result,    \* the job whose result 05_quality is
  wrote,     \* the job that wrote the shared checkpoints last
  stuck      \* kills that could not be confirmed

service == <<life, phase, boot, sup, stuck>>
worked  == <<worker, go, seen, lock, result, wrote>>
vars    == <<service, job, lease, worked>>

NoLease == [state |-> "none", rev |-> 0, life |-> 0, pid |-> FALSE,
            exited |-> FALSE, dirty |-> FALSE]

Resting == [job |-> None, step |-> "idle", gone |-> TRUE]

Ended == {"succeeded", "failed", "uncleaned", "interrupted"}

\* A process that exists; one that is past its gate.
Alive   == {"gate", "run", "write", "commit", "drain"}
Working == Alive \ {"gate"}

Init ==
  /\ life = 1 /\ phase = "up" /\ boot = [j \in Jobs |-> "none"]
  /\ job = [j \in Jobs |-> "new"] /\ lease = [j \in Jobs |-> NoLease]
  /\ sup = Resting
  /\ worker = [j \in Jobs |-> "none"] /\ go = {} /\ seen = [j \in Jobs |-> 0]
  /\ lock = None /\ result = None /\ wrote = None /\ stuck = 0

-----------------------------------------------------------------------------
(* The lease record.  Every update takes a new revision, whether or not it
   changes anything. *)

\* start_execution: a new lease in the place of the old one.
Started(l) == [state |-> "active", rev |-> l.rev + 1, life |-> life, pid |-> FALSE,
               exited |-> FALSE, dirty |-> FALSE]

\* revoke_execution
Revoked(l) == [l EXCEPT !.state = IF @ = "active" THEN "revoked" ELSE @, !.rev = @ + 1]

\* update_process, when the process was or was not seen to exit.
Stopped(l, gone) == [l EXCEPT !.exited = gone, !.dirty = ~gone, !.rev = @ + 1]

\* update_process with the pid; the commit of quality_results with the lease.
Registered(l) == [l EXCEPT !.pid = TRUE, !.rev = @ + 1]
Committed(l)  == [l EXCEPT !.state = "committed", !.rev = @ + 1]

\* Mutant of Blocked: only an active lease keeps others out.
ActiveOnly == \E j \in Jobs : lease[j].state = "active"

\* start_execution refuses while an execution of the batch may still be alive.
Blocked ==
  \E j \in Jobs : \/ lease[j].state = "active"
                  \/ lease[j].dirty
                  \/ lease[j].pid /\ ~lease[j].exited

\* check_execution, with the supervisor's identity.
Valid(j) ==
  /\ lease[j].state = "active" /\ job[j] = "running"
  /\ phase # "down" /\ lease[j].life = life

\* The same, for a heartbeat: it may go on after the commit.
Tolerated(j) ==
  /\ lease[j].state \in {"active", "committed"}
  /\ job[j] = "running" \/ lease[j].state = "committed"
  /\ phase # "down" /\ lease[j].life = life

-----------------------------------------------------------------------------
(* The service: submission and the supervisor of one job at a time. *)

Submit(j) ==
  /\ phase = "up" /\ job[j] = "new"
  /\ job' = [job EXCEPT ![j] = "queued"]
  /\ UNCHANGED <<service, lease, worked>>

Take(j) ==
  /\ phase = "up" /\ sup.step = "idle" /\ job[j] = "queued"
  /\ job' = [job EXCEPT ![j] = "running"]
  /\ sup' = [job |-> j, step |-> "start", gone |-> TRUE]
  /\ UNCHANGED <<life, phase, boot, stuck, lease, worked>>

At(step) == phase = "up" /\ sup.step = step

Step(step) ==
  /\ sup' = [sup EXCEPT !.step = step]
  /\ UNCHANGED <<life, phase, boot, stuck>>

\* start_execution, under the batch lock.
StartExecution ==
  LET j == sup.job
  IN /\ At("start") /\ lock = None /\ ~Blocked
     /\ lease' = [lease EXCEPT ![j] = Started(@)]
     /\ Step("spawn")
     /\ UNCHANGED <<job, worked>>

\* QualityExecutionBlocked, or the trees changed since the job was submitted.
StartRefused ==
  /\ At("start") /\ lock = None
  /\ job' = [job EXCEPT ![sup.job] = "failed"]
  /\ sup' = Resting
  /\ UNCHANGED <<life, phase, boot, stuck, lease, worked>>

\* Popen: the worker waits at its gate.
Spawn ==
  /\ At("spawn")
  /\ worker' = [worker EXCEPT ![sup.job] = "gate"]
  /\ Step("register")
  /\ UNCHANGED <<job, lease, go, seen, lock, result, wrote>>

\* Popen, or what precedes it, fails.
SpawnFails ==
  /\ At("spawn")
  /\ lease' = [lease EXCEPT ![sup.job] = Revoked(@)]
  /\ Step("record")
  /\ UNCHANGED <<job, worked>>

\* update_process with the pid and launch_released,
Register ==
  /\ At("register")
  /\ lease' = [lease EXCEPT ![sup.job] = Registered(@)]
  /\ Step("go")
  /\ UNCHANGED <<job, worked>>

\* and only then QUALITY_GO.
Go ==
  /\ At("go")
  /\ go' = go \cup {sup.job}
  /\ Step("watch")
  /\ UNCHANGED <<job, lease, worker, seen, lock, result, wrote>>

\* The output ends and the process is reaped.
SeeExit ==
  /\ At("watch") /\ worker[sup.job] = "dead"
  /\ Step("record")
  /\ UNCHANGED <<job, lease, worked>>

\* A request past its deadline, no heartbeat, a shutdown, or an exception: the
\* lease is revoked before the process is stopped.
GiveUp ==
  /\ sup.step \in {"go", "watch"} /\ phase = "up"
  /\ lease' = [lease EXCEPT ![sup.job] = Revoked(@)]
  /\ Step("stop")
  /\ UNCHANGED <<job, worked>>

\* A process that dies frees the lock it holds.
Dead(j) == /\ worker' = [worker EXCEPT ![j] = "dead"]
           /\ lock' = IF lock = j THEN None ELSE lock

\* stop_owned_process: terminate, kill, wait.
Stop ==
  /\ At("stop")
  /\ \/ Dead(sup.job) /\ sup' = [sup EXCEPT !.step = "record"] /\ UNCHANGED stuck
     \/ /\ worker[sup.job] \in Alive /\ stuck < MaxStuck /\ stuck' = stuck + 1
        /\ sup' = [sup EXCEPT !.step = "record", !.gone = FALSE]
        /\ UNCHANGED <<worker, lock>>
  /\ UNCHANGED <<life, phase, boot, job, lease, go, seen, result, wrote>>

Record ==
  /\ At("record")
  /\ lease' = [lease EXCEPT ![sup.job] = Stopped(@, sup.gone)]
  /\ Step(IF sup.gone THEN "settle" ELSE "finish")
  /\ UNCHANGED <<job, worked>>

\* committed_result, else the lease is closed.
Settle ==
  /\ At("settle")
  /\ lease' = IF lease[sup.job].state = "committed" THEN lease
              ELSE [lease EXCEPT ![sup.job] = Revoked(@)]
  /\ Step("finish")
  /\ UNCHANGED <<job, worked>>

\* Mutant of Outcome: a job whose answer was lost has failed.
UnheardFailed(j, gone) == IF gone /\ phase = "up" /\ lease[j].state = "committed" THEN "succeeded"
                          ELSE IF gone THEN "failed" ELSE "uncleaned"

\* What the record of the execution says of the job.
Outcome(j, gone) ==
  IF ~gone THEN "uncleaned" ELSE IF lease[j].state = "committed" THEN "succeeded" ELSE "failed"

Finish ==
  /\ At("finish")
  /\ job' = [job EXCEPT ![sup.job] = Outcome(sup.job, sup.gone)]
  /\ sup' = Resting
  /\ UNCHANGED <<life, phase, boot, stuck, lease, worked>>

Supervise ==
  \/ StartExecution \/ StartRefused \/ Spawn \/ SpawnFails \/ Register \/ Go
  \/ SeeExit \/ GiveUp \/ Stop \/ Record \/ Settle \/ Finish

-----------------------------------------------------------------------------
(* The service dies and comes back: mark_interrupted_jobs, before it serves. *)

Crash ==
  /\ phase # "down" /\ life < MaxLives
  /\ phase' = "down" /\ sup' = Resting
  /\ UNCHANGED <<life, boot, stuck, job, lease, worked>>

Restart ==
  /\ phase = "down"
  /\ phase' = "leases" /\ life' = life + 1
  /\ boot' = [j \in Jobs |-> IF lease[j].state = "active" \/ (lease[j].state # "none" /\ ~lease[j].exited)
                             THEN "todo" ELSE "none"]
  /\ UNCHANGED <<sup, stuck, job, lease, worked>>

BootRevoke(j) ==
  /\ phase = "leases" /\ boot[j] = "todo" /\ \A k \in Jobs : boot[k] # "revoked"
  /\ lease' = [lease EXCEPT ![j] = Revoked(@)]
  /\ boot' = [boot EXCEPT ![j] = "revoked"]
  /\ UNCHANGED <<life, phase, sup, stuck, job, worked>>

\* stop_recorded_process: what has no recorded pid never got past its gate; a
\* recorded process is killed, if its identity can be verified.
BootStop(j) ==
  /\ phase = "leases" /\ boot[j] = "revoked"
  /\ \/ /\ ~lease[j].pid \/ lease[j].exited \/ worker[j] \notin Alive
        /\ lease' = [lease EXCEPT ![j] = Stopped(@, TRUE)]
        /\ boot' = [boot EXCEPT ![j] = "gone"] /\ UNCHANGED <<stuck, worker, lock>>
     \/ /\ lease[j].pid /\ ~lease[j].exited /\ worker[j] \in Alive
        /\ Dead(j) /\ UNCHANGED stuck
        /\ lease' = [lease EXCEPT ![j] = Stopped(@, TRUE)]
        /\ boot' = [boot EXCEPT ![j] = "gone"]
     \/ /\ ~lease[j].exited /\ stuck < MaxStuck /\ stuck' = stuck + 1
        /\ lease' = [lease EXCEPT ![j] = Stopped(@, FALSE)]
        /\ boot' = [boot EXCEPT ![j] = "left"] /\ UNCHANGED <<worker, lock>>
  /\ UNCHANGED <<life, phase, sup, job, go, seen, result, wrote>>

BootJobs ==
  /\ phase = "leases" /\ \A j \in Jobs : boot[j] \notin {"todo", "revoked"}
  /\ phase' = "jobs"
  /\ UNCHANGED <<life, boot, sup, stuck, job, lease, worked>>

\* Mutant of BootJob: only what was still queued is judged.
BootQueued(j) ==
  /\ phase = "jobs" /\ job[j] = "queued"
  /\ job' = [job EXCEPT ![j] = "interrupted"]
  /\ UNCHANGED <<service, lease, worked>>

\* A job that was queued or running is judged by its lease.
BootJob(j) ==
  /\ phase = "jobs" /\ job[j] \in {"queued", "running"}
  /\ job' = [job EXCEPT ![j] = IF Outcome(j, boot[j] # "left") = "failed" THEN "interrupted"
                               ELSE Outcome(j, boot[j] # "left")]
  /\ UNCHANGED <<service, lease, worked>>

Serve ==
  /\ phase = "jobs" /\ \A j \in Jobs : job[j] \notin {"queued", "running"}
  /\ phase' = "up"
  /\ UNCHANGED <<life, boot, sup, stuck, job, lease, worked>>

Boot == \/ Restart \/ BootJobs \/ Serve
        \/ \E j \in Jobs : BootRevoke(j) \/ BootStop(j) \/ BootJob(j)

-----------------------------------------------------------------------------
(* The worker. *)

Work(j, from, to) ==
  /\ worker[j] = from
  /\ worker' = [worker EXCEPT ![j] = to]
  /\ UNCHANGED <<service, job, lease, go>>

\* _accept_launch and the check of execution_context.
Accept(j) ==
  /\ j \in go /\ Valid(j) /\ lease[j].pid
  /\ Work(j, "gate", "run")
  /\ UNCHANGED <<seen, lock, result, wrote>>

\* execution_write_guard for a checkpoint, a rubric or a progress frame: the
\* lease is checked once, then the file is written.
BeginWrite(j) ==
  /\ lock = None /\ Valid(j)
  /\ Work(j, "run", "write")
  /\ lock' = j
  /\ UNCHANGED <<seen, result, wrote>>

EndWrite(j) ==
  /\ Work(j, "write", "run")
  /\ lock' = None /\ wrote' = j
  /\ UNCHANGED <<seen, result>>

\* merge_quality_results: guard and commit_record_entry,
BeginCommit(j) ==
  /\ lock = None /\ Valid(j)
  /\ Work(j, "run", "commit")
  /\ lock' = j /\ seen' = [seen EXCEPT ![j] = lease[j].rev]
  /\ UNCHANGED <<result, wrote>>

\* Mutant of Commit: the lease is not written with its expected revision.
CommitAnyway(j) ==
  /\ worker[j] = "commit"
  /\ lease' = [lease EXCEPT ![j] = Committed(@)]
  /\ result' = j /\ worker' = [worker EXCEPT ![j] = "drain"]
  /\ UNCHANGED <<service, job, go, seen, lock, wrote>>

\* and the transaction of artifacts and lease; under the lock, the drain follows.
Commit(j) ==
  /\ worker[j] = "commit" /\ lease[j].rev = seen[j]
  /\ lease' = [lease EXCEPT ![j] = Committed(@)]
  /\ result' = j /\ worker' = [worker EXCEPT ![j] = "drain"]
  /\ UNCHANGED <<service, job, go, seen, lock, wrote>>

\* The process ends: it is done, its model failed, a check or the lease's
\* revision refused it, its gate closed, its heartbeat found the lease gone, or
\* something killed it.
Exit(j) ==
  /\ worker[j] \in Alive
  /\ Dead(j)
  /\ UNCHANGED <<service, job, lease, go, seen, result, wrote>>

\* It does not go on for ever without its lease, nor after its commit.
MustExit(j) == ~Tolerated(j) \/ worker[j] = "drain"

WorkerStep(j) ==
  Accept(j) \/ BeginWrite(j) \/ EndWrite(j) \/ BeginCommit(j) \/ Commit(j) \/ Exit(j)

-----------------------------------------------------------------------------
Next == \/ \E j \in Jobs : Submit(j) \/ Take(j) \/ WorkerStep(j)
        \/ Supervise \/ Crash \/ Boot

Spec == Init /\ [][Next]_vars

\* The model-job thread goes on (every request has a deadline), a service that
\* died is started again, a drain ends, and so does a process that has lost its
\* lease: its heartbeat sees that, a check refuses it, or the kill arrives.
FairSpec == /\ Spec /\ WF_vars(Supervise) /\ WF_vars(Boot)
            /\ \A j \in Jobs : WF_vars(Take(j)) /\ WF_vars(Exit(j) /\ MustExit(j))
-----------------------------------------------------------------------------
(* Properties. *)

Leases == [state: {"none", "active", "revoked", "committed"}, rev: Nat, life: Nat,
           pid: BOOLEAN, exited: BOOLEAN, dirty: BOOLEAN]

\* Every variable holds what the record, directory or process it stands for can be.
TypeOK ==
  /\ life \in Nat /\ phase \in {"up", "down", "leases", "jobs"}
  /\ boot \in [Jobs -> {"none", "todo", "revoked", "gone", "left"}]
  /\ job \in [Jobs -> {"new", "queued", "running"} \cup Ended]
  /\ lease \in [Jobs -> Leases]
  /\ sup \in [job: Jobs \cup {None}, gone: BOOLEAN,
              step: {"idle", "start", "spawn", "register", "go", "watch", "stop",
                     "record", "settle", "finish"}]
  /\ worker \in [Jobs -> Alive \cup {"none", "dead"}]
  /\ go \subseteq Jobs /\ seen \in [Jobs -> Nat]
  /\ lock \in Jobs \cup {None} /\ result \in Jobs \cup {None} /\ wrote \in Jobs \cup {None}
  /\ stuck \in Nat

\* A worker past its gate is the only one of its batch, and the record knows
\* its pid and does not call it exited: no execution is started before the one
\* before it is known to be gone (AUTOMATIC_PIPELINE.md:62).
OneWorker ==
  \A j \in Jobs : worker[j] \in Working =>
    /\ lease[j].pid /\ ~lease[j].exited
    /\ \A k \in Jobs \ {j} : worker[k] \notin Working /\ lease[k].state # "active"

\* Where the supervisor is, and what it knows of its worker.
SupInv ==
  /\ sup.step # "idle" => phase = "up" /\ sup.job \in Jobs /\ job[sup.job] = "running"
  /\ sup.step \in {"start", "spawn"} => worker[sup.job] = "none"
  /\ sup.step = "spawn" => ~lease[sup.job].exited
  /\ ~sup.gone => sup.step \in {"record", "finish"}
  /\ sup.step = "record" /\ sup.gone => worker[sup.job] \in {"none", "dead"}
  /\ \A j \in Jobs : job[j] \in {"new", "queued"} => worker[j] = "none"

\* An `exited` that can be trusted, at most one active lease, and none that
\* mark_interrupted_jobs has passed by.
LeaseInv ==
  \A j \in Jobs :
    /\ lease[j].exited => worker[j] \notin Alive \/ lease[j].state # "active"
    /\ lease[j].state = "active" =>
         /\ phase # "jobs" /\ (phase = "leases" => boot[j] = "todo")
         /\ \A k \in Jobs \ {j} : lease[k].state # "active" /\ worker[k] \notin Working

\* A commit that still sees the lease's revision sees an active lease.
CommitInv ==
  \A j \in Jobs : worker[j] = "commit" =>
    /\ seen[j] <= lease[j].rev
    /\ seen[j] = lease[j].rev => lease[j].state = "active"

\* A job that ended well published its result; one that published its result
\* ended well, whoever heard of it, unless its process could not be cleaned up.
CommitDecides ==
  \A j \in Jobs : /\ job[j] = "succeeded" => lease[j].state = "committed"
                  /\ job[j] \in {"failed", "interrupted"} => lease[j].state # "committed"

\* A job is only ended when its lease can decide no more.
EndInv ==
  /\ \A j \in Jobs : /\ job[j] \in {"new", "queued"} => lease[j].state = "none"
                     /\ job[j] \in Ended => lease[j].state # "active"
  /\ sup.step = "start" => lease[sup.job].state = "none"
  /\ sup.step \in {"stop", "finish"} => lease[sup.job].state # "active"
  /\ sup.step = "record" /\ ~sup.gone => lease[sup.job].state # "active"

\* OneWorker and CommitDecides with what they rest on.
IInv == /\ TypeOK /\ OneWorker /\ SupInv /\ LeaseInv /\ CommitInv
        /\ CommitDecides /\ EndInv

\* No result of an execution that was revoked.
RevokedPublishesNothing ==
  [][\A j \in Jobs : lease[j].state # "active" => (result' = j => result = j)]_vars

\* Every job that was taken ends.
JobsEnd == \A j \in Jobs : job[j] = "running" ~> job[j] \in Ended
=============================================================================
