--------------------------- MODULE CollectorService ---------------------------
(* The service on the machine that the phones hang on (collector_service): runs
   that are submitted under their number, a thread for a run and one for each of
   its phones, worker processes that outlive the service, and the deletion of a
   phone, which stops the runs that use it.

   The service may be restarted between any two steps, and a worker may die or be
   slow to start.  "op" is the request that holds the lock "mutations"; the lock
   _launch_lock is held by the phone thread in a step of Launching or by a
   deletion that stops a run.  Results are "empty" or "whole": no trajectory, or
   some.  A run "succeeded" also when it is "partial".  Not modelled: a write to
   the disk or the database that fails, what a worker does with its phone, and
   the phones' own directories and rows. *)
EXTENDS Naturals

CONSTANTS
  Runs, Phones,
  Uses,          \* the phones of a run: phone_tasks
  Accepted,      \* the runs that are submitted already
  MaxRestarts, MaxDeletions    \* bounds

VARIABLES
  record,        \* the runs' rows: status and manifest
  frozen,        \* the runs' archives
  fence,         \* execution/cancelled.json, per run
  launch, marker, barred, completion,   \* per phone of a run: launch.json,
                 \* process.json, cancelled.json and completion.json
  worker,        \* the processes
  thread, task, got, cancel,    \* the service's threads, what they got, _cancel
  op,
  restarts, deletions,
  launches, stopped             \* history: processes started, runs stopped

serviceFiles == <<frozen, fence, launch, marker, barred, completion>>
serviceMemory == <<thread, task, got, cancel>>
serviceHistory == <<restarts, deletions, launches, stopped>>
serviceVars == <<record, serviceFiles, worker, serviceMemory, op, serviceHistory>>

Slots     == {k \in Runs \X Phones : k[2] \in Uses[k[1]]}
SlotsOf(r) == {k \in Slots : k[1] = r}
Results   == {"empty", "whole"}
Launching == {"attach", "ack", "giveup", "journal", "spawn", "mark"}
Nothing   == [status |-> "none", manifest |-> "none"]
Fresh     == [Nothing EXCEPT !.status = "queued"]

ASSUME ServiceAssumption ==
  /\ Uses \in [Runs -> SUBSET Phones]
  /\ Accepted \subseteq Runs
  /\ \A r, s \in Accepted : r # s => Uses[r] \cap Uses[s] = {}
  /\ MaxRestarts \in Nat /\ MaxDeletions \in Nat

Live(r)  == record[r].status \in {"queued", "running"}
Alive(k) == worker[k] \in {"spawned", "marked", "working"}

\* owned_process, for a process that has left its number.
Owned(k) == marker[k] /\ Alive(k)

\* The requests, at rest or at work: the runs to stop, those whose workers were
\* found, and those not dealt with yet.
NoOp == [step |-> "free", run |-> "none", phone |-> "none", kept |-> "none",
         owned |-> {}, hit |-> {}, todo |-> {}]
LaunchLockFree == op.step # "kill" /\ \A k \in Slots : task[k] \notin Launching

InitService ==
  /\ record = [r \in Runs |-> IF r \in Accepted THEN Fresh ELSE Nothing]
  /\ frozen = [r \in Runs |-> "none"]
  /\ fence = [r \in Runs |-> FALSE] /\ cancel = [r \in Runs |-> FALSE]
  /\ launch = [k \in Slots |-> FALSE] /\ marker = [k \in Slots |-> FALSE]
  /\ barred = [k \in Slots |-> FALSE] /\ completion = [k \in Slots |-> "none"]
  /\ worker = [k \in Slots |-> "none"] /\ launches = [k \in Slots |-> 0]
  /\ thread = [r \in Runs |-> IF r \in Accepted THEN "start" ELSE "none"]
  /\ task = [k \in Slots |-> "none"] /\ got = [k \in Slots |-> "empty"]
  /\ op = NoOp /\ stopped = {}
  /\ restarts = 0 /\ deletions = 0
-----------------------------------------------------------------------------
(* submit: the phones are free by the records, then by the processes. *)

Request(step, r) == op' = [NoOp EXCEPT !.step = step, !.run = r]

SubmitRun(r) ==
  /\ op.step = "free" /\ record[r].status = "none"
  /\ \A s \in Runs : Live(s) => Uses[s] \cap Uses[r] = {}
  /\ Request("submit", r)
  /\ UNCHANGED <<record, serviceFiles, worker, serviceMemory, serviceHistory>>

\* Save, and _schedule, which a restart before it makes up for.
SaveRun ==
  /\ op.step = "submit"
  /\ IF \E k \in Slots : k[2] \in Uses[op.run] /\ Owned(k)
     THEN UNCHANGED <<record, thread>>
     ELSE /\ record' = [record EXCEPT ![op.run] = Fresh]
          /\ thread' = [thread EXCEPT ![op.run] = "start"]
  /\ op' = NoOp
  /\ UNCHANGED <<serviceFiles, worker, task, got, cancel, serviceHistory>>
-----------------------------------------------------------------------------
(* _execute: the thread of a run. *)

ThreadOnly == UNCHANGED <<serviceFiles, worker, got, cancel, op, serviceHistory>>
Turns(r, step) == thread' = [thread EXCEPT ![r] = step]

\* What a restart finds frozen is not collected again.
Begin(r) ==
  /\ thread[r] = "start"
  /\ Turns(r, IF ~Live(r) THEN "none" ELSE IF frozen[r] # "none" THEN "commit" ELSE "save")
  /\ UNCHANGED <<record, task>> /\ ThreadOnly

\* The row was read a step ago.
Execute(r) ==
  /\ thread[r] = "save" /\ Turns(r, "execute")
  /\ record' = [record EXCEPT ![r] = [Nothing EXCEPT !.status = "running"]]
  /\ task' = [k \in Slots |-> IF k[1] = r THEN "enter" ELSE task[k]]
  /\ ThreadOnly

Gathered(r) ==
  /\ thread[r] = "execute" /\ \A k \in SlotsOf(r) : task[k] = "over"
  /\ Turns(r, IF cancel[r] \/ ~Live(r) THEN "none" ELSE "freeze")
  /\ task' = [k \in Slots |-> IF k[1] = r THEN "none" ELSE task[k]]
  /\ UNCHANGED record /\ ThreadOnly

\* _freeze: built beside its place and renamed into it, or an exception.
FreezeResults(r) ==
  /\ thread[r] = "freeze"
  /\ \/ /\ frozen' = [frozen EXCEPT ![r] =
               IF \E k \in SlotsOf(r) : got[k] = "whole" THEN "whole" ELSE "empty"]
        /\ Turns(r, "commit")
     \/ Turns(r, "fail") /\ UNCHANGED frozen
  /\ UNCHANGED <<record, fence, launch, marker, barred, completion, worker, task, got, cancel, op,
                 serviceHistory>>

\* How the run ended, into the row as it was read: not over an interruption.
ReadBack(r) ==
  /\ thread[r] \in {"commit", "fail"}
  /\ Turns(r, IF ~Live(r) THEN "none" ELSE IF thread[r] = "commit" THEN "keep" ELSE "drop")
  /\ UNCHANGED <<record, task>> /\ ThreadOnly

Outcome(r) ==
  IF thread[r] = "drop" THEN [status |-> "failed", manifest |-> "none"]
  ELSE [status |-> IF frozen[r] = "whole" THEN "succeeded" ELSE "failed", manifest |-> frozen[r]]

Conclude(r) ==
  /\ thread[r] \in {"keep", "drop"} /\ Turns(r, "none")
  /\ record' = [record EXCEPT ![r] = Outcome(r)]
  /\ UNCHANGED task /\ ThreadOnly

ThreadStep(r) ==
  \/ Begin(r) \/ Execute(r) \/ Gathered(r) \/ FreezeResults(r) \/ ReadBack(r) \/ Conclude(r)
-----------------------------------------------------------------------------
(* TemplateExecutor.execute: the thread of a phone of a run. *)

TaskOnly == UNCHANGED <<record, frozen, fence, completion, thread, cancel, op, restarts, deletions, stopped>>
Moves(k, step) == task' = [task EXCEPT ![k] = step] /\ UNCHANGED got
TaskOver(k, result) == task' = [task EXCEPT ![k] = "over"] /\ got' = [got EXCEPT ![k] = result]
Looks == UNCHANGED <<launch, marker, barred, worker, launches>>

\* A start that is on record and not acknowledged is never repeated.
Enter(k) ==
  /\ task[k] = "enter" /\ LaunchLockFree
  /\ IF cancel[k[1]] \/ fence[k[1]] THEN TaskOver(k, "empty")
     ELSE IF completion[k] # "none" THEN TaskOver(k, completion[k])
     ELSE Moves(k, IF marker[k] THEN "attach" ELSE IF launch[k] THEN "ack" ELSE "journal")
  /\ Looks /\ TaskOnly

Acknowledged(k) ==
  /\ task[k] = "ack" /\ (marker[k] \/ completion[k] # "none")
  /\ IF completion[k] # "none" THEN TaskOver(k, completion[k]) ELSE Moves(k, "attach")
  /\ Looks /\ TaskOnly

\* Three seconds, and then the process may not start any more.
Unacknowledged(k) ==
  /\ task[k] = "ack" /\ ~marker[k] /\ completion[k] = "none"
  /\ Moves(k, "giveup") /\ Looks /\ TaskOnly

\* Mutant: given up, and the process left to start.
GiveUp(k) ==
  /\ task[k] = "giveup" /\ TaskOver(k, "empty") /\ Looks /\ TaskOnly

Bar(k) ==
  /\ task[k] = "giveup" /\ TaskOver(k, "empty")
  /\ barred' = [barred EXCEPT ![k] = TRUE]
  /\ UNCHANGED <<launch, marker, worker, launches>> /\ TaskOnly

Attach(k) ==
  /\ task[k] = "attach"
  /\ IF Alive(k) THEN Moves(k, "wait") ELSE TaskOver(k, "empty")
  /\ Looks /\ TaskOnly

Journal(k) ==
  /\ task[k] = "journal" /\ Moves(k, "spawn")
  /\ launch' = [launch EXCEPT ![k] = TRUE]
  /\ UNCHANGED <<marker, barred, worker, launches>> /\ TaskOnly

Spawn(k) ==
  /\ task[k] = "spawn"
  /\ \/ /\ Moves(k, "mark")
        /\ worker' = [worker EXCEPT ![k] = "spawned"]
        /\ launches' = [launches EXCEPT ![k] = @ + 1]
     \/ TaskOver(k, "empty") /\ UNCHANGED <<worker, launches>>
  /\ UNCHANGED <<launch, marker, barred>> /\ TaskOnly

Mark(k) ==
  /\ task[k] = "mark" /\ Moves(k, "wait")
  /\ marker' = [marker EXCEPT ![k] = TRUE]
  /\ UNCHANGED <<launch, barred, worker, launches>> /\ TaskOnly

\* terminate_owned
Killed(K) == worker' = [k \in Slots |-> IF k \in K /\ Alive(k) THEN "gone" ELSE worker[k]]

\* The results are there, or the run is stopped, or the process is gone, or the
\* time is up.
Wait(k) ==
  /\ task[k] = "wait"
  /\ \/ completion[k] # "none" /\ TaskOver(k, completion[k]) /\ UNCHANGED worker
     \/ completion[k] = "none" /\ ~Alive(k) /\ TaskOver(k, "empty") /\ UNCHANGED worker
     \/ completion[k] = "none" /\ TaskOver(k, "empty") /\ Killed({k})
  /\ UNCHANGED <<launch, marker, barred, launches>> /\ TaskOnly

TaskStep(k) ==
  \/ Enter(k) \/ Acknowledged(k) \/ Unacknowledged(k) \/ Bar(k) \/ Attach(k)
  \/ Journal(k) \/ Spawn(k) \/ Mark(k) \/ Wait(k)
-----------------------------------------------------------------------------
(* worker.py: a process for a phone of a run. *)

WorkerOnly == UNCHANGED <<record, frozen, fence, launch, barred, serviceMemory, op, serviceHistory>>

\* It leaves its number before it asks whether it may go on.
LeaveNumber(k) ==
  /\ worker[k] = "spawned"
  /\ worker' = [worker EXCEPT ![k] = "marked"] /\ marker' = [marker EXCEPT ![k] = TRUE]
  /\ UNCHANGED completion /\ WorkerOnly

AskLeave(k) ==
  /\ worker[k] = "marked"
  /\ IF fence[k[1]] \/ barred[k]
     THEN /\ worker' = [worker EXCEPT ![k] = "gone"]
          /\ completion' = [completion EXCEPT ![k] = "empty"]
     ELSE worker' = [worker EXCEPT ![k] = "working"] /\ UNCHANGED completion
  /\ UNCHANGED marker /\ WorkerOnly

\* completion.json is the last thing it writes.
Finish(k) ==
  /\ worker[k] = "working" /\ worker' = [worker EXCEPT ![k] = "gone"]
  /\ \E result \in Results : completion' = [completion EXCEPT ![k] = result]
  /\ UNCHANGED marker /\ WorkerOnly

Die(k) ==
  /\ Alive(k) /\ worker' = [worker EXCEPT ![k] = "gone"]
  /\ UNCHANGED <<marker, completion>> /\ WorkerOnly

WorkerStep(k) == LeaveNumber(k) \/ AskLeave(k) \/ Finish(k)
-----------------------------------------------------------------------------
(* delete_phone: the runs that have a process on the phone, and those that are
   live by their rows, are fenced, their processes stopped, their rows ended. *)

OpOnly == UNCHANGED <<frozen, launch, marker, barred, completion, thread, task, got, restarts, launches>>

FindOwned(p) ==
  /\ op.step = "free" /\ deletions < MaxDeletions /\ deletions' = deletions + 1
  /\ op' = [NoOp EXCEPT !.step = "list", !.phone = p,
                        !.owned = {r \in Runs : \E k \in SlotsOf(r) : k[2] = p /\ Owned(k)}]
  /\ UNCHANGED <<record, fence, worker, cancel, stopped>> /\ OpOnly

FindLive ==
  /\ op.step = "list"
  /\ LET hit == op.owned \cup {r \in Runs : Live(r) /\ op.phone \in Uses[r]}
     IN  op' = [op EXCEPT !.step = "cancel", !.hit = hit, !.todo = hit]
  /\ UNCHANGED <<record, fence, worker, cancel, deletions, stopped>> /\ OpOnly

\* Mutant: the processes are stopped, and those that come late are not.
NoFence(r) ==
  /\ op.step = "cancel" /\ r \in op.todo /\ LaunchLockFree
  /\ op' = [op EXCEPT !.step = "kill", !.run = r]
  /\ UNCHANGED <<record, fence, worker, cancel, deletions, stopped>> /\ OpOnly

\* TemplateExecutor.cancel: the fence first.
Fence(r) ==
  /\ op.step = "cancel" /\ r \in op.todo /\ LaunchLockFree
  /\ op' = [op EXCEPT !.step = "kill", !.run = r]
  /\ fence' = [fence EXCEPT ![r] = TRUE]
  /\ UNCHANGED <<record, worker, cancel, deletions, stopped>> /\ OpOnly

Kill ==
  /\ op.step = "kill"
  /\ \/ /\ Killed({k \in SlotsOf(op.run) : marker[k]})
        /\ cancel' = [cancel EXCEPT ![op.run] = TRUE]
        /\ op' = [op EXCEPT !.step = "cancel", !.todo = @ \ {op.run}]
     \* A process that cannot be stopped ends the request.
     \/ /\ \E K \in SUBSET {k \in SlotsOf(op.run) : marker[k]} : Killed(K)
        /\ op' = NoOp /\ UNCHANGED cancel
  /\ UNCHANGED <<record, fence, deletions, stopped>> /\ OpOnly

AllFenced ==
  /\ op.step = "cancel" /\ op.todo = {}
  /\ op' = [op EXCEPT !.step = "rows", !.todo = op.hit]
  /\ UNCHANGED <<record, fence, worker, cancel, deletions, stopped>> /\ OpOnly

ReadRow(r) ==
  /\ op.step = "rows" /\ r \in op.todo
  /\ op' = IF Live(r) \/ (record[r].status = "failed" /\ r \in op.owned)
           THEN [op EXCEPT !.step = "interrupt", !.run = r, !.kept = record[r].manifest]
           ELSE [op EXCEPT !.todo = @ \ {r}]
  /\ UNCHANGED <<record, fence, worker, cancel, deletions, stopped>> /\ OpOnly

Interrupt ==
  /\ op.step = "interrupt"
  /\ record' = [record EXCEPT ![op.run] = [status |-> "interrupted", manifest |-> op.kept]]
  /\ op' = [op EXCEPT !.step = "rows", !.todo = @ \ {op.run}]
  /\ UNCHANGED <<fence, worker, cancel, deletions, stopped>> /\ OpOnly

Answer ==
  /\ op.step = "rows" /\ op.todo = {}
  /\ op' = NoOp /\ stopped' = stopped \cup op.hit
  /\ UNCHANGED <<record, fence, worker, cancel, deletions>> /\ OpOnly

Deletion ==
  \/ FindLive \/ Kill \/ AllFenced \/ Interrupt \/ Answer
  \/ \E r \in Runs : Fence(r) \/ ReadRow(r)
-----------------------------------------------------------------------------
\* Another service takes over: __init__ schedules every live run.
RestartService ==
  /\ restarts < MaxRestarts /\ restarts' = restarts + 1
  /\ thread' = [r \in Runs |-> IF Live(r) THEN "start" ELSE "none"]
  /\ task' = [k \in Slots |-> "none"] /\ got' = [k \in Slots |-> "empty"]
  /\ cancel' = [r \in Runs |-> FALSE] /\ op' = NoOp
  /\ UNCHANGED <<record, serviceFiles, worker, deletions, launches, stopped>>

ServiceWork ==
  \/ \E r \in Runs : ThreadStep(r)
  \/ \E k \in Slots : TaskStep(k) \/ WorkerStep(k)

NextService ==
  \/ ServiceWork \/ SaveRun \/ Deletion \/ RestartService
  \/ \E r \in Runs : SubmitRun(r)
  \/ \E k \in Slots : Die(k)
  \/ \E p \in Phones : FindOwned(p)

ServiceSpec == InitService /\ [][NextService]_serviceVars
-----------------------------------------------------------------------------
Requests ==
  [step: {"free", "submit", "list", "cancel", "kill", "rows", "interrupt"},
   run: Runs \cup {"none"}, phone: Phones \cup {"none"}, kept: Results \cup {"none"},
   owned: SUBSET Runs, hit: SUBSET Runs, todo: SUBSET Runs]

ServiceTypeOK ==
  /\ record \in [Runs -> [status: {"none", "queued", "running", "succeeded", "failed", "interrupted"},
                          manifest: Results \cup {"none"}]]
  /\ frozen \in [Runs -> Results \cup {"none"}]
  /\ fence \in [Runs -> BOOLEAN] /\ cancel \in [Runs -> BOOLEAN]
  /\ launch \in [Slots -> BOOLEAN] /\ marker \in [Slots -> BOOLEAN] /\ barred \in [Slots -> BOOLEAN]
  /\ completion \in [Slots -> Results \cup {"none"}]
  /\ worker \in [Slots -> {"none", "spawned", "marked", "working", "gone"}]
  /\ thread \in [Runs -> {"none", "start", "save", "execute", "freeze", "commit", "fail", "keep", "drop"}]
  /\ task \in [Slots -> Launching \cup {"none", "enter", "wait", "over"}]
  /\ got \in [Slots -> Results] /\ launches \in [Slots -> Nat]
  /\ op \in Requests /\ op.todo \subseteq op.hit
  /\ stopped \subseteq Runs /\ restarts \in Nat /\ deletions \in Nat

\* A phone is driven by one process at a time, whichever runs ask for it, and no
\* run starts a process on it twice: not after a restart between the start and its
\* acknowledgement, nor beside one that is slow and comes late.
PhoneExclusive ==
  /\ \A k, m \in Slots :
       k[2] = m[2] /\ worker[k] = "working" /\ worker[m] = "working" => k = m
  /\ \A k \in Slots : launches[k] <= 1

\* The deletion of a phone that was answered has stopped the runs it found for good:
\* none of their processes drives a phone any more, those that come late included.
StoppedForGood == \A k \in Slots : k[1] \in stopped => worker[k] # "working"
=============================================================================
