------------------------ MODULE CollectionTransferProofs ------------------------
(* Proofs about CollectorService and CollectionTransfer.  First the collector's own
   service, for all runs and phones and any number of restarts, deletions and dead or
   late processes; then what the backend receives from it, for all plans, lists and
   artifacts, any number of crashes, failed calls and full disks, and all limits. *)
EXTENDS CollectionTransfer, TLAPS

Finishing  == {"freeze", "commit", "fail", "keep", "drop"}
EndedStatuses == {"succeeded", "failed", "interrupted"}

\* A start is on record before the process, a process leaves its number before it
\* works, and what it left is there when it is gone.
LaunchInv ==
  \A k \in Slots :
    /\ launches[k] = IF worker[k] = "none" THEN 0 ELSE 1
    /\ worker[k] # "none" => launch[k]
    /\ worker[k] \in {"marked", "working"} => marker[k]
    /\ completion[k] # "none" => worker[k] = "gone"
    /\ task[k] \in {"journal", "spawn"} => worker[k] = "none"
    /\ task[k] = "spawn" => launch[k]
    /\ task[k] # "none" => thread[k[1]] = "execute"

\* Threads that may still start processes are those of live runs, but for the fence.
ThreadInv ==
  \A r \in Runs :
    /\ thread[r] \in {"save", "execute"} => (Live(r) \/ fence[r]) /\ frozen[r] = "none"
    /\ record[r].status = "none" => thread[r] = "none" /\ \A k \in SlotsOf(r) : worker[k] = "none"
    /\ cancel[r] => fence[r]

\* Nobody who looked before the fence starts a process after it.
FenceInv == \A k \in Slots : fence[k[1]] => task[k] \notin Launching

\* A phone of a run that is done with has no process that may still begin to work.
NoLateStart(k) == Alive(k) => fence[k[1]] \/ barred[k] \/ worker[k] = "working"
DoneWith(k) ==
  \/ task[k] = "over" \/ thread[k[1]] \in Finishing
  \/ frozen[k[1]] # "none" \/ record[k[1]].status \in EndedStatuses
DoneInv == \A k \in Slots : DoneWith(k) => NoLateStart(k)

StoppedRun(r) == fence[r] /\ \A k \in SlotsOf(r) : worker[k] # "working"
OpInv ==
  /\ op.step = "submit" => /\ op.run \in Runs /\ record[op.run].status = "none"
                           /\ \A s \in Runs : Live(s) /\ ~fence[s] => Uses[s] \cap Uses[op.run] = {}
  /\ op.step = "kill" => op.run \in op.todo /\ fence[op.run]
  /\ op.step = "interrupt" => op.run \in op.hit
  /\ op.step \in {"cancel", "kill"} => \A r \in op.hit \ op.todo : StoppedRun(r)
  /\ op.step \in {"rows", "interrupt"} => \A r \in op.hit : StoppedRun(r)
  /\ \A r \in stopped : StoppedRun(r)

\* Who works on a phone, or may come to.
Threat(k) == worker[k] = "working" \/ (~fence[k[1]] /\ (Live(k[1]) \/ (Alive(k) /\ ~barred[k])))
PhoneInv == \A k, m \in Slots : k[2] = m[2] /\ Threat(k) /\ Threat(m) => k = m

ServiceInv ==
  ServiceTypeOK /\ LaunchInv /\ ThreadInv /\ FenceInv /\ DoneInv /\ OpInv /\ PhoneInv

LEMMA ServiceStarts == InitService => ServiceInv
<1> SUFFICES ASSUME InitService PROVE ServiceInv
  OBVIOUS
<1>1. ServiceTypeOK
  BY ServiceAssumption DEF InitService, ServiceTypeOK, Requests, NoOp, Fresh, Nothing, Results
<1>2. LaunchInv
  BY DEF InitService, LaunchInv
<1>3. ThreadInv
  BY DEF InitService, ThreadInv, Fresh, Nothing, SlotsOf
<1>4. FenceInv /\ DoneInv /\ OpInv
  BY DEF InitService, FenceInv, DoneInv, NoLateStart, Alive, OpInv, NoOp, Launching
<1>5. PhoneInv
  <2>1. \A k \in Slots : Threat(k) => k[1] \in Accepted
    BY DEF InitService, Threat, Live, Alive, Nothing, Slots
  <2>2. \A k, m \in Slots : k[2] = m[2] /\ k[1] = m[1] => k = m
    BY DEF Slots
  <2>3. \A k \in Slots : k[2] \in Uses[k[1]]
    BY DEF Slots
  <2> QED BY <2>1, <2>2, <2>3, ServiceAssumption DEF PhoneInv
<1> QED BY <1>1, <1>2, <1>3, <1>4, <1>5 DEF ServiceInv

KillEffect ==
  /\ worker' \in [Slots -> {"none", "spawned", "marked", "working", "gone"}]
  /\ \A k \in Slots : worker'[k] = worker[k] \/ (worker'[k] = "gone" /\ Alive(k))
  /\ UNCHANGED <<record, serviceFiles, thread, task, got, restarts, deletions, launches, stopped>>
  /\ \/ op' = NoOp /\ UNCHANGED cancel
     \/ /\ op' = [op EXCEPT !.step = "cancel", !.todo = @ \ {op.run}]
        /\ cancel' = [cancel EXCEPT ![op.run] = TRUE]
        /\ \A k \in SlotsOf(op.run) : worker'[k] # "working"

LEMMA KillStops ==
  ASSUME ServiceTypeOK, LaunchInv, Kill PROVE KillEffect
<1>1. \A K : Killed(K) =>
        /\ worker' \in [Slots -> {"none", "spawned", "marked", "working", "gone"}]
        /\ \A k \in Slots : worker'[k] = IF k \in K /\ Alive(k) THEN "gone" ELSE worker[k]
  BY DEF Killed, ServiceTypeOK
<1>2. UNCHANGED <<record, serviceFiles, thread, task, got, restarts, deletions, launches, stopped>>
  BY DEF Kill, OpOnly, serviceFiles
<1>3. CASE /\ Killed({k \in SlotsOf(op.run) : marker[k]})
           /\ cancel' = [cancel EXCEPT ![op.run] = TRUE]
           /\ op' = [op EXCEPT !.step = "cancel", !.todo = @ \ {op.run}]
  <2>1. \A k \in SlotsOf(op.run) : worker'[k] # "working"
    BY <1>1, <1>3 DEF LaunchInv, Alive, SlotsOf
  <2> QED BY <1>1, <1>2, <1>3, <2>1 DEF KillEffect
<1>4. CASE /\ \E K \in SUBSET {k \in SlotsOf(op.run) : marker[k]} : Killed(K)
           /\ op' = NoOp /\ UNCHANGED cancel
  BY <1>1, <1>2, <1>4 DEF KillEffect
<1> QED BY <1>3, <1>4 DEF Kill

LEMMA TaskTypes ==
  ASSUME ServiceTypeOK, NEW k \in Slots,
         \/ \E x \in Launching \cup {"enter", "wait"} : Moves(k, x)
         \/ \E result \in Results : TaskOver(k, result)
  PROVE  /\ task' \in [Slots -> Launching \cup {"none", "enter", "wait", "over"}]
         /\ got' \in [Slots -> Results]
  BY DEF Moves, TaskOver, ServiceTypeOK

LEMMA SaveRunEffect ==
  ASSUME SaveRun
  PROVE  /\ UNCHANGED <<serviceFiles, worker, task, got, cancel, serviceHistory>>
         /\ op' = NoOp
         /\ \/ UNCHANGED <<record, thread>>
            \/ /\ \A k \in Slots : k[2] \in Uses[op.run] => ~Owned(k)
               /\ record' = [record EXCEPT ![op.run] = Fresh]
               /\ thread' = [thread EXCEPT ![op.run] = "start"]
  BY DEF SaveRun
-----------------------------------------------------------------------------
\* The type invariant.
LEMMA TypeStep ==
  ASSUME ServiceInv, NextService PROVE ServiceTypeOK'
<1>2. ASSUME NEW r \in Runs, Begin(r) PROVE ServiceTypeOK'
  BY <1>2 DEF ServiceInv, ServiceTypeOK, Begin, ThreadOnly, Turns, serviceFiles, serviceHistory
<1>3. ASSUME NEW r \in Runs, Execute(r) PROVE ServiceTypeOK'
  BY <1>3 DEF ServiceInv, ServiceTypeOK, Execute, ThreadOnly, Turns, serviceFiles, serviceHistory,
     Nothing
<1>4. ASSUME NEW r \in Runs, Gathered(r) PROVE ServiceTypeOK'
  BY <1>4 DEF ServiceInv, ServiceTypeOK, Gathered, ThreadOnly, Turns, serviceFiles, serviceHistory
<1>5. ASSUME NEW r \in Runs, FreezeResults(r) PROVE ServiceTypeOK'
  <2>1. UNCHANGED <<record, fence, launch, marker, barred, completion, worker, task, got, cancel,
                    op, serviceHistory>>
    BY <1>5 DEF FreezeResults
  <2>2. frozen' \in [Runs -> Results \cup {"none"}]
    BY <1>5 DEF FreezeResults, ServiceInv, ServiceTypeOK, Results
  <2>3. thread' \in [Runs -> {"none", "start", "save", "execute", "freeze", "commit", "fail",
                              "keep", "drop"}]
    BY <1>5 DEF FreezeResults, Turns, ServiceInv, ServiceTypeOK
  <2> QED
    BY <2>1, <2>2, <2>3 DEF ServiceInv, ServiceTypeOK, serviceHistory
<1>6. ASSUME NEW r \in Runs, ReadBack(r) PROVE ServiceTypeOK'
  BY <1>6 DEF ServiceInv, ServiceTypeOK, ReadBack, ThreadOnly, Turns, serviceFiles, serviceHistory
<1>7. ASSUME NEW r \in Runs, Conclude(r) PROVE ServiceTypeOK'
  BY <1>7 DEF ServiceInv, ServiceTypeOK, Conclude, ThreadOnly, Turns, serviceFiles,
     serviceHistory, Outcome
<1>8. ASSUME NEW r \in Runs, SubmitRun(r) PROVE ServiceTypeOK'
  BY <1>8 DEF ServiceInv, ServiceTypeOK, SubmitRun, Request, serviceFiles, serviceMemory,
     serviceHistory, NoOp, Requests
<1>9. ASSUME NEW r \in Runs, Fence(r) PROVE ServiceTypeOK'
  BY <1>9 DEF ServiceInv, ServiceTypeOK, Fence, OpOnly, Requests
<1>10. ASSUME NEW r \in Runs, ReadRow(r) PROVE ServiceTypeOK'
  BY <1>10 DEF ServiceInv, ServiceTypeOK, ReadRow, OpOnly, Requests
<1>11. ASSUME NEW k \in Slots, Enter(k) PROVE ServiceTypeOK'
  <2>1. \/ \E x \in Launching \cup {"enter", "wait"} : Moves(k, x)
        \/ \E result \in Results : TaskOver(k, result)
    BY <1>11 DEF ServiceInv, ServiceTypeOK, Enter, Results, Launching
  <2>2. UNCHANGED <<record, serviceFiles, worker, thread, cancel, op, serviceHistory>>
    BY <1>11 DEF Enter, Looks, TaskOnly, serviceFiles, serviceHistory
  <2> QED
    BY <2>1, <2>2, TaskTypes DEF ServiceInv, ServiceTypeOK, serviceFiles, serviceHistory
<1>12. ASSUME NEW k \in Slots, Acknowledged(k) PROVE ServiceTypeOK'
  <2>1. \/ \E x \in Launching \cup {"enter", "wait"} : Moves(k, x)
        \/ \E result \in Results : TaskOver(k, result)
    BY <1>12 DEF ServiceInv, ServiceTypeOK, Acknowledged, Launching
  <2>2. UNCHANGED <<record, serviceFiles, worker, thread, cancel, op, serviceHistory>>
    BY <1>12 DEF Acknowledged, Looks, TaskOnly, serviceFiles, serviceHistory
  <2> QED
    BY <2>1, <2>2, TaskTypes DEF ServiceInv, ServiceTypeOK, serviceFiles, serviceHistory
<1>13. ASSUME NEW k \in Slots, Unacknowledged(k) PROVE ServiceTypeOK'
  BY <1>13 DEF ServiceInv, ServiceTypeOK, Unacknowledged, TaskOnly, Looks, Moves, Launching
<1>14. ASSUME NEW k \in Slots, Bar(k) PROVE ServiceTypeOK'
  BY <1>14 DEF ServiceInv, ServiceTypeOK, Bar, TaskOnly, TaskOver, Results
<1>15. ASSUME NEW k \in Slots, Attach(k) PROVE ServiceTypeOK'
  <2>1. \/ \E x \in Launching \cup {"enter", "wait"} : Moves(k, x)
        \/ \E result \in Results : TaskOver(k, result)
    BY <1>15 DEF Attach, Results
  <2>2. UNCHANGED <<record, serviceFiles, worker, thread, cancel, op, serviceHistory>>
    BY <1>15 DEF Attach, Looks, TaskOnly, serviceFiles, serviceHistory
  <2> QED
    BY <2>1, <2>2, TaskTypes DEF ServiceInv, ServiceTypeOK, serviceFiles, serviceHistory
<1>16. ASSUME NEW k \in Slots, Journal(k) PROVE ServiceTypeOK'
  BY <1>16 DEF ServiceInv, ServiceTypeOK, Journal, TaskOnly, Moves, Launching
<1>17. ASSUME NEW k \in Slots, Spawn(k) PROVE ServiceTypeOK'
  <2>1. \/ \E x \in Launching \cup {"enter", "wait"} : Moves(k, x)
        \/ \E result \in Results : TaskOver(k, result)
    BY <1>17 DEF Spawn, Results, Launching
  <2>2. UNCHANGED <<record, serviceFiles, thread, cancel, op, restarts, deletions, stopped>>
    BY <1>17 DEF Spawn, TaskOnly, serviceFiles
  <2>3. /\ worker' \in [Slots -> {"none", "spawned", "marked", "working", "gone"}]
        /\ launches' \in [Slots -> Nat]
    BY <1>17 DEF Spawn, ServiceInv, ServiceTypeOK
  <2> QED
    BY <2>1, <2>2, <2>3, TaskTypes DEF ServiceInv, ServiceTypeOK, serviceFiles
<1>18. ASSUME NEW k \in Slots, Mark(k) PROVE ServiceTypeOK'
  BY <1>18 DEF ServiceInv, ServiceTypeOK, Mark, TaskOnly, Moves
<1>19. ASSUME NEW k \in Slots, Wait(k) PROVE ServiceTypeOK'
  <2>1. \/ \E x \in Launching \cup {"enter", "wait"} : Moves(k, x)
        \/ \E result \in Results : TaskOver(k, result)
    BY <1>19 DEF Wait, ServiceInv, ServiceTypeOK, Results
  <2>2. UNCHANGED <<record, serviceFiles, thread, cancel, op, serviceHistory>>
    BY <1>19 DEF Wait, TaskOnly, serviceFiles, serviceHistory
  <2>3. worker' \in [Slots -> {"none", "spawned", "marked", "working", "gone"}]
    BY <1>19 DEF Wait, Killed, ServiceInv, ServiceTypeOK
  <2> QED
    BY <2>1, <2>2, <2>3, TaskTypes DEF ServiceInv, ServiceTypeOK, serviceFiles, serviceHistory
<1>20. ASSUME NEW k \in Slots, LeaveNumber(k) PROVE ServiceTypeOK'
  BY <1>20 DEF ServiceInv, ServiceTypeOK, LeaveNumber, WorkerOnly, serviceMemory, serviceHistory
<1>21. ASSUME NEW k \in Slots, AskLeave(k) PROVE ServiceTypeOK'
  <2>1. UNCHANGED <<record, frozen, fence, launch, marker, barred, serviceMemory, op, serviceHistory>>
    BY <1>21 DEF AskLeave, WorkerOnly
  <2>2. /\ worker' \in [Slots -> {"none", "spawned", "marked", "working", "gone"}]
        /\ completion' \in [Slots -> Results \cup {"none"}]
    BY <1>21 DEF AskLeave, ServiceInv, ServiceTypeOK, Results
  <2> QED
    BY <2>1, <2>2 DEF ServiceInv, ServiceTypeOK, serviceMemory, serviceHistory
<1>22. ASSUME NEW k \in Slots, Finish(k) PROVE ServiceTypeOK'
  BY <1>22 DEF ServiceInv, ServiceTypeOK, Finish, WorkerOnly, serviceMemory, serviceHistory
<1>23. ASSUME NEW k \in Slots, Die(k) PROVE ServiceTypeOK'
  BY <1>23 DEF ServiceInv, ServiceTypeOK, Die, WorkerOnly, serviceMemory, serviceHistory
<1>24. ASSUME NEW p \in Phones, FindOwned(p) PROVE ServiceTypeOK'
  <2>1. UNCHANGED <<record, serviceFiles, worker, serviceMemory, restarts, launches, stopped>>
    BY <1>24 DEF FindOwned, OpOnly, serviceFiles, serviceMemory
  <2>2. deletions' \in Nat
    BY <1>24 DEF FindOwned, ServiceInv, ServiceTypeOK
  <2>3. PICK found \in SUBSET Runs : op' = [NoOp EXCEPT !.step = "list", !.phone = p, !.owned = found]
    BY <1>24 DEF FindOwned
  <2>4. op' \in Requests
    BY <2>3 DEF NoOp, Requests
  <2>5. op'.hit = {} /\ op'.todo = {}
    BY <2>3 DEF NoOp
  <2> QED
    BY <2>1, <2>2, <2>4, <2>5 DEF ServiceInv, ServiceTypeOK, serviceFiles, serviceMemory
<1>25. CASE SaveRun
  <2>1. op.run \in Runs
    BY <1>25 DEF SaveRun, ServiceInv, OpInv
  <2>2. CASE UNCHANGED <<record, thread>>
    BY <1>25, <2>2, SaveRunEffect DEF ServiceInv, ServiceTypeOK, serviceFiles, serviceHistory,
       NoOp, Requests
  <2>3. CASE /\ record' = [record EXCEPT ![op.run] = Fresh]
             /\ thread' = [thread EXCEPT ![op.run] = "start"]
    BY <1>25, <2>1, <2>3, SaveRunEffect DEF ServiceInv, ServiceTypeOK, serviceFiles,
       serviceHistory, NoOp, Requests, Fresh, Nothing
  <2> QED BY <1>25, <2>2, <2>3, SaveRunEffect
<1>26. CASE FindLive
  BY <1>26 DEF ServiceInv, ServiceTypeOK, FindLive, OpOnly, Requests
<1>27. CASE Kill
  <2>1. KillEffect
    BY <1>27, KillStops DEF ServiceInv
  <2>2. op' \in Requests /\ op'.todo \subseteq op'.hit
    <3>1. op \in Requests /\ op.todo \subseteq op.hit
      BY DEF ServiceInv, ServiceTypeOK
    <3>2. CASE op' = NoOp
      BY <3>2 DEF NoOp, Requests
    <3>3. CASE op' = [op EXCEPT !.step = "cancel", !.todo = @ \ {op.run}]
      BY <3>1, <3>3 DEF Requests
    <3> QED BY <2>1, <3>2, <3>3 DEF KillEffect
  <2>3. cancel' \in [Runs -> BOOLEAN]
    <3>1. cancel \in [Runs -> BOOLEAN]
      BY DEF ServiceInv, ServiceTypeOK
    <3> QED BY <2>1, <3>1 DEF KillEffect
  <2> QED
    BY <2>1, <2>2, <2>3 DEF KillEffect, ServiceInv, ServiceTypeOK, serviceFiles
<1>28. CASE AllFenced
  BY <1>28 DEF ServiceInv, ServiceTypeOK, AllFenced, OpOnly, Requests
<1>29. CASE Interrupt
  BY <1>29 DEF ServiceInv, ServiceTypeOK, Interrupt, OpOnly, Requests
<1>30. CASE Answer
  BY <1>30 DEF ServiceInv, ServiceTypeOK, Answer, OpOnly, NoOp, Requests
<1>31. CASE RestartService
  BY <1>31 DEF ServiceInv, ServiceTypeOK, RestartService, serviceFiles, Results, NoOp, Requests
<1> QED
  BY <1>2, <1>3, <1>4, <1>5, <1>6, <1>7, <1>8, <1>9, <1>10, <1>11, <1>12, <1>13, <1>14, <1>15,
     <1>16, <1>17, <1>18, <1>19, <1>20, <1>21, <1>22, <1>23, <1>24, <1>25, <1>26, <1>27, <1>28,
     <1>29, <1>30, <1>31 DEF NextService, ServiceWork, Deletion, ThreadStep, TaskStep,
     WorkerStep, Slots

-----------------------------------------------------------------------------
\* A process is started once.
LEMMA LaunchStep ==
  ASSUME ServiceInv, NextService PROVE LaunchInv'
<1>1. ASSUME UNCHANGED <<launches, worker, launch, marker, completion, task, thread>> PROVE LaunchInv'
  BY <1>1 DEF ServiceInv, LaunchInv
<1>2. ASSUME NEW r \in Runs, SubmitRun(r) \/ Fence(r) \/ ReadRow(r) PROVE LaunchInv'
  BY <1>1, <1>2 DEF SubmitRun, Request, serviceFiles, serviceMemory, serviceHistory, Fence,
     OpOnly, ReadRow
<1>3. ASSUME NEW p \in Phones, FindOwned(p) PROVE LaunchInv'
  BY <1>1, <1>3 DEF FindOwned, OpOnly
<1>4. CASE FindLive \/ AllFenced \/ Interrupt \/ Answer
  BY <1>1, <1>4 DEF FindLive, OpOnly, AllFenced, Interrupt, Answer
<1>5. ASSUME NEW r \in Runs, Begin(r) PROVE LaunchInv'
  BY <1>5 DEF ServiceInv, LaunchInv, Begin, ThreadOnly, Turns, serviceFiles, serviceHistory
<1>6. ASSUME NEW r \in Runs, Execute(r) PROVE LaunchInv'
  BY <1>6 DEF ServiceInv, LaunchInv, Execute, ThreadOnly, Turns, serviceFiles, serviceHistory,
     ServiceTypeOK
<1>7. ASSUME NEW r \in Runs, Gathered(r) PROVE LaunchInv'
  BY <1>7 DEF ServiceInv, LaunchInv, Gathered, ThreadOnly, Turns, serviceFiles, serviceHistory
<1>8. ASSUME NEW r \in Runs, FreezeResults(r) PROVE LaunchInv'
  BY <1>8 DEF ServiceInv, LaunchInv, FreezeResults, Turns, serviceHistory, Slots, ServiceTypeOK
<1>9. ASSUME NEW r \in Runs, ReadBack(r) PROVE LaunchInv'
  BY <1>9 DEF ServiceInv, LaunchInv, ReadBack, ThreadOnly, Turns, serviceFiles, serviceHistory
<1>10. ASSUME NEW r \in Runs, Conclude(r) PROVE LaunchInv'
  BY <1>10 DEF ServiceInv, LaunchInv, Conclude, ThreadOnly, Turns, serviceFiles, serviceHistory
<1>11. ASSUME NEW k \in Slots, Enter(k) PROVE LaunchInv'
  BY <1>11 DEF ServiceInv, LaunchInv, Enter, TaskOnly, Looks, Moves, TaskOver, ServiceTypeOK
<1>12. ASSUME NEW k \in Slots, Acknowledged(k) PROVE LaunchInv'
  BY <1>12 DEF ServiceInv, LaunchInv, Acknowledged, TaskOnly, Looks, Moves, TaskOver,
     ServiceTypeOK
<1>13. ASSUME NEW k \in Slots, Unacknowledged(k) PROVE LaunchInv'
  BY <1>13 DEF ServiceInv, LaunchInv, Unacknowledged, TaskOnly, Looks, Moves
<1>14. ASSUME NEW k \in Slots, Bar(k) PROVE LaunchInv'
  BY <1>14 DEF ServiceInv, LaunchInv, Bar, TaskOnly, TaskOver
<1>15. ASSUME NEW k \in Slots, Attach(k) PROVE LaunchInv'
  BY <1>15 DEF ServiceInv, LaunchInv, Attach, TaskOnly, Looks, Moves, TaskOver, ServiceTypeOK
<1>16. ASSUME NEW k \in Slots, Journal(k) PROVE LaunchInv'
  BY <1>16 DEF ServiceInv, LaunchInv, Journal, TaskOnly, Moves, ServiceTypeOK
<1>17. ASSUME NEW k \in Slots, Spawn(k) PROVE LaunchInv'
  <2>1. worker[k] = "none" /\ launches[k] = 0 /\ launch[k]
    BY <1>17 DEF Spawn, ServiceInv, LaunchInv
  <2> QED
    BY <1>17, <2>1 DEF Spawn, TaskOnly, Moves, TaskOver, ServiceInv, LaunchInv, ServiceTypeOK
<1>18. ASSUME NEW k \in Slots, Mark(k) PROVE LaunchInv'
  BY <1>18 DEF ServiceInv, LaunchInv, Mark, TaskOnly, Moves
<1>19. ASSUME NEW k \in Slots, Wait(k) PROVE LaunchInv'
  BY <1>19 DEF ServiceInv, LaunchInv, Wait, TaskOnly, TaskOver, Killed, Alive, ServiceTypeOK
<1>20. ASSUME NEW k \in Slots, LeaveNumber(k) PROVE LaunchInv'
  BY <1>20 DEF ServiceInv, LaunchInv, LeaveNumber, WorkerOnly, serviceMemory, serviceHistory,
     ServiceTypeOK
<1>21. ASSUME NEW k \in Slots, AskLeave(k) PROVE LaunchInv'
  BY <1>21 DEF ServiceInv, LaunchInv, AskLeave, WorkerOnly, serviceMemory, serviceHistory,
     ServiceTypeOK
<1>22. ASSUME NEW k \in Slots, Finish(k) PROVE LaunchInv'
  BY <1>22 DEF ServiceInv, LaunchInv, Finish, WorkerOnly, serviceMemory, serviceHistory,
     ServiceTypeOK
<1>23. ASSUME NEW k \in Slots, Die(k) PROVE LaunchInv'
  BY <1>23 DEF ServiceInv, LaunchInv, Die, WorkerOnly, serviceMemory, serviceHistory, Alive
<1>24. CASE SaveRun
  <2>1. op.run \in Runs /\ thread[op.run] = "none"
    BY <1>24 DEF SaveRun, ServiceInv, OpInv, ThreadInv
  <2>2. \A k \in Slots : thread'[k[1]] = thread[k[1]] \/ k[1] = op.run
    BY <1>24, <2>1, SaveRunEffect DEF ServiceInv, ServiceTypeOK, Slots
  <2> QED
    BY <1>24, <2>1, <2>2, SaveRunEffect
       DEF ServiceInv, LaunchInv, serviceFiles, serviceHistory
<1>25. CASE Kill
  <2>1. KillEffect
    BY <1>25, KillStops DEF ServiceInv
  <2> QED
    BY <1>25, <2>1 DEF ServiceInv, LaunchInv, KillEffect, serviceFiles, Alive
<1>26. CASE RestartService
  BY <1>26 DEF ServiceInv, LaunchInv, RestartService, serviceFiles
<1> QED
  BY <1>2, <1>3, <1>4, <1>5, <1>6, <1>7, <1>8, <1>9, <1>10, <1>11, <1>12, <1>13, <1>14, <1>15,
     <1>16, <1>17, <1>18, <1>19, <1>20, <1>21, <1>22, <1>23, <1>24, <1>25, <1>26 DEF
     NextService, ServiceWork, Deletion, ThreadStep, TaskStep, WorkerStep, Slots

-----------------------------------------------------------------------------
\* Threads and rows.
LEMMA ThreadsStep ==
  ASSUME ServiceInv, NextService PROVE ThreadInv'
<1>1. ASSUME UNCHANGED <<thread, record, frozen, worker, cancel, fence>> PROVE ThreadInv'
  BY <1>1 DEF ServiceInv, ThreadInv, Live, SlotsOf
<1>2. ASSUME NEW r \in Runs, SubmitRun(r) \/ ReadRow(r) PROVE ThreadInv'
  BY <1>1, <1>2 DEF SubmitRun, serviceFiles, serviceMemory, ReadRow, OpOnly
<1>3. ASSUME NEW k \in Slots, Enter(k) \/ Acknowledged(k) \/ Unacknowledged(k) \/ Bar(k) \/
       Attach(k) \/ Journal(k) \/ Mark(k) PROVE ThreadInv'
  BY <1>1, <1>3 DEF Enter, TaskOnly, Looks, Moves, TaskOver, Acknowledged, Unacknowledged, Bar,
     Attach, Journal, Mark
<1>4. ASSUME NEW p \in Phones, FindOwned(p) PROVE ThreadInv'
  BY <1>1, <1>4 DEF FindOwned, OpOnly
<1>5. CASE FindLive \/ AllFenced \/ Answer
  BY <1>1, <1>5 DEF FindLive, OpOnly, AllFenced, Answer
<1>6. ASSUME NEW r \in Runs, Begin(r) PROVE ThreadInv'
  BY <1>6 DEF ServiceInv, ThreadInv, Begin, ThreadOnly, Turns, serviceFiles, Live
<1>7. ASSUME NEW r \in Runs, Execute(r) PROVE ThreadInv'
  BY <1>7 DEF ServiceInv, ThreadInv, Execute, ThreadOnly, Turns, serviceFiles, Live
<1>8. ASSUME NEW r \in Runs, Gathered(r) PROVE ThreadInv'
  BY <1>8 DEF ServiceInv, ThreadInv, Gathered, ThreadOnly, Turns, serviceFiles, Live
<1>9. ASSUME NEW r \in Runs, FreezeResults(r) PROVE ThreadInv'
  BY <1>9 DEF ServiceInv, ThreadInv, FreezeResults, Turns, serviceHistory, LaunchInv, OpInv, Live,
     ServiceTypeOK
<1>10. ASSUME NEW r \in Runs, ReadBack(r) PROVE ThreadInv'
  BY <1>10 DEF ServiceInv, ThreadInv, ReadBack, ThreadOnly, Turns, serviceFiles, Live
<1>11. ASSUME NEW r \in Runs, Conclude(r) PROVE ThreadInv'
  BY <1>11 DEF ServiceInv, ThreadInv, Conclude, ThreadOnly, Turns, serviceFiles, serviceHistory,
     LaunchInv, OpInv, Live, Outcome
<1>12. ASSUME NEW r \in Runs, Fence(r) PROVE ThreadInv'
  BY <1>12 DEF ServiceInv, ThreadInv, Fence, OpOnly, Live
<1>13. ASSUME NEW k \in Slots, Spawn(k) PROVE ThreadInv'
  BY <1>13 DEF ServiceInv, ThreadInv, Spawn, TaskOnly, Moves, TaskOver, LaunchInv, OpInv, Live,
     Slots, SlotsOf, ServiceTypeOK
<1>14. ASSUME NEW k \in Slots, Wait(k) PROVE ThreadInv'
  BY <1>14 DEF ServiceInv, ThreadInv, Wait, TaskOnly, TaskOver, Killed, LaunchInv, OpInv, Live,
     Alive, SlotsOf
<1>15. ASSUME NEW k \in Slots, LeaveNumber(k) PROVE ThreadInv'
  BY <1>15 DEF ServiceInv, ThreadInv, LeaveNumber, WorkerOnly, serviceMemory, Live
<1>16. ASSUME NEW k \in Slots, AskLeave(k) PROVE ThreadInv'
  BY <1>16 DEF ServiceInv, ThreadInv, AskLeave, WorkerOnly, serviceMemory, serviceHistory,
     LaunchInv, OpInv, Live, Slots, SlotsOf, ServiceTypeOK
<1>17. ASSUME NEW k \in Slots, Finish(k) PROVE ThreadInv'
  BY <1>17 DEF ServiceInv, ThreadInv, Finish, WorkerOnly, serviceMemory, Live
<1>18. ASSUME NEW k \in Slots, Die(k) PROVE ThreadInv'
  BY <1>18 DEF ServiceInv, ThreadInv, Die, WorkerOnly, serviceMemory, Live, Alive
<1>19. CASE SaveRun
  <2>1. CASE UNCHANGED <<record, thread>>
    BY <1>19, <2>1, SaveRunEffect DEF ServiceInv, ThreadInv, serviceFiles, Live
  <2>2. CASE /\ record' = [record EXCEPT ![op.run] = Fresh]
             /\ thread' = [thread EXCEPT ![op.run] = "start"]
    BY <1>19, <2>2, SaveRunEffect DEF ServiceInv, ThreadInv, serviceFiles, Live, ServiceTypeOK,
       Fresh
  <2> QED BY <1>19, <2>1, <2>2, SaveRunEffect
<1>20. CASE Kill
  <2>1. KillEffect
    BY <1>20, KillStops DEF ServiceInv
  <2>2. \A r \in Runs : cancel'[r] => fence[r]
    BY <1>20, <2>1 DEF Kill, ServiceInv, ThreadInv, OpInv, ServiceTypeOK
  <2>3. \A r \in Runs : record[r].status = "none" => \A k \in SlotsOf(r) : worker'[k] = "none"
    BY <2>1 DEF KillEffect, ServiceInv, ThreadInv, Alive, SlotsOf
  <2> QED
    BY <2>1, <2>2, <2>3 DEF KillEffect, ServiceInv, ThreadInv, serviceFiles, Live
<1>21. CASE Interrupt
  BY <1>21 DEF ServiceInv, ThreadInv, Interrupt, OpOnly, LaunchInv, OpInv, Live, StoppedRun
<1>22. CASE RestartService
  BY <1>22 DEF ServiceInv, ThreadInv, RestartService, Live
<1> QED
  BY <1>2, <1>3, <1>4, <1>5, <1>6, <1>7, <1>8, <1>9, <1>10, <1>11, <1>12, <1>13, <1>14, <1>15,
     <1>16, <1>17, <1>18, <1>19, <1>20, <1>21, <1>22 DEF NextService, ServiceWork, Deletion,
     ThreadStep, TaskStep, WorkerStep, Slots

-----------------------------------------------------------------------------
\* The fence, behind the launch lock.
LEMMA FenceStep ==
  ASSUME ServiceInv, NextService PROVE FenceInv'
<1>1. ASSUME UNCHANGED <<fence, task>> PROVE FenceInv'
  BY <1>1 DEF ServiceInv, FenceInv
<1>2. ASSUME NEW r \in Runs, Begin(r) \/ FreezeResults(r) \/ ReadBack(r) \/ Conclude(r) \/
       SubmitRun(r) \/ ReadRow(r) PROVE FenceInv'
  BY <1>1, <1>2 DEF Begin, ThreadOnly, Turns, serviceFiles, serviceHistory, FreezeResults,
     ReadBack, Conclude, SubmitRun, serviceMemory, ReadRow, OpOnly
<1>3. ASSUME NEW k \in Slots, LeaveNumber(k) \/ AskLeave(k) \/ Finish(k) \/ Die(k) PROVE FenceInv'
  BY <1>1, <1>3 DEF LeaveNumber, WorkerOnly, serviceMemory, AskLeave, Finish, Die
<1>4. ASSUME NEW p \in Phones, FindOwned(p) PROVE FenceInv'
  BY <1>1, <1>4 DEF FindOwned, OpOnly
<1>5. CASE SaveRun \/ FindLive \/ Kill \/ AllFenced \/ Interrupt \/ Answer
  BY <1>1, <1>5 DEF SaveRun, serviceFiles, serviceHistory, FindLive, OpOnly, Kill, AllFenced,
     Interrupt, Answer
<1>6. ASSUME NEW r \in Runs, Execute(r) PROVE FenceInv'
  BY <1>6 DEF ServiceInv, FenceInv, Execute, ThreadOnly, Turns, serviceFiles, Launching
<1>7. ASSUME NEW r \in Runs, Gathered(r) PROVE FenceInv'
  BY <1>7 DEF ServiceInv, FenceInv, Gathered, ThreadOnly, Turns, serviceFiles, Launching
<1>8. ASSUME NEW r \in Runs, Fence(r) PROVE FenceInv'
  BY <1>8 DEF ServiceInv, FenceInv, Fence, OpOnly, LaunchLockFree
<1>9. ASSUME NEW k \in Slots, Enter(k) PROVE FenceInv'
  <2>1. UNCHANGED fence
    BY <1>9 DEF Enter, TaskOnly
  <2>2. fence[k[1]] => task' = [task EXCEPT ![k] = "over"]
    BY <1>9 DEF Enter, TaskOver
  <2>3. \A m \in Slots \ {k} : task'[m] = task[m]
    BY <1>9 DEF Enter, Moves, TaskOver, ServiceInv, ServiceTypeOK
  <2> QED
    BY <2>1, <2>2, <2>3 DEF ServiceInv, FenceInv, ServiceTypeOK, Launching
<1>10. ASSUME NEW k \in Slots, Acknowledged(k) PROVE FenceInv'
  BY <1>10 DEF ServiceInv, FenceInv, Acknowledged, TaskOnly, Looks, Moves, TaskOver, Launching,
     ServiceTypeOK
<1>11. ASSUME NEW k \in Slots, Unacknowledged(k) PROVE FenceInv'
  BY <1>11 DEF ServiceInv, FenceInv, Unacknowledged, TaskOnly, Looks, Moves, Launching
<1>12. ASSUME NEW k \in Slots, Bar(k) PROVE FenceInv'
  BY <1>12 DEF ServiceInv, FenceInv, Bar, TaskOnly, TaskOver, Launching
<1>13. ASSUME NEW k \in Slots, Attach(k) PROVE FenceInv'
  BY <1>13 DEF ServiceInv, FenceInv, Attach, TaskOnly, Looks, Moves, TaskOver, ServiceTypeOK
<1>14. ASSUME NEW k \in Slots, Journal(k) PROVE FenceInv'
  BY <1>14 DEF ServiceInv, FenceInv, Journal, TaskOnly, Moves, Launching
<1>15. ASSUME NEW k \in Slots, Spawn(k) PROVE FenceInv'
  BY <1>15 DEF ServiceInv, FenceInv, Spawn, TaskOnly, Moves, TaskOver, ServiceTypeOK
<1>16. ASSUME NEW k \in Slots, Mark(k) PROVE FenceInv'
  BY <1>16 DEF ServiceInv, FenceInv, Mark, TaskOnly, Moves, Launching
<1>17. ASSUME NEW k \in Slots, Wait(k) PROVE FenceInv'
  BY <1>17 DEF ServiceInv, FenceInv, Wait, TaskOnly, TaskOver, Killed, Launching, ServiceTypeOK
<1>18. CASE RestartService
  BY <1>18 DEF ServiceInv, FenceInv, RestartService, Launching
<1> QED
  BY <1>2, <1>3, <1>4, <1>5, <1>6, <1>7, <1>8, <1>9, <1>10, <1>11, <1>12, <1>13, <1>14, <1>15,
     <1>16, <1>17, <1>18 DEF NextService, ServiceWork, Deletion, ThreadStep, TaskStep,
     WorkerStep, Slots

-----------------------------------------------------------------------------
\* Runs that are done with.
LEMMA DoneStep ==
  ASSUME ServiceInv, NextService PROVE DoneInv'
<1>1. ASSUME UNCHANGED <<task, thread, frozen, record, worker, fence, barred>> PROVE DoneInv'
  BY <1>1 DEF ServiceInv, DoneInv, DoneWith, NoLateStart, Alive
<1>2. ASSUME NEW r \in Runs, SubmitRun(r) \/ ReadRow(r) PROVE DoneInv'
  BY <1>1, <1>2 DEF SubmitRun, serviceFiles, serviceMemory, ReadRow, OpOnly
<1>3. ASSUME NEW p \in Phones, FindOwned(p) PROVE DoneInv'
  BY <1>1, <1>3 DEF FindOwned, OpOnly
<1>4. CASE FindLive \/ AllFenced \/ Answer
  BY <1>1, <1>4 DEF FindLive, OpOnly, AllFenced, Answer
<1>5. ASSUME NEW r \in Runs, Begin(r) PROVE DoneInv'
  BY <1>5 DEF ServiceInv, DoneInv, Begin, ThreadOnly, Turns, serviceFiles, serviceHistory,
     FenceInv, ThreadInv, LaunchInv, OpInv, StoppedRun, DoneWith, NoLateStart, Finishing,
     EndedStatuses, Alive
<1>6. ASSUME NEW r \in Runs, Execute(r) PROVE DoneInv'
  BY <1>6 DEF ServiceInv, DoneInv, Execute, ThreadOnly, Turns, serviceFiles, serviceHistory,
     FenceInv, ThreadInv, LaunchInv, OpInv, StoppedRun, DoneWith, NoLateStart, Finishing,
     EndedStatuses, Alive
<1>7. ASSUME NEW r \in Runs, Gathered(r) PROVE DoneInv'
  BY <1>7 DEF ServiceInv, DoneInv, Gathered, ThreadOnly, Turns, serviceFiles, serviceHistory,
     FenceInv, ThreadInv, LaunchInv, OpInv, StoppedRun, DoneWith, NoLateStart, Finishing,
     EndedStatuses, Alive, SlotsOf
<1>8. ASSUME NEW r \in Runs, FreezeResults(r) PROVE DoneInv'
  BY <1>8 DEF ServiceInv, DoneInv, FreezeResults, Turns, serviceHistory, FenceInv, ThreadInv,
     LaunchInv, OpInv, StoppedRun, DoneWith, NoLateStart, Finishing, EndedStatuses, Live, Alive,
     Slots, ServiceTypeOK
<1>9. ASSUME NEW r \in Runs, ReadBack(r) PROVE DoneInv'
  <2>1. UNCHANGED <<record, frozen, worker, fence, barred, task>>
    BY <1>9 DEF ReadBack, ThreadOnly, serviceFiles
  <2>2. \A k \in Slots : DoneWith(k)' => DoneWith(k)
    BY <1>9, <2>1 DEF ReadBack, Turns, DoneWith, Finishing
  <2> QED
    BY <2>1, <2>2 DEF ServiceInv, DoneInv, NoLateStart, Alive
<1>10. ASSUME NEW r \in Runs, Conclude(r) PROVE DoneInv'
  <2>1. UNCHANGED <<frozen, worker, fence, barred, task>>
    BY <1>10 DEF Conclude, ThreadOnly, serviceFiles
  <2>2. thread[r] \in Finishing /\ \A s \in Runs \ {r} : thread'[s] = thread[s] /\ record'[s] = record[s]
    BY <1>10 DEF Conclude, Turns, Finishing
  <2>3. \A k \in Slots : DoneWith(k)' => DoneWith(k)
    BY <2>1, <2>2 DEF DoneWith, Slots
  <2> QED
    BY <2>1, <2>3 DEF ServiceInv, DoneInv, NoLateStart, Alive
<1>11. ASSUME NEW r \in Runs, Fence(r) PROVE DoneInv'
  BY <1>11 DEF ServiceInv, DoneInv, Fence, OpOnly, FenceInv, ThreadInv, LaunchInv, OpInv,
     StoppedRun, DoneWith, NoLateStart, Alive
<1>12. ASSUME NEW k \in Slots, Enter(k) PROVE DoneInv'
  BY <1>12 DEF ServiceInv, DoneInv, Enter, TaskOnly, Looks, Moves, TaskOver, FenceInv, ThreadInv,
     LaunchInv, OpInv, StoppedRun, DoneWith, NoLateStart, Finishing, EndedStatuses, Live, Alive,
     Slots, ServiceTypeOK
<1>13. ASSUME NEW k \in Slots, Acknowledged(k) PROVE DoneInv'
  BY <1>13 DEF ServiceInv, DoneInv, Acknowledged, TaskOnly, Looks, Moves, TaskOver, FenceInv,
     ThreadInv, LaunchInv, OpInv, StoppedRun, DoneWith, NoLateStart, Finishing, EndedStatuses,
     Live, Alive, ServiceTypeOK
<1>14. ASSUME NEW k \in Slots, Unacknowledged(k) PROVE DoneInv'
  BY <1>14 DEF ServiceInv, DoneInv, Unacknowledged, TaskOnly, Looks, Moves, FenceInv, ThreadInv,
     LaunchInv, OpInv, StoppedRun, DoneWith, NoLateStart, Finishing, EndedStatuses, Alive
<1>15. ASSUME NEW k \in Slots, Bar(k) PROVE DoneInv'
  BY <1>15 DEF ServiceInv, DoneInv, Bar, TaskOnly, TaskOver, FenceInv, ThreadInv, LaunchInv,
     OpInv, StoppedRun, DoneWith, NoLateStart, Finishing, EndedStatuses, Live, Alive,
     ServiceTypeOK
<1>16. ASSUME NEW k \in Slots, Attach(k) PROVE DoneInv'
  BY <1>16 DEF ServiceInv, DoneInv, Attach, TaskOnly, Looks, Moves, TaskOver, FenceInv, ThreadInv,
     LaunchInv, OpInv, StoppedRun, DoneWith, NoLateStart, Finishing, EndedStatuses, Live, Alive,
     ServiceTypeOK
<1>17. ASSUME NEW k \in Slots, Journal(k) PROVE DoneInv'
  BY <1>17 DEF ServiceInv, DoneInv, Journal, TaskOnly, Moves, FenceInv, ThreadInv, LaunchInv,
     OpInv, StoppedRun, DoneWith, NoLateStart, Finishing, EndedStatuses, Alive
<1>18. ASSUME NEW k \in Slots, Spawn(k) PROVE DoneInv'
  BY <1>18 DEF ServiceInv, DoneInv, Spawn, TaskOnly, Moves, TaskOver, FenceInv, ThreadInv,
     LaunchInv, OpInv, StoppedRun, DoneWith, NoLateStart, Finishing, EndedStatuses, Live, Alive,
     Slots, Launching, ServiceTypeOK, Requests
<1>19. ASSUME NEW k \in Slots, Mark(k) PROVE DoneInv'
  BY <1>19 DEF ServiceInv, DoneInv, Mark, TaskOnly, Moves, FenceInv, ThreadInv, LaunchInv, OpInv,
     StoppedRun, DoneWith, NoLateStart, Finishing, EndedStatuses, Alive
<1>20. ASSUME NEW k \in Slots, Wait(k) PROVE DoneInv'
  BY <1>20 DEF ServiceInv, DoneInv, Wait, TaskOnly, TaskOver, Killed, FenceInv, ThreadInv,
     LaunchInv, OpInv, StoppedRun, DoneWith, NoLateStart, Finishing, EndedStatuses, Live, Alive,
     ServiceTypeOK
<1>21. ASSUME NEW k \in Slots, LeaveNumber(k) PROVE DoneInv'
  BY <1>21 DEF ServiceInv, DoneInv, LeaveNumber, WorkerOnly, serviceMemory, serviceHistory,
     FenceInv, ThreadInv, LaunchInv, OpInv, StoppedRun, DoneWith, NoLateStart, Finishing,
     EndedStatuses, Alive
<1>22. ASSUME NEW k \in Slots, AskLeave(k) PROVE DoneInv'
  <2>1. UNCHANGED <<record, frozen, fence, barred, thread, task>>
    BY <1>22 DEF AskLeave, WorkerOnly, serviceMemory
  <2>2. \A m \in Slots : worker'[m] = worker[m] \/ worker'[m] \in {"working", "gone"}
    BY <1>22 DEF AskLeave, ServiceInv, ServiceTypeOK
  <2> QED
    BY <2>1, <2>2 DEF ServiceInv, DoneInv, DoneWith, NoLateStart, Alive
<1>23. ASSUME NEW k \in Slots, Finish(k) PROVE DoneInv'
  BY <1>23 DEF ServiceInv, DoneInv, Finish, WorkerOnly, serviceMemory, serviceHistory, FenceInv,
     ThreadInv, LaunchInv, OpInv, StoppedRun, DoneWith, NoLateStart, Finishing, EndedStatuses,
     Alive
<1>24. ASSUME NEW k \in Slots, Die(k) PROVE DoneInv'
  BY <1>24 DEF ServiceInv, DoneInv, Die, WorkerOnly, serviceMemory, serviceHistory, FenceInv,
     ThreadInv, LaunchInv, OpInv, StoppedRun, DoneWith, NoLateStart, Finishing, EndedStatuses,
     Alive
<1>25. CASE SaveRun
  BY <1>25 DEF ServiceInv, DoneInv, SaveRun, serviceFiles, serviceHistory, FenceInv, ThreadInv,
     LaunchInv, OpInv, StoppedRun, DoneWith, NoLateStart, Finishing, EndedStatuses, Live, Alive,
     Slots, SlotsOf, ServiceTypeOK
<1>26. CASE Kill
  <2>1. KillEffect
    BY <1>26, KillStops DEF ServiceInv
  <2> QED
    BY <1>26, <2>1 DEF ServiceInv, DoneInv, KillEffect, Kill, serviceFiles, FenceInv, ThreadInv,
       LaunchInv, OpInv, StoppedRun, DoneWith, NoLateStart, Finishing, EndedStatuses, Alive
<1>27. CASE Interrupt
  BY <1>27 DEF ServiceInv, DoneInv, Interrupt, OpOnly, FenceInv, ThreadInv, LaunchInv, OpInv,
     StoppedRun, DoneWith, NoLateStart, Alive
<1>28. CASE RestartService
  BY <1>28 DEF ServiceInv, DoneInv, RestartService, serviceFiles, FenceInv, ThreadInv, LaunchInv,
     OpInv, StoppedRun, DoneWith, NoLateStart, Finishing, EndedStatuses, Live, Alive, Slots
<1> QED
  BY <1>2, <1>3, <1>4, <1>5, <1>6, <1>7, <1>8, <1>9, <1>10, <1>11, <1>12, <1>13, <1>14, <1>15,
     <1>16, <1>17, <1>18, <1>19, <1>20, <1>21, <1>22, <1>23, <1>24, <1>25, <1>26, <1>27, <1>28
     DEF NextService, ServiceWork, Deletion, ThreadStep, TaskStep, WorkerStep, Slots

-----------------------------------------------------------------------------
\* The request at work, and what deletions stopped.
LEMMA OpStep ==
  ASSUME ServiceInv, NextService PROVE OpInv'
<1>1. ASSUME UNCHANGED <<op, record, fence, worker, stopped>> PROVE OpInv'
  BY <1>1 DEF ServiceInv, OpInv, StoppedRun, Live
<1>2. ASSUME NEW r \in Runs, Begin(r) \/ Gathered(r) \/ FreezeResults(r) \/ ReadBack(r) PROVE
       OpInv'
  BY <1>1, <1>2 DEF Begin, ThreadOnly, serviceFiles, serviceHistory, Gathered, FreezeResults,
     ReadBack
<1>3. ASSUME NEW k \in Slots, Enter(k) \/ Acknowledged(k) \/ Unacknowledged(k) \/ Bar(k) \/
       Attach(k) \/ Journal(k) \/ Mark(k) PROVE OpInv'
  BY <1>1, <1>3 DEF Enter, TaskOnly, Looks, Moves, TaskOver, Acknowledged, Unacknowledged, Bar,
     Attach, Journal, Mark
<1>4. ASSUME NEW r \in Runs, Execute(r) PROVE OpInv'
  BY <1>4 DEF ServiceInv, OpInv, Execute, ThreadOnly, Turns, serviceFiles, serviceHistory,
     FenceInv, ThreadInv, Live, StoppedRun
<1>5. ASSUME NEW r \in Runs, Conclude(r) PROVE OpInv'
  BY <1>5 DEF ServiceInv, OpInv, Conclude, ThreadOnly, Turns, serviceFiles, serviceHistory,
     FenceInv, LaunchInv, ThreadInv, Live, StoppedRun, Outcome
<1>6. ASSUME NEW r \in Runs, SubmitRun(r) PROVE OpInv'
  BY <1>6 DEF ServiceInv, OpInv, SubmitRun, Request, serviceFiles, serviceMemory, serviceHistory,
     FenceInv, Live, StoppedRun
<1>7. ASSUME NEW r \in Runs, Fence(r) PROVE OpInv'
  BY <1>7 DEF ServiceInv, OpInv, Fence, OpOnly, FenceInv, LaunchInv, ThreadInv, Live, StoppedRun,
     ServiceTypeOK
<1>8. ASSUME NEW r \in Runs, ReadRow(r) PROVE OpInv'
  <2>1. UNCHANGED <<record, fence, worker, stopped>> /\ op.step = "rows" /\ r \in op.todo
    BY <1>8 DEF ReadRow
  <2>2. op \in Requests /\ op.todo \subseteq op.hit
    BY DEF ServiceInv, ServiceTypeOK
  <2>3. /\ op'.hit = op.hit /\ op'.step \in {"rows", "interrupt"}
        /\ op'.step = "interrupt" => op'.run \in op.hit
    <3>1. CASE op' = [op EXCEPT !.step = "interrupt", !.run = r, !.kept = record[r].manifest]
      BY <2>1, <2>2, <3>1 DEF Requests
    <3>2. CASE op' = [op EXCEPT !.todo = @ \ {r}]
      BY <2>1, <2>2, <3>2 DEF Requests
    <3> QED BY <1>8, <3>1, <3>2 DEF ReadRow
  <2> QED
    BY <2>1, <2>3 DEF ServiceInv, OpInv, StoppedRun, SlotsOf
<1>9. ASSUME NEW k \in Slots, Spawn(k) PROVE OpInv'
  BY <1>9 DEF ServiceInv, OpInv, Spawn, TaskOnly, Moves, TaskOver, FenceInv, LaunchInv, ThreadInv,
     Live, StoppedRun, SlotsOf, ServiceTypeOK
<1>10. ASSUME NEW k \in Slots, Wait(k) PROVE OpInv'
  BY <1>10 DEF ServiceInv, OpInv, Wait, TaskOnly, TaskOver, Killed, FenceInv, LaunchInv,
     ThreadInv, Live, Alive, StoppedRun, SlotsOf
<1>11. ASSUME NEW k \in Slots, LeaveNumber(k) PROVE OpInv'
  BY <1>11 DEF ServiceInv, OpInv, LeaveNumber, WorkerOnly, serviceMemory, serviceHistory, Live,
     StoppedRun
<1>12. ASSUME NEW k \in Slots, AskLeave(k) PROVE OpInv'
  BY <1>12 DEF ServiceInv, OpInv, AskLeave, WorkerOnly, serviceMemory, serviceHistory, FenceInv,
     LaunchInv, ThreadInv, Live, StoppedRun, SlotsOf, ServiceTypeOK
<1>13. ASSUME NEW k \in Slots, Finish(k) PROVE OpInv'
  BY <1>13 DEF ServiceInv, OpInv, Finish, WorkerOnly, serviceMemory, serviceHistory, Live,
     StoppedRun
<1>14. ASSUME NEW k \in Slots, Die(k) PROVE OpInv'
  BY <1>14 DEF ServiceInv, OpInv, Die, WorkerOnly, serviceMemory, serviceHistory, FenceInv, Live,
     StoppedRun
<1>15. ASSUME NEW p \in Phones, FindOwned(p) PROVE OpInv'
  BY <1>15 DEF ServiceInv, OpInv, FindOwned, StoppedRun
<1>16. CASE SaveRun
  BY <1>16 DEF ServiceInv, OpInv, SaveRun, serviceFiles, serviceHistory, FenceInv, LaunchInv,
     ThreadInv, Live, StoppedRun, Slots, SlotsOf, NoOp
<1>17. CASE FindLive
  BY <1>17 DEF ServiceInv, OpInv, FindLive, OpOnly, StoppedRun
<1>18. CASE Kill
  <2>1. KillEffect /\ op.step = "kill"
    BY <1>18, KillStops DEF ServiceInv, Kill
  <2>2. op \in Requests
    BY DEF ServiceInv, ServiceTypeOK
  <2>3. \A r \in Runs : StoppedRun(r) => StoppedRun(r)'
    BY <2>1 DEF KillEffect, serviceFiles, StoppedRun, SlotsOf
  <2>4. \A r \in stopped' : StoppedRun(r)'
    BY <2>1, <2>3 DEF KillEffect, ServiceInv, OpInv, ServiceTypeOK
  <2>5. CASE op' = NoOp
    BY <2>4, <2>5 DEF OpInv, NoOp
  <2>6. CASE /\ op' = [op EXCEPT !.step = "cancel", !.todo = @ \ {op.run}]
             /\ \A k \in SlotsOf(op.run) : worker'[k] # "working"
    <3>1. op'.step = "cancel" /\ op'.run = op.run /\ op'.hit = op.hit /\ op'.todo = op.todo \ {op.run}
      BY <2>2, <2>6 DEF Requests
    <3>2. fence'[op.run] /\ \A r \in op.hit \ op.todo : StoppedRun(r)
      BY <2>1 DEF KillEffect, serviceFiles, ServiceInv, OpInv
    <3>3. fence'[op.run] /\ \A k \in SlotsOf(op.run) : worker'[k] # "working"
      BY <2>1, <2>6, <3>2 DEF KillEffect, serviceFiles, StoppedRun, SlotsOf
    <3>4. \A r \in op'.hit \ op'.todo : StoppedRun(r)'
      BY <2>2, <2>3, <3>1, <3>2, <3>3 DEF Requests, StoppedRun, SlotsOf
    <3> QED BY <2>4, <3>1, <3>4 DEF OpInv
  <2> QED BY <2>1, <2>5, <2>6 DEF KillEffect
<1>19. CASE AllFenced
  BY <1>19 DEF ServiceInv, OpInv, AllFenced, OpOnly, StoppedRun
<1>20. CASE Interrupt
  BY <1>20 DEF ServiceInv, OpInv, Interrupt, OpOnly, StoppedRun
<1>21. CASE Answer
  BY <1>21 DEF ServiceInv, OpInv, Answer, OpOnly, FenceInv, LaunchInv, ThreadInv, Live,
     StoppedRun, NoOp
<1>22. CASE RestartService
  BY <1>22 DEF ServiceInv, OpInv, RestartService, serviceFiles, FenceInv, LaunchInv, ThreadInv,
     Live, StoppedRun, NoOp
<1> QED
  BY <1>2, <1>3, <1>4, <1>5, <1>6, <1>7, <1>8, <1>9, <1>10, <1>11, <1>12, <1>13, <1>14, <1>15,
     <1>16, <1>17, <1>18, <1>19, <1>20, <1>21, <1>22 DEF NextService, ServiceWork, Deletion,
     ThreadStep, TaskStep, WorkerStep, Slots

-----------------------------------------------------------------------------
\* The phone: a submission that finds it free finds nobody who may come to it.
LEMMA PhoneStep ==
  ASSUME ServiceInv, NextService PROVE PhoneInv'
<1>1. ASSUME UNCHANGED <<worker, fence, record, barred>> PROVE PhoneInv'
  BY <1>1 DEF ServiceInv, PhoneInv, Threat, Live, Alive
<1>2. ASSUME NEW r \in Runs, Begin(r) \/ Gathered(r) \/ FreezeResults(r) \/ ReadBack(r) \/
       SubmitRun(r) \/ ReadRow(r) PROVE PhoneInv'
  BY <1>1, <1>2 DEF Begin, ThreadOnly, Turns, serviceFiles, serviceHistory, Gathered,
     FreezeResults, ReadBack, SubmitRun, ReadRow, OpOnly
<1>3. ASSUME NEW k \in Slots, Enter(k) \/ Acknowledged(k) \/ Unacknowledged(k) \/ Attach(k) \/
       Journal(k) \/ Mark(k) PROVE PhoneInv'
  BY <1>1, <1>3 DEF Enter, TaskOnly, Looks, Moves, TaskOver, Acknowledged, Unacknowledged, Attach,
     Journal, Mark
<1>4. ASSUME NEW p \in Phones, FindOwned(p) PROVE PhoneInv'
  BY <1>1, <1>4 DEF FindOwned, OpOnly
<1>5. CASE FindLive \/ AllFenced \/ Answer \/ RestartService
  BY <1>1, <1>5 DEF FindLive, OpOnly, AllFenced, Answer, RestartService, serviceFiles
<1>6. ASSUME NEW r \in Runs, Execute(r) PROVE PhoneInv'
  BY <1>6 DEF ServiceInv, PhoneInv, Execute, ThreadOnly, Turns, serviceFiles, serviceHistory,
     FenceInv, ThreadInv, LaunchInv, DoneInv, OpInv, Threat, NoLateStart, DoneWith, EndedStatuses,
     Live, Alive
<1>7. ASSUME NEW r \in Runs, Conclude(r) PROVE PhoneInv'
  BY <1>7 DEF ServiceInv, PhoneInv, Conclude, ThreadOnly, Turns, serviceFiles, serviceHistory,
     FenceInv, ThreadInv, LaunchInv, DoneInv, OpInv, Threat, NoLateStart, DoneWith, EndedStatuses,
     Live, Alive, Outcome
<1>8. ASSUME NEW r \in Runs, Fence(r) PROVE PhoneInv'
  BY <1>8 DEF ServiceInv, PhoneInv, Fence, OpOnly, FenceInv, ThreadInv, LaunchInv, DoneInv, OpInv,
     Threat, NoLateStart, DoneWith, EndedStatuses, Live, Alive
<1>9. ASSUME NEW k \in Slots, Bar(k) PROVE PhoneInv'
  BY <1>9 DEF ServiceInv, PhoneInv, Bar, TaskOnly, TaskOver, Threat, Live, Alive
<1>10. ASSUME NEW k \in Slots, Spawn(k) PROVE PhoneInv'
  BY <1>10 DEF ServiceInv, PhoneInv, Spawn, TaskOnly, Moves, TaskOver, FenceInv, ThreadInv,
     LaunchInv, DoneInv, OpInv, Threat, NoLateStart, DoneWith, EndedStatuses, Live, Alive, Slots,
     ServiceTypeOK
<1>11. ASSUME NEW k \in Slots, Wait(k) PROVE PhoneInv'
  BY <1>11 DEF ServiceInv, PhoneInv, Wait, TaskOnly, TaskOver, Killed, FenceInv, ThreadInv,
     LaunchInv, DoneInv, OpInv, Threat, Live, Alive
<1>12. ASSUME NEW k \in Slots, LeaveNumber(k) PROVE PhoneInv'
  BY <1>12 DEF ServiceInv, PhoneInv, LeaveNumber, WorkerOnly, serviceMemory, serviceHistory,
     FenceInv, ThreadInv, LaunchInv, DoneInv, OpInv, Threat, Live, Alive
<1>13. ASSUME NEW k \in Slots, AskLeave(k) PROVE PhoneInv'
  BY <1>13 DEF ServiceInv, PhoneInv, AskLeave, WorkerOnly, serviceMemory, serviceHistory,
     FenceInv, ThreadInv, LaunchInv, DoneInv, OpInv, Threat, NoLateStart, DoneWith, EndedStatuses,
     Live, Alive, ServiceTypeOK
<1>14. ASSUME NEW k \in Slots, Finish(k) PROVE PhoneInv'
  BY <1>14 DEF ServiceInv, PhoneInv, Finish, WorkerOnly, serviceMemory, serviceHistory, FenceInv,
     ThreadInv, LaunchInv, DoneInv, OpInv, Threat, Live, Alive
<1>15. ASSUME NEW k \in Slots, Die(k) PROVE PhoneInv'
  BY <1>15 DEF ServiceInv, PhoneInv, Die, WorkerOnly, serviceMemory, serviceHistory, FenceInv,
     ThreadInv, LaunchInv, DoneInv, OpInv, Threat, Live, Alive
<1>16. CASE SaveRun
  <2>1. CASE UNCHANGED <<record, thread>>
    BY <1>16, <2>1, SaveRunEffect DEF ServiceInv, PhoneInv, serviceFiles, Threat, Live, Alive
  <2>2. CASE /\ \A k \in Slots : k[2] \in Uses[op.run] => ~Owned(k)
             /\ record' = [record EXCEPT ![op.run] = Fresh]
    <3>1. op.run \in Runs
      BY <1>16 DEF SaveRun, ServiceInv, OpInv
    <3>2. \A k \in Slots : k[1] # op.run => (Threat(k)' <=> Threat(k))
      BY <1>16, <2>2, <3>1, SaveRunEffect DEF ServiceInv, serviceFiles, Threat, Live, Alive
    <3>3. ASSUME NEW k \in Slots, k[1] # op.run, k[2] \in Uses[op.run] PROVE ~Threat(k)
      <4>1. worker[k] # "working"
        BY <2>2, <3>3 DEF Owned, Alive, ServiceInv, LaunchInv
      <4>2. k[1] \in Runs /\ k[2] \in Uses[k[1]] /\ k \in SlotsOf(k[1])
        BY DEF Slots, SlotsOf
      <4>3. ~fence[k[1]] => ~Live(k[1])
        BY <1>16, <3>3, <4>2 DEF SaveRun, ServiceInv, OpInv
      <4>4. CASE record[k[1]].status = "none"
        BY <4>1, <4>2, <4>3, <4>4 DEF ServiceInv, ThreadInv, Threat, Alive
      <4>5. CASE record[k[1]].status \in EndedStatuses
        BY <4>1, <4>3, <4>5 DEF ServiceInv, DoneInv, DoneWith, NoLateStart, Threat
      <4> QED
        BY <4>1, <4>2, <4>3, <4>4, <4>5 DEF ServiceInv, ServiceTypeOK, Live, EndedStatuses, Threat
    <3>4. \A k, m \in Slots : k[2] = m[2] /\ k[1] = m[1] => k = m
      BY DEF Slots
    <3>5. \A k \in Slots : k[2] \in Uses[k[1]]
      BY DEF Slots
    <3> QED
      BY <3>2, <3>3, <3>4, <3>5 DEF ServiceInv, PhoneInv
  <2> QED BY <1>16, <2>1, <2>2, SaveRunEffect
<1>17. CASE Kill
  <2>1. KillEffect
    BY <1>17, KillStops DEF ServiceInv
  <2> QED
    BY <1>17, <2>1 DEF ServiceInv, PhoneInv, KillEffect, Kill, serviceFiles, FenceInv, ThreadInv,
       LaunchInv, DoneInv, OpInv, Threat, Live, Alive
<1>18. CASE Interrupt
  BY <1>18 DEF ServiceInv, PhoneInv, Interrupt, OpOnly, FenceInv, ThreadInv, LaunchInv, DoneInv,
     OpInv, Threat, NoLateStart, DoneWith, EndedStatuses, Live, Alive
<1> QED
  BY <1>2, <1>3, <1>4, <1>5, <1>6, <1>7, <1>8, <1>9, <1>10, <1>11, <1>12, <1>13, <1>14, <1>15,
     <1>16, <1>17, <1>18 DEF NextService, ServiceWork, Deletion, ThreadStep, TaskStep,
     WorkerStep, Slots

-----------------------------------------------------------------------------
LEMMA ServiceUntouched == ServiceInv /\ UNCHANGED serviceVars => ServiceInv'
<1> SUFFICES ASSUME ServiceInv, UNCHANGED serviceVars PROVE ServiceInv'
  OBVIOUS
<1> USE DEF serviceVars, serviceFiles, serviceMemory, serviceHistory
<1>1. ServiceTypeOK' /\ LaunchInv'
  BY DEF ServiceInv, ServiceTypeOK, Requests, LaunchInv
<1>2. ThreadInv' /\ FenceInv' /\ OpInv'
  BY DEF ServiceInv, ThreadInv, FenceInv, OpInv, StoppedRun, Live
<1>3. DoneInv' /\ PhoneInv'
  BY DEF ServiceInv, DoneInv, PhoneInv, NoLateStart, DoneWith, Threat, Live, Alive
<1> QED BY <1>1, <1>2, <1>3 DEF ServiceInv

LEMMA ServiceStep == ServiceInv /\ [NextService]_serviceVars => ServiceInv'
<1>1. ASSUME ServiceInv, NextService PROVE ServiceInv'
  BY <1>1, TypeStep, LaunchStep, ThreadsStep, FenceStep, DoneStep, OpStep, PhoneStep DEF ServiceInv
<1> QED BY <1>1, ServiceUntouched

LEMMA ServiceSafe == ServiceInv => PhoneExclusive /\ StoppedForGood
<1> SUFFICES ASSUME ServiceInv PROVE PhoneExclusive /\ StoppedForGood
  OBVIOUS
<1>1. PhoneExclusive
  BY DEF ServiceInv, LaunchInv, PhoneInv, Threat, PhoneExclusive
<1>2. StoppedForGood
  BY DEF ServiceInv, OpInv, StoppedRun, StoppedForGood, SlotsOf
<1> QED BY <1>1, <1>2

\* The inductive invariant of the collector service (collector_service/core.py, adapters.py).
THEOREM ServiceInvariance == ServiceSpec => []ServiceInv
BY ServiceStarts, ServiceStep, PTL DEF ServiceSpec

\* PhoneExclusive: one process drives a phone, and none is started twice for a run
\* (adapters.py: TemplateExecutor.execute; core.py: Collector.submit).
THEOREM OneProcess == ServiceSpec => []PhoneExclusive
BY ServiceInvariance, ServiceSafe, PTL

\* StoppedForGood: a deletion that was answered has stopped what it found, late
\* processes included (core.py: Collector.delete_phone; adapters.py: TemplateExecutor.cancel).
THEOREM Stopped == ServiceSpec => []StoppedForGood
BY ServiceInvariance, ServiceSafe, PTL
-----------------------------------------------------------------------------
(* What is received. *)

Steps == Errors \cup {"none", "start", "fetch", "move", "acknowledge"}
Pcs == {"idle", "control", "list", "header", "ingest", "final", "close", "show", "recover", "done", "failed"}
Statuses == Settled \cup {"none", "pending", "downloading", "verified", "retry_wait"}
States == [known: BOOLEAN, paused: BOOLEAN, pending: BOOLEAN]

Rows   == [status: Statuses, fails: 0..2, blocked: BOOLEAN, entry: BOOLEAN]
Works  == [step: Steps, verified: BOOLEAN]
Syncs  == [pc: Pcs, upto: Nat, closed: BOOLEAN, failed: BOOLEAN, broken: BOOLEAN]
RunStates == [state: {"open", "closed", "shown"}, training: SUBSET Artifacts]

\* The records and the memory of a sync.
ReceiptTypeOK ==
  /\ published \in Nat /\ cursor \in Nat /\ cursor <= published
  /\ ended \in BOOLEAN /\ phones \in BOOLEAN /\ full \in BOOLEAN /\ faults \in Nat /\ fills \in Nat
  /\ row \in [Artifacts -> Rows] /\ work \in [Artifacts -> Works] /\ temp \subseteq Artifacts
  /\ claim \in [Instances -> Artifacts \cup {None}] /\ dir \in [Instances -> Artifacts \cup {None}]
  /\ run \in RunStates /\ sync \in Syncs /\ sync.upto <= published
  /\ store \in States /\ mem \in States \cup {None}

\* Bytes and claims: a row with an entry holds its instance, and a thread that is past
\* the claim does; what stands in a directory is its holder's; what was checked is good.
ClaimInv ==
  /\ \A a \in Listed :
       /\ row[a].entry => claim[Place(a)] = a
       /\ row[a].status = "received" => row[a].entry
       /\ work[a].step \in {"fetch", "move", "acknowledge"} => row[a].entry
       /\ a \in temp \/ work[a].step = "move" => Item(a).good
       /\ work[a].step = "acknowledge" \/ row[a].status = "received" =>
            Item(a).kind = "outcome" \/ (dir[Place(a)] = a /\ Item(a).good)

\* The list: what a sync has read is registered, and all of it when the list was closed.
ListInv ==
  /\ published <= Len(list)
  /\ ended => published = Len(list)
  /\ sync.closed => ended /\ sync.upto = Len(list)
  /\ \A n \in 1..Len(list) : n <= cursor \/ (sync.pc = "header" /\ n <= sync.upto)
       => row[list[n].id].status # "none"
  /\ sync.pc \in {"ingest", "final", "close", "show"} => cursor >= sync.upto

\* Threads work while the sync waits for them; a run is closed by a sync that has
\* seen the end of the list and nothing pending, and no sync starts after it.
CloseInv ==
  /\ sync.pc # "ingest" => \A a \in Artifacts : work[a].step = "none"
  /\ sync.pc \in {"final", "close"} => sync.closed /\ Pending = {}
  /\ sync.pc = "close" => Reconciled
  /\ sync.pc \in {"control", "list", "header", "ingest", "final", "close"} => run.state = "open"
  /\ sync.pc = "show" => run.state # "open"

ArchiveInv ==
  /\ step \in {"read", "fetch", "extract", "note"} => journal # "verified"
  /\ step = "note" => staging = "whole"
  /\ step \in {"complete", "show", "settle", "clean"} => final = "whole"
  /\ ArchiveKept

PolicyInv ==
  /\ policy \in [state: {"active", "paused", "complete"}, missing: 0..MissingLimit,
                 final: 0..FinalLimit, observed: BOOLEAN]
  /\ sync.pc = "idle" \/ step = "idle"
  /\ ~Idle => policy.final < FinalLimit
  /\ policy.state # "paused" => policy.final < FinalLimit

ReceiptInv ==
  list \in Seq(Entries) /\ ReceiptTypeOK /\ ClaimInv /\ ListInv /\ CloseInv /\ ClosedIsComplete

LeaveSync ==
  /\ sync.pc \in {"done", "failed"} /\ sync' = Resting
  /\ UNCHANGED <<remote, phones, durable, mem, work, disk>>

ReceiptStep ==
  \/ Publish \/ End \/ Fill \/ Free \/ CrashReceipts \/ Start \/ StreamStep \/ LeaveSync

LeaveArchive ==
  /\ step \in {"done", "failed", "missing"} /\ step' = "idle"
  /\ UNCHANGED <<source, archive, journal, staging, final, mishaps>>

ArchiveWork ==
  \/ SourceEnds \/ StartArchive \/ SyncArchive \/ Mishap \/ CrashArchive \/ LeaveArchive

TransferInv == ReceiptInv /\ ArchiveTypeOK /\ ArchiveInv /\ PolicyInv /\ ServiceInv
-----------------------------------------------------------------------------
\* An artifact that is listed has an entry, and the list never changes.
LEMMA Items ==
  ASSUME list \in Seq(Entries), NEW a \in Listed
  PROVE  Item(a) \in Entries /\ a \in Artifacts /\ Place(a) \in Instances
<1>1. PICK n \in 1..Len(list) : list[n].id = a
  BY DEF Listed
<1>2. \E m \in 1..Len(list) : Item(a) = list[m]
  BY <1>1 DEF Item
<1>3. \A m \in 1..Len(list) : list[m] \in Entries
  OBVIOUS
<1> QED BY <1>1, <1>2, <1>3 DEF Place, Entries

LEMMA ListFixed ==
  ASSUME UNCHANGED list
  PROVE  /\ Listed' = Listed /\ Plan' = Plan
         /\ \A a : Item(a)' = Item(a) /\ Place(a)' = Place(a)
  BY DEF Listed, Plan, Item, Place

\* Where an action leaves the sync: at rest, or further on with what it has read.
Rests(p) == sync' \in Syncs /\ sync'.pc = p /\ sync'.upto = 0 /\ ~sync'.closed
Keeps(p) == sync' \in Syncs /\ sync'.pc = p /\ sync'.upto = sync.upto /\ sync'.closed = sync.closed
HasRead  == sync' \in Syncs /\ sync'.pc = "header" /\ sync'.upto = published /\ sync'.closed = ended

LEMMA SyncFields ==
  ASSUME ReceiptTypeOK, NEW p \in Pcs
  PROVE  /\ sync' = [Resting EXCEPT !.pc = p] => Rests(p)
         /\ sync' = [sync EXCEPT !.pc = p] => Keeps(p)
         /\ sync' = [sync EXCEPT !.pc = p, !.failed = TRUE] => Keeps(p)
         /\ sync' = Resting => Rests("idle")
<1>1. sync' = [Resting EXCEPT !.pc = p] => Rests(p)
  <2>1. [Resting EXCEPT !.pc = p] \in Syncs /\ [Resting EXCEPT !.pc = p].pc = p
    BY DEF Resting, Syncs
  <2>2. [Resting EXCEPT !.pc = p].upto = 0 /\ ~[Resting EXCEPT !.pc = p].closed
    BY DEF Resting
  <2> QED BY <2>1, <2>2 DEF Rests
<1>2. sync' = [sync EXCEPT !.pc = p] => Keeps(p)
  BY DEF ReceiptTypeOK, Syncs, Keeps
<1>3. sync' = [sync EXCEPT !.pc = p, !.failed = TRUE] => Keeps(p)
  BY DEF ReceiptTypeOK, Syncs, Keeps
<1>4. sync' = Resting => Rests("idle")
  BY DEF Syncs, Resting, Rests, Pcs
<1> QED BY <1>1, <1>2, <1>3, <1>4

LEMMA CallSpent ==
  ASSUME ReceiptTypeOK, NEW ok \in Calls, Spend(ok) PROVE ok \in BOOLEAN /\ faults' \in Nat
<1>1. ok \in BOOLEAN /\ (~ok => faults > 0)
  BY DEF Calls
<1> QED BY <1>1 DEF ReceiptTypeOK, Spend

LEMMA SyncSteps ==
  ASSUME ReceiptTypeOK
  PROVE  /\ Start => Rests("control")
         /\ Control => Keeps("list") \/ Rests("failed")
         /\ ReadList => HasRead \/ Rests("failed")
         /\ \A w \in SUBSET Pending : Select(w) => Keeps("ingest")
         /\ NoSpace => Rests("failed")
         /\ Recover => Rests("done") \/ Rests("failed")
         /\ Joined => Keeps(IF Complete THEN "final" ELSE "recover") \/ Rests("failed")
         /\ Final => (Reconciled /\ Keeps("close")) \/ Rests("failed")
         /\ CloseRun => Keeps("show")
         /\ Show => Keeps("recover")
         /\ CrashReceipts \/ LeaveSync => Rests("idle")
<1> USE DEF Pcs
<1>1. Start => Rests("control")
  BY SyncFields DEF Start
<1>2. Control => Keeps("list") \/ Rests("failed")
  BY SyncFields DEF Control
<1>3. ASSUME ReadList PROVE HasRead \/ Rests("failed")
  <2>1. [sync EXCEPT !.pc = "header", !.upto = published, !.closed = ended] \in Syncs
    BY DEF ReceiptTypeOK, Syncs
  <2>2. CASE sync' = [sync EXCEPT !.pc = "header", !.upto = published, !.closed = ended]
    BY <2>1, <2>2 DEF ReceiptTypeOK, Syncs, HasRead
  <2> QED BY <1>3, <2>2, SyncFields DEF ReadList
<1>4. \A w \in SUBSET Pending : Select(w) => Keeps("ingest")
  BY SyncFields DEF Select
<1>5. NoSpace => Rests("failed")
  BY SyncFields DEF NoSpace, Abort
<1>6. Recover => Rests("done") \/ Rests("failed")
  BY SyncFields DEF Recover
<1>7. Joined => Keeps(IF Complete THEN "final" ELSE "recover") \/ Rests("failed")
  BY SyncFields DEF Joined
<1>8. Final => (Reconciled /\ Keeps("close")) \/ Rests("failed")
  BY SyncFields DEF Final
<1>9. CloseRun => Keeps("show")
  BY SyncFields DEF CloseRun
<1>10. Show => Keeps("recover")
  BY SyncFields DEF Show
<1>11. CrashReceipts \/ LeaveSync => Rests("idle")
  BY SyncFields DEF CrashReceipts, LeaveSync
<1> QED BY <1>1, <1>2, <1>3, <1>4, <1>5, <1>6, <1>7, <1>8, <1>9, <1>10, <1>11

\* What is written to a row, and to a thread.
LEMMA RowWrites ==
  ASSUME ReceiptTypeOK, NEW a \in Artifacts, NEW s \in Statuses
  PROVE  /\ [row EXCEPT ![a].status = s] \in [Artifacts -> Rows]
         /\ [row EXCEPT ![a].status = s, ![a].entry = TRUE] \in [Artifacts -> Rows]
         /\ [row EXCEPT ![a].status = s, ![a].blocked = FALSE] \in [Artifacts -> Rows]
  BY DEF ReceiptTypeOK, Rows

LEMMA WorkWrites ==
  ASSUME ReceiptTypeOK, NEW a \in Artifacts, NEW s \in Steps
  PROVE  [work EXCEPT ![a].step = s] \in [Artifacts -> Works]
  BY DEF ReceiptTypeOK, Works

LEMMA WaitingRow ==
  ASSUME ReceiptTypeOK, NEW a \in Artifacts
  PROVE  /\ Waiting(a) \in Rows /\ Waiting(a).entry = row[a].entry
         /\ Waiting(a).status \in {"quarantined", "retry_wait"}
<1>1. row[a] \in Rows
  BY DEF ReceiptTypeOK
<1> DEFINE s == IF Quarantined(a) THEN "quarantined" ELSE "retry_wait"
           f == IF row[a].fails < 2 THEN row[a].fails + 1 ELSE 2
           b == ~Quarantined(a) /\ (row[a].blocked \/ work[a].step = "storage")
<1>2. s \in {"quarantined", "retry_wait"} /\ s \in Statuses
  BY DEF Statuses, Settled
<1>3. f \in 0..2
  BY <1>1 DEF Rows
<1>4. b \in BOOLEAN
  BY <1>1 DEF Rows
<1>5. Waiting(a) = [row[a] EXCEPT !.status = s, !.fails = f, !.blocked = b]
  BY <1>1 DEF Waiting, Rows
<1> HIDE DEF s, f, b
<1> QED BY <1>1, <1>2, <1>3, <1>4, <1>5 DEF Rows

LEMMA ListKept == ReceiptStep => UNCHANGED list
  BY DEF ReceiptStep, StreamStep, Ingest, Publish, End, Fill, Free, CrashReceipts, Start, Control,
     ReadList, Select, Claim, NoFiles, Verify, Download, Move, Acknowledge, Report, Others, Joined,
     Final, CloseRun, Show, Recover, NoSpace, LeaveSync, remote

LEMMA SendTypes ==
  ASSUME ReceiptTypeOK, NEW st \in States, NEW saved \in States, Send(st, saved)
  PROVE  store' \in States /\ mem' \in States \cup {None} /\ phones' \in BOOLEAN /\ faults' \in Nat
<1>1. PICK ok \in Calls :
        /\ \E first \in Writes(saved, [st EXCEPT !.pending = TRUE]) :
             store' \in Writes(first, [st EXCEPT !.pending = ~ok])
        /\ mem' = [st EXCEPT !.pending = ~ok]
        /\ phones' \in (IF ok THEN {} ELSE {phones}) \cup {st.paused}
        /\ Spend(ok)
  BY DEF Send
<1>2. ok \in BOOLEAN /\ (~ok => faults > 0)
  BY DEF Calls
<1>3. [st EXCEPT !.pending = TRUE] \in States /\ [st EXCEPT !.pending = ~ok] \in States
  BY <1>2 DEF States
<1>4. store' \in States /\ mem' \in States
  BY <1>1, <1>3 DEF Writes
<1>5. phones' \in BOOLEAN /\ faults' \in Nat
  BY <1>1, <1>2 DEF ReceiptTypeOK, States, Spend
<1> QED BY <1>4, <1>5

LEMMA PauseTypes ==
  ASSUME ReceiptTypeOK, PausePhones
  PROVE  store' \in States /\ mem' \in States \cup {None} /\ phones' \in BOOLEAN /\ faults' \in Nat
<1>1. State \in States
  BY DEF State, ReceiptTypeOK
<1>2. [known |-> TRUE, paused |-> TRUE, pending |-> State.pending] \in States
  BY <1>1 DEF States
<1> QED BY <1>2, SendTypes DEF PausePhones, ReceiptTypeOK


\* What an ingestion leaves alone.
LEMMA IngestEffect ==
  ASSUME list \in Seq(Entries), ReceiptTypeOK, NEW a \in Listed, Ingest(a)
  PROVE  /\ sync.pc = "ingest" /\ Keeps("ingest")
         /\ UNCHANGED <<list, published, ended, cursor, run>>
         /\ row' \in [Artifacts -> Rows] /\ work' \in [Artifacts -> Works]
         /\ \A b \in Artifacts : row[b].status # "none" => row'[b].status # "none"
<1>0. a \in Artifacts
  BY Items
<1>1. \/ UNCHANGED row
      \/ \E s \in Statuses \ {"none"} :
           \/ row' = [row EXCEPT ![a].status = s]
           \/ row' = [row EXCEPT ![a].status = s, ![a].entry = TRUE]
           \/ row' = [row EXCEPT ![a].status = s, ![a].blocked = FALSE]
      \/ row' = [row EXCEPT ![a] = Waiting(a)]
  <2>1. CASE Claim(a)
    BY <2>1 DEF Claim, NoWrite, ledger, Statuses
  <2>2. CASE NoFiles(a) \/ Verify(a) \/ Move(a)
    BY <2>2 DEF NoFiles, Verify, Move, NoWrite, ledger
  <2>3. CASE Download(a)
    BY <2>3 DEF Download, Statuses
  <2>4. CASE Acknowledge(a)
    BY <2>4 DEF Acknowledge, NoWrite, ledger, Statuses, Settled
  <2>5. CASE Report(a)
    BY <1>0, <2>5 DEF Report, ReceiptTypeOK
  <2> QED BY <2>1, <2>2, <2>3, <2>4, <2>5 DEF Ingest
<1>2. /\ row' \in [Artifacts -> Rows]
      /\ \A b \in Artifacts : row[b].status # "none" => row'[b].status # "none"
  <2>1. CASE UNCHANGED row
    BY <2>1 DEF ReceiptTypeOK
  <2>2. CASE row' = [row EXCEPT ![a] = Waiting(a)]
    BY <1>0, <2>2, WaitingRow DEF ReceiptTypeOK
  <2>3. ASSUME NEW s \in Statuses \ {"none"},
               \/ row' = [row EXCEPT ![a].status = s]
               \/ row' = [row EXCEPT ![a].status = s, ![a].entry = TRUE]
               \/ row' = [row EXCEPT ![a].status = s, ![a].blocked = FALSE]
        PROVE  /\ row' \in [Artifacts -> Rows]
               /\ \A b \in Artifacts : row[b].status # "none" => row'[b].status # "none"
    <3>1. row' \in [Artifacts -> Rows]
      <4>1. /\ [row EXCEPT ![a].status = s] \in [Artifacts -> Rows]
            /\ [row EXCEPT ![a].status = s, ![a].entry = TRUE] \in [Artifacts -> Rows]
            /\ [row EXCEPT ![a].status = s, ![a].blocked = FALSE] \in [Artifacts -> Rows]
        BY <1>0, RowWrites
      <4> QED BY <2>3, <4>1
    <3>2. \A b \in Artifacts : row'[b].status = IF b = a THEN s ELSE row[b].status
      BY <1>0, <2>3 DEF ReceiptTypeOK, Rows
    <3> QED BY <2>3, <3>1, <3>2
  <2> QED BY <1>1, <2>1, <2>2, <2>3
<1>4. \E s \in Steps : work' = [work EXCEPT ![a].step = s]
  <2>1. CASE Claim(a) \/ NoFiles(a) \/ Verify(a)
    BY <2>1 DEF Claim, NoFiles, Verify, NoWrite, Goes, Steps, Errors
  <2>2. CASE Download(a) \/ Move(a) \/ Acknowledge(a) \/ Report(a)
    BY <2>2 DEF Download, Move, Acknowledge, Report, NoWrite, Goes, Steps, Errors
  <2> QED BY <2>1, <2>2 DEF Ingest
<1>5. work' \in [Artifacts -> Works]
  BY <1>0, <1>4, WorkWrites
<1>6. sync.pc = "ingest" /\ Keeps("ingest") /\ UNCHANGED <<list, published, ended, cursor, run>>
  <2>1. CASE Report(a)
    <3>1. PICK f, b \in BOOLEAN : sync' = [sync EXCEPT !.failed = f, !.broken = b]
      BY <2>1 DEF Report, ReceiptTypeOK, Syncs, Writes
    <3> QED BY <2>1, <3>1 DEF Report, remote, Keeps, ReceiptTypeOK, Syncs
  <2>2. CASE ~Report(a)
    BY <2>2 DEF Ingest, Claim, NoFiles, Verify, Download, Move, Acknowledge, At, Others, remote,
       Keeps, ReceiptTypeOK, Syncs
  <2> QED BY <2>1, <2>2
<1> QED BY <1>2, <1>5, <1>6
-----------------------------------------------------------------------------
LEMMA ReceiptTypes ==
  ASSUME ReceiptInv, ReceiptStep PROVE ReceiptTypeOK'
<1>0. list' = list
  BY ListKept
<1>1. CASE Publish
  <2>t. ReceiptTypeOK /\ list \in Seq(Entries)
    BY DEF ReceiptInv
  <2>1. sync.upto <= published' /\ cursor <= published' /\ published' \in Nat
    BY <1>1, <2>t DEF ReceiptTypeOK, Publish, Syncs
  <2> QED
    BY <1>0, <1>1, <2>t, <2>1 DEF ReceiptTypeOK, Publish, durable, ledger, disk
<1>2. CASE End
  <2>t. ReceiptTypeOK /\ list \in Seq(Entries)
    BY DEF ReceiptInv
  <2> QED
    BY <1>0, <1>2, <2>t DEF ReceiptTypeOK, End, durable, ledger, disk
<1>3. CASE Fill
  <2>t. ReceiptTypeOK /\ list \in Seq(Entries)
    BY DEF ReceiptInv
  <2> QED
    BY <1>0, <1>3, <2>t DEF ReceiptTypeOK, Fill, remote, durable, ledger
<1>4. CASE Free
  <2>t. ReceiptTypeOK /\ list \in Seq(Entries)
    BY DEF ReceiptInv
  <2> QED
    BY <1>0, <1>4, <2>t DEF ReceiptTypeOK, Free, remote, durable, ledger
<1>5. CASE CrashReceipts
  <2>t. ReceiptTypeOK /\ list \in Seq(Entries)
    BY DEF ReceiptInv
  <2>1. sync' \in Syncs /\ sync'.upto <= published
    BY <1>5, <2>t, SyncSteps DEF ReceiptTypeOK, Syncs, Rests, Keeps
  <2>2. work' \in [Artifacts -> Works]
    BY <1>5, <2>t DEF ReceiptTypeOK, CrashReceipts, Resting, AtRest, Works, Steps, Errors
  <2>3. mem' \in States \cup {None}
    BY <1>5, <2>t DEF ReceiptTypeOK, CrashReceipts, Resting, AtRest
  <2>4. faults' \in Nat
    BY <1>5, <2>t DEF ReceiptTypeOK, CrashReceipts, Resting, AtRest, Spend
  <2> QED
    BY <1>0, <1>5, <2>t, <2>1, <2>2, <2>3, <2>4 DEF ReceiptTypeOK, CrashReceipts, remote, durable,
       ledger
<1>6. CASE Start
  <2>t. ReceiptTypeOK /\ list \in Seq(Entries)
    BY DEF ReceiptInv
  <2>1. sync' \in Syncs /\ sync'.upto <= published
    BY <1>6, <2>t, SyncSteps DEF ReceiptTypeOK, Syncs, Rests, Keeps
  <2> QED
    BY <1>0, <1>6, <2>t, <2>1 DEF ReceiptTypeOK, Start, remote, durable, ledger, disk
<1>7. CASE Control
  <2>t. ReceiptTypeOK /\ list \in Seq(Entries)
    BY DEF ReceiptInv
  <2>1. sync' \in Syncs /\ sync'.upto <= published
    BY <1>7, <2>t, SyncSteps DEF ReceiptTypeOK, Syncs, Rests, Keeps
  <2>2. /\ store' \in States /\ mem' \in States \cup {None}
        /\ phones' \in BOOLEAN /\ faults' \in Nat
    <3>1. State \in States
      BY <2>t DEF State, ReceiptTypeOK
    <3>2. [known |-> TRUE, paused |-> TRUE, pending |-> FALSE] \in States
      BY DEF States
    <3>3. CASE full /\ PausePhones
      BY <2>t, <3>3, PauseTypes
    <3>4. CASE ~(full /\ PausePhones)
      <4>1. PICK ok \in Calls :
              /\ \/ mem' = [known |-> TRUE, paused |-> TRUE, pending |-> FALSE] /\ store' = mem'
                 \/ mem' \in {State, mem} /\ UNCHANGED store
              /\ Spend(ok) /\ UNCHANGED phones
        BY <1>7, <3>4 DEF Control
      <4> QED BY <2>t, <3>1, <3>2, <4>1, CallSpent DEF ReceiptTypeOK
    <3> QED BY <3>3, <3>4
  <2> QED
    BY <1>0, <1>7, <2>t, <2>1, <2>2 DEF ReceiptTypeOK, Control, remote, ledger
<1>8. CASE ReadList
  <2>t. ReceiptTypeOK /\ list \in Seq(Entries)
    BY DEF ReceiptInv
  <2>1. row' \in [Artifacts -> Rows]
    <3>1. NoRow \in Rows
      BY DEF NoRow, Rows, Statuses
    <3>2. [NoRow EXCEPT !.status = "pending"] \in Rows
      BY <3>1 DEF Rows, Statuses
    <3> QED BY <1>8, <2>t, <3>2 DEF ReceiptTypeOK, ReadList
  <2>2. sync' \in Syncs /\ sync'.upto <= published
    BY <1>8, <2>t, SyncSteps DEF ReceiptTypeOK, Syncs, Rests, Keeps, HasRead
  <2>3. faults' \in Nat
    BY <1>8, <2>t DEF ReceiptTypeOK, ReadList, NoRow, Spend
  <2> QED
    BY <1>0, <1>8, <2>t, <2>1, <2>2, <2>3 DEF ReceiptTypeOK, ReadList, remote
<1>9. CASE NoSpace
  <2>t. ReceiptTypeOK /\ list \in Seq(Entries)
    BY DEF ReceiptInv
  <2>1. sync' \in Syncs /\ sync'.upto <= published
    BY <1>9, <2>t, SyncSteps DEF ReceiptTypeOK, Syncs, Rests, Keeps
  <2>2. /\ store' \in States /\ mem' \in States \cup {None}
        /\ phones' \in BOOLEAN /\ faults' \in Nat
    BY <1>9, <2>t, PauseTypes DEF NoSpace, Abort
  <2> QED
    BY <1>0, <1>9, <2>t, <2>1, <2>2 DEF ReceiptTypeOK, NoSpace, remote, ledger, Abort
<1>10. CASE Recover
  <2>t. ReceiptTypeOK /\ list \in Seq(Entries)
    BY DEF ReceiptInv
  <2>1. sync' \in Syncs /\ sync'.upto <= published
    BY <1>10, <2>t, SyncSteps DEF ReceiptTypeOK, Syncs, Rests, Keeps
  <2>2. /\ store' \in States /\ mem' \in States \cup {None}
        /\ phones' \in BOOLEAN /\ faults' \in Nat
    <3>1. State \in States /\ store \in States
      BY <2>t DEF State, ReceiptTypeOK
    <3>2. /\ [State EXCEPT !.paused = FALSE, !.pending = TRUE] \in States
          /\ [State EXCEPT !.paused = TRUE] \in States
      BY <3>1 DEF States
    <3> QED BY <1>10, <2>t, <3>1, <3>2, SendTypes DEF ReceiptTypeOK, Recover
  <2> QED
    BY <1>0, <1>10, <2>t, <2>1, <2>2 DEF ReceiptTypeOK, Recover, remote, ledger
<1>11. CASE Joined
  <2>t. ReceiptTypeOK /\ list \in Seq(Entries)
    BY DEF ReceiptInv
  <2>1. sync' \in Syncs /\ sync'.upto <= published
    BY <1>11, <2>t, SyncSteps DEF ReceiptTypeOK, Syncs, Rests, Keeps
  <2>2. work' \in [Artifacts -> Works]
    BY <1>11, <2>t DEF ReceiptTypeOK, Joined, AtRest, Works, Steps, Errors
  <2>3. /\ store' \in States /\ mem' \in States \cup {None}
        /\ phones' \in BOOLEAN /\ faults' \in Nat
    BY <1>11, <2>t, PauseTypes DEF ReceiptTypeOK, Joined
  <2> QED
    BY <1>0, <1>11, <2>t, <2>1, <2>2, <2>3 DEF ReceiptTypeOK, Joined, remote, ledger
<1>12. CASE Final
  <2>t. ReceiptTypeOK /\ list \in Seq(Entries)
    BY DEF ReceiptInv
  <2>1. sync' \in Syncs /\ sync'.upto <= published
    BY <1>12, <2>t, SyncSteps DEF ReceiptTypeOK, Syncs, Rests, Keeps
  <2>2. faults' \in Nat
    BY <1>12, <2>t, CallSpent DEF Final
  <2> QED
    BY <1>0, <1>12, <2>t, <2>1, <2>2 DEF ReceiptTypeOK, Final, remote, durable, ledger
<1>13. CASE CloseRun
  <2>t. ReceiptTypeOK /\ list \in Seq(Entries)
    BY DEF ReceiptInv
  <2>1. run' \in RunStates
    <3>1. Training \subseteq Artifacts
      BY <2>t, Items DEF Training
    <3> QED BY <1>13, <3>1 DEF CloseRun, RunStates
  <2>2. sync' \in Syncs /\ sync'.upto <= published
    BY <1>13, <2>t, SyncSteps DEF ReceiptTypeOK, Syncs, Rests, Keeps
  <2> QED
    BY <1>0, <1>13, <2>t, <2>1, <2>2 DEF ReceiptTypeOK, CloseRun, remote, ledger, disk, RunStates
<1>14. CASE Show
  <2>t. ReceiptTypeOK /\ list \in Seq(Entries)
    BY DEF ReceiptInv
  <2>1. run' \in RunStates
    BY <1>14, <2>t DEF ReceiptTypeOK, Show, RunStates
  <2>2. sync' \in Syncs /\ sync'.upto <= published
    BY <1>14, <2>t, SyncSteps DEF ReceiptTypeOK, Syncs, Rests, Keeps
  <2> QED
    BY <1>0, <1>14, <2>t, <2>1, <2>2 DEF ReceiptTypeOK, Show, remote, ledger, disk, RunStates
<1>15. CASE LeaveSync
  <2>t. ReceiptTypeOK /\ list \in Seq(Entries)
    BY DEF ReceiptInv
  <2>1. sync' \in Syncs /\ sync'.upto <= published
    BY <1>15, <2>t, SyncSteps DEF ReceiptTypeOK, Syncs, Rests, Keeps
  <2> QED
    BY <1>0, <1>15, <2>t, <2>1 DEF ReceiptTypeOK, LeaveSync, remote, durable, ledger, disk
<1>16. ASSUME NEW w \in SUBSET Pending, Select(w) PROVE ReceiptTypeOK'
  <2>t. ReceiptTypeOK /\ list \in Seq(Entries)
    BY DEF ReceiptInv
  <2>1. work' \in [Artifacts -> Works]
    BY <1>16, <2>t DEF ReceiptTypeOK, Select, Pending, Works, Steps, Errors
  <2>2. sync' \in Syncs /\ sync'.upto <= published
    BY <1>16, <2>t, SyncSteps DEF ReceiptTypeOK, Syncs, Rests, Keeps
  <2>3. cursor' = sync.upto /\ cursor' \in Nat
    BY <1>16, <2>t DEF ReceiptTypeOK, Select, Syncs
  <2> QED
    BY <1>0, <1>16, <2>t, <2>1, <2>2, <2>3 DEF ReceiptTypeOK, Select, remote, ledger, disk
<1>17. ASSUME NEW a \in Listed, Claim(a) PROVE ReceiptTypeOK'
  <2>t. ReceiptTypeOK /\ list \in Seq(Entries)
    BY DEF ReceiptInv
  <2>a. a \in Artifacts /\ Place(a) \in Instances
    BY <2>t, Items
  <2>b. /\ row' \in [Artifacts -> Rows] /\ work' \in [Artifacts -> Works] /\ Keeps("ingest")
        /\ UNCHANGED <<published, ended, cursor, run>>
    BY <1>17, <2>t, IngestEffect DEF Ingest
  <2>1. claim' \in [Instances -> Artifacts \cup {None}]
    BY <1>17, <2>t, <2>a DEF ReceiptTypeOK, Claim, NoWrite, ledger
  <2>2. faults' \in Nat
    BY <1>17, <2>t, <2>a DEF ReceiptTypeOK, Claim, NoWrite, ledger, Spend
  <2> QED
    BY <1>0, <1>17, <2>t, <2>b, <2>1, <2>2 DEF ReceiptTypeOK, Claim, remote, ledger, NoWrite,
       Others, Keeps, Syncs
<1>18. ASSUME NEW a \in Listed, NoFiles(a) PROVE ReceiptTypeOK'
  <2>t. ReceiptTypeOK /\ list \in Seq(Entries)
    BY DEF ReceiptInv
  <2>a. a \in Artifacts /\ Place(a) \in Instances
    BY <2>t, Items
  <2>b. /\ row' \in [Artifacts -> Rows] /\ work' \in [Artifacts -> Works] /\ Keeps("ingest")
        /\ UNCHANGED <<published, ended, cursor, run>>
    BY <1>18, <2>t, IngestEffect DEF Ingest
  <2> QED
    BY <1>0, <1>18, <2>t, <2>b DEF ReceiptTypeOK, NoFiles, remote, ledger, Others, Keeps, Syncs
<1>19. ASSUME NEW a \in Listed, Verify(a) PROVE ReceiptTypeOK'
  <2>t. ReceiptTypeOK /\ list \in Seq(Entries)
    BY DEF ReceiptInv
  <2>a. a \in Artifacts /\ Place(a) \in Instances
    BY <2>t, Items
  <2>b. /\ row' \in [Artifacts -> Rows] /\ work' \in [Artifacts -> Works] /\ Keeps("ingest")
        /\ UNCHANGED <<published, ended, cursor, run>>
    BY <1>19, <2>t, IngestEffect DEF Ingest
  <2> QED
    BY <1>0, <1>19, <2>t, <2>b DEF ReceiptTypeOK, Verify, remote, ledger, Others, Keeps, Syncs
<1>20. ASSUME NEW a \in Listed, Download(a) PROVE ReceiptTypeOK'
  <2>t. ReceiptTypeOK /\ list \in Seq(Entries)
    BY DEF ReceiptInv
  <2>a. a \in Artifacts /\ Place(a) \in Instances
    BY <2>t, Items
  <2>b. /\ row' \in [Artifacts -> Rows] /\ work' \in [Artifacts -> Works] /\ Keeps("ingest")
        /\ UNCHANGED <<published, ended, cursor, run>>
    BY <1>20, <2>t, IngestEffect DEF Ingest
  <2>1. temp' \subseteq Artifacts
    BY <1>20, <2>t, <2>a DEF ReceiptTypeOK, Download
  <2>2. faults' \in Nat
    BY <1>20, <2>t, <2>a DEF ReceiptTypeOK, Download, Spend
  <2> QED
    BY <1>0, <1>20, <2>t, <2>b, <2>1, <2>2 DEF ReceiptTypeOK, Download, remote, Others, Keeps,
       Syncs
<1>21. ASSUME NEW a \in Listed, Move(a) PROVE ReceiptTypeOK'
  <2>t. ReceiptTypeOK /\ list \in Seq(Entries)
    BY DEF ReceiptInv
  <2>a. a \in Artifacts /\ Place(a) \in Instances
    BY <2>t, Items
  <2>b. /\ row' \in [Artifacts -> Rows] /\ work' \in [Artifacts -> Works] /\ Keeps("ingest")
        /\ UNCHANGED <<published, ended, cursor, run>>
    BY <1>21, <2>t, IngestEffect DEF Ingest
  <2>1. dir' \in [Instances -> Artifacts \cup {None}]
    BY <1>21, <2>t, <2>a DEF ReceiptTypeOK, Move, NoWrite, ledger
  <2>2. temp' \subseteq Artifacts
    BY <1>21, <2>t, <2>a DEF ReceiptTypeOK, Move, NoWrite, ledger
  <2> QED
    BY <1>0, <1>21, <2>t, <2>b, <2>1, <2>2 DEF ReceiptTypeOK, Move, remote, ledger, NoWrite,
       Others, Keeps, Syncs
<1>22. ASSUME NEW a \in Listed, Acknowledge(a) PROVE ReceiptTypeOK'
  <2>t. ReceiptTypeOK /\ list \in Seq(Entries)
    BY DEF ReceiptInv
  <2>a. a \in Artifacts /\ Place(a) \in Instances
    BY <2>t, Items
  <2>b. /\ row' \in [Artifacts -> Rows] /\ work' \in [Artifacts -> Works] /\ Keeps("ingest")
        /\ UNCHANGED <<published, ended, cursor, run>>
    BY <1>22, <2>t, IngestEffect DEF Ingest
  <2> QED
    BY <1>0, <1>22, <2>t, <2>b DEF ReceiptTypeOK, Acknowledge, remote, ledger, NoWrite, Others,
       Keeps, Syncs
<1>23. ASSUME NEW a \in Listed, Report(a) PROVE ReceiptTypeOK'
  <2>t. ReceiptTypeOK /\ list \in Seq(Entries)
    BY DEF ReceiptInv
  <2>a. a \in Artifacts /\ Place(a) \in Instances
    BY <2>t, Items
  <2>b. /\ row' \in [Artifacts -> Rows] /\ work' \in [Artifacts -> Works] /\ Keeps("ingest")
        /\ UNCHANGED <<published, ended, cursor, run>>
    BY <1>23, <2>t, IngestEffect DEF Ingest
  <2>1. /\ store' \in States /\ mem' \in States \cup {None}
        /\ phones' \in BOOLEAN /\ faults' \in Nat
    BY <1>23, <2>t, PauseTypes DEF ReceiptTypeOK, Report
  <2> QED
    BY <1>0, <1>23, <2>t, <2>b, <2>1 DEF ReceiptTypeOK, Report, remote, Keeps, Syncs
<1> QED
  BY <1>1, <1>2, <1>3, <1>4, <1>5, <1>6, <1>7, <1>8, <1>9, <1>10, <1>11, <1>12, <1>13, <1>14,
     <1>15, <1>16, <1>17, <1>18, <1>19, <1>20, <1>21, <1>22, <1>23 DEF ReceiptStep, StreamStep,
     Ingest

\* The claims and the bytes.
LEMMA ClaimsStep ==
  ASSUME ReceiptInv, ReceiptStep PROVE ClaimInv'
<1>1. /\ list' = list /\ Listed' = Listed
      /\ \A a : Item(a)' = Item(a) /\ Place(a)' = Place(a)
  BY ListKept, ListFixed DEF ReceiptInv
<1>2. /\ \A a \in Listed : a \in Artifacts /\ Place(a) \in Instances
      /\ \A a \in Listed : Item(a).kind \in {"trajectory", "outcome"}
  BY Items DEF ReceiptInv, Entries
<1>3. /\ row \in [Artifacts -> Rows] /\ work \in [Artifacts -> Works] /\ temp \subseteq Artifacts
      /\ claim \in [Instances -> Artifacts \cup {None}] /\ dir \in [Instances -> Artifacts \cup {None}]
  BY DEF ReceiptInv, ReceiptTypeOK
<1>4. ClaimInv /\ CloseInv
  BY DEF ReceiptInv
<1>5. ASSUME UNCHANGED <<row, claim, dir, temp>>, \A a \in Listed : work'[a].step \in {work[a].step, "none"}
      PROVE  ClaimInv'
  BY <1>1, <1>4, <1>5 DEF ClaimInv
<1>6. CASE Publish \/ End \/ Fill \/ Free \/ Start \/ Control \/ NoSpace \/ Recover
  BY <1>5, <1>6 DEF Publish, End, Fill, Free, Start, Control, NoSpace, Recover, durable, ledger
<1>7. CASE Final \/ CloseRun \/ Show \/ LeaveSync
  BY <1>5, <1>7 DEF Final, CloseRun, Show, LeaveSync, durable, ledger
<1>8. CASE CrashReceipts \/ Joined
  <2>1. UNCHANGED <<row, claim, dir, temp>> /\ work' = AtRest
    BY <1>8 DEF CrashReceipts, Joined, durable, ledger
  <2>2. \A a \in Listed : AtRest[a].step = "none"
    BY <1>2 DEF AtRest
  <2> QED BY <1>5, <2>1, <2>2
<1>9. CASE ReadList
  <2>1. \A a \in Listed : row'[a] = row[a] \/ row'[a] = [NoRow EXCEPT !.status = "pending"]
    BY <1>2, <1>9 DEF ReadList
  <2>2. UNCHANGED <<claim, dir, temp, work>> /\ sync.pc = "list"
    BY <1>9 DEF ReadList
  <2>3. \A a \in Listed : work[a].step = "none"
    BY <1>2, <1>4, <2>2 DEF CloseInv
  <2>4. \A a \in Listed : row'[a] = row[a] \/ (~row'[a].entry /\ row'[a].status = "pending")
    BY <2>1 DEF NoRow
  <2> QED BY <1>1, <1>4, <2>2, <2>3, <2>4 DEF ClaimInv
<1>10. ASSUME NEW w \in SUBSET Pending, Select(w) PROVE ClaimInv'
  <2>1. UNCHANGED <<row, claim, dir, temp>>
    BY <1>10 DEF Select, ledger
  <2>2. \A a \in Listed : work'[a] = work[a] \/ work'[a].step = "start"
    BY <1>2, <1>10 DEF Select
  <2> QED BY <1>1, <1>4, <2>1, <2>2 DEF ClaimInv
<1>11. ASSUME NEW a \in Listed, Claim(a) PROVE ClaimInv'
  <2>1. \A b \in Listed : b # a => row'[b] = row[b] /\ work'[b] = work[b]
    BY <1>2, <1>3, <1>11 DEF Claim, Goes, NoWrite, ledger
  <2>2. \A b \in Listed : claim[Place(b)] = b => claim'[Place(b)] = b
    <3>1. None \notin Artifacts
      BY ReceiptAssumption
    <3>2. UNCHANGED claim \/ (~Taken(a) /\ claim' = [claim EXCEPT ![Place(a)] = a])
      BY <1>11 DEF Claim, NoWrite, ledger
    <3> QED BY <1>2, <1>3, <3>1, <3>2 DEF Taken
  <2>3. UNCHANGED <<dir, temp>> /\ work[a].step = "start"
    BY <1>11 DEF Claim, At, NoWrite, ledger
  <2>4. CASE ~Taken(a) /\ claim' = [claim EXCEPT ![Place(a)] = a] /\ Goes(a, "fetch")
             /\ row' = [row EXCEPT ![a].status = "downloading", ![a].entry = TRUE]
    <3>1. row'[a].status = "downloading" /\ work'[a].step = "fetch" /\ row'[a].entry /\ claim'[Place(a)] = a
      BY <1>2, <1>3, <2>4 DEF Goes, Rows, Works
    <3> QED BY <1>1, <1>4, <2>1, <2>2, <2>3, <3>1 DEF ClaimInv
  <2>5. CASE row' \in {row, [row EXCEPT ![a].status = "downloading"]}
             /\ \E s \in Errors : Goes(a, s)
    <3>1. row'[a].entry = row[a].entry /\ (row'[a] = row[a] \/ row'[a].status = "downloading")
      BY <1>2, <1>3, <2>5 DEF Rows
    <3>2. work'[a].step \in Errors
      BY <1>2, <1>3, <2>5 DEF Goes, Works
    <3> QED BY <1>1, <1>4, <2>1, <2>2, <2>3, <3>1, <3>2 DEF ClaimInv, Errors
  <2> QED BY <1>11, <2>4, <2>5 DEF Claim, NoWrite, ledger, Errors
<1>12. ASSUME NEW a \in Listed, NoFiles(a) \/ Verify(a) PROVE ClaimInv'
  <2>1. UNCHANGED <<row, claim, dir, temp>> /\ work[a].step = "fetch"
    BY <1>12 DEF NoFiles, Verify, At, ledger
  <2>2. \A b \in Listed : b # a => work'[b] = work[b]
    BY <1>2, <1>3, <1>12 DEF NoFiles, Verify, Goes
  <2>3. \/ work'[a].step = "corrupt"
        \/ /\ work'[a].step = "acknowledge"
           /\ Item(a).kind = "outcome" \/ (dir[Place(a)] = a /\ Item(a).good)
    BY <1>2, <1>3, <1>12 DEF NoFiles, Verify, Goes, Works
  <2> QED BY <1>1, <1>4, <2>1, <2>2, <2>3 DEF ClaimInv
<1>13. ASSUME NEW a \in Listed, Download(a) PROVE ClaimInv'
  <2>1. UNCHANGED <<claim, dir>> /\ work[a].step = "fetch" /\ Item(a).kind # "outcome"
        /\ dir[Place(a)] = None
    BY <1>13 DEF Download, At
  <2>2. \A b \in Listed : b # a => work'[b] = work[b] /\ row'[b] = row[b]
    BY <1>2, <1>3, <1>13 DEF Download, Goes
  <2>3. \A b \in Listed : b # a => (b \in temp' <=> b \in temp)
    BY <1>13 DEF Download
  <2>4. CASE /\ Item(a).good \/ (work[a].verified /\ a \in temp)
             /\ row' = [row EXCEPT ![a].status = "verified"] /\ Goes(a, "move")
    <3>1. work'[a].step = "move" /\ row'[a].entry = row[a].entry /\ row'[a].status = "verified"
      BY <1>2, <1>3, <2>4 DEF Goes, Rows, Works
    <3> QED BY <1>1, <1>4, <2>1, <2>2, <2>3, <2>4, <3>1 DEF ClaimInv
  <2>5. CASE /\ temp' = temp \ {a} /\ UNCHANGED row /\ \E s \in Errors : Goes(a, s)
    <3>1. work'[a].step \in Errors
      BY <1>2, <1>3, <2>5 DEF Goes, Works
    <3> QED BY <1>1, <1>4, <2>1, <2>2, <2>3, <2>5, <3>1 DEF ClaimInv, Errors
  <2> QED BY <1>13, <2>4, <2>5 DEF Download, Errors
<1>14. ASSUME NEW a \in Listed, Move(a) PROVE ClaimInv'
  <2>1. UNCHANGED <<row, claim>> /\ work[a].step = "move"
    BY <1>14 DEF Move, At, NoWrite, ledger
  <2>2. \A b \in Listed : b # a => work'[b] = work[b]
    BY <1>2, <1>3, <1>14 DEF Move, Goes, NoWrite
  <2>3. CASE /\ dir[Place(a)] = None /\ dir' = [dir EXCEPT ![Place(a)] = a] /\ temp' = temp \ {a}
             /\ Goes(a, "acknowledge")
    <3>1. work'[a].step = "acknowledge" /\ dir'[Place(a)] = a
      BY <1>2, <1>3, <2>3 DEF Goes, Works
    <3>2. \A b \in Listed : dir[Place(b)] = b => dir'[Place(b)] = b
      <4>1. None \notin Artifacts
        BY ReceiptAssumption
      <4> QED BY <1>2, <1>3, <2>3, <4>1
    <3> QED BY <1>1, <1>4, <2>1, <2>2, <2>3, <3>1, <3>2 DEF ClaimInv
  <2>4. CASE UNCHANGED <<dir, temp>> /\ Goes(a, "storage")
    <3>1. work'[a].step = "storage"
      BY <1>2, <1>3, <2>4 DEF Goes, Works
    <3> QED BY <1>1, <1>4, <2>1, <2>2, <2>4, <3>1 DEF ClaimInv
  <2> QED BY <1>14, <2>3, <2>4 DEF Move, NoWrite, ledger
<1>15. ASSUME NEW a \in Listed, Acknowledge(a) PROVE ClaimInv'
  <2>1. UNCHANGED <<claim, dir, temp>> /\ work[a].step = "acknowledge"
    BY <1>15 DEF Acknowledge, At, NoWrite, ledger
  <2>2. \A b \in Listed : b # a => work'[b] = work[b] /\ row'[b] = row[b]
    BY <1>2, <1>3, <1>15 DEF Acknowledge, Goes, NoWrite, ledger
  <2>3. row'[a].entry = row[a].entry /\ work'[a].step \in {"none", "storage"}
    BY <1>2, <1>3, <1>15 DEF Acknowledge, Goes, NoWrite, ledger, Rows, Works
  <2> QED BY <1>1, <1>4, <2>1, <2>2, <2>3 DEF ClaimInv
<1>16. ASSUME NEW a \in Listed, Report(a) PROVE ClaimInv'
  <2>1. UNCHANGED <<claim, dir, temp>>
    BY <1>16 DEF Report
  <2>2. \A b \in Listed : b # a => work'[b] = work[b] /\ row'[b] = row[b]
    BY <1>2, <1>3, <1>16 DEF Report, Goes
  <2>3. work'[a].step = "none"
    BY <1>2, <1>3, <1>16 DEF Report, Goes, Works
  <2>4. row'[a] = row[a] \/ (row'[a].entry = row[a].entry /\ row'[a].status # "received")
    <3>1. row'[a] \in {row[a], Waiting(a)}
      BY <1>2, <1>3, <1>16 DEF Report
    <3> QED BY <1>2, <3>1, WaitingRow DEF ReceiptInv
  <2> QED BY <1>1, <1>4, <2>1, <2>2, <2>3, <2>4 DEF ClaimInv
<1> QED
  BY <1>6, <1>7, <1>8, <1>9, <1>10, <1>11, <1>12, <1>13, <1>14, <1>15, <1>16
  DEF ReceiptStep, StreamStep, Ingest

\* What was read is registered.
LEMMA ListStep ==
  ASSUME ReceiptInv, ReceiptStep PROVE ListInv'
<1>1. list' = list /\ \A n \in 1..Len(list) : list[n].id \in Artifacts /\ list[n].id \in Listed
  <2>1. list \in Seq(Entries)
    BY DEF ReceiptInv
  <2>2. \A n \in 1..Len(list) : list[n] \in Entries
    BY <2>1
  <2> QED BY <2>2, ListKept DEF Entries, Listed
<1>2. /\ published \in Nat /\ cursor \in Nat /\ cursor <= published /\ Len(list) \in Nat
      /\ sync.upto \in Nat /\ sync.upto <= published
      /\ row \in [Artifacts -> Rows]
  BY DEF ReceiptInv, ReceiptTypeOK, Syncs
<1>3. ReceiptTypeOK /\ ListInv
  BY DEF ReceiptInv
<1>4. CASE Publish \/ End \/ Fill \/ Free
  BY <1>1, <1>2, <1>3, <1>4 DEF ListInv, Publish, End, Fill, Free, remote, durable, ledger
<1>5. ASSUME UNCHANGED <<published, ended, cursor, row>>,
             \/ \E p \in Pcs \ {"header", "ingest", "final", "close", "show"} : Rests(p) \/ Keeps(p)
             \/ sync.pc \in {"ingest", "final", "close", "show"} /\ \E p \in Pcs \ {"header"} : Keeps(p)
      PROVE  ListInv'
  BY <1>1, <1>2, <1>3, <1>5 DEF ListInv, Rests, Keeps
<1>6. CASE CrashReceipts \/ LeaveSync \/ Start \/ NoSpace \/ Recover
  BY <1>3, <1>5, <1>6, SyncSteps DEF CrashReceipts, LeaveSync, Start, NoSpace, Recover, Pcs,
     remote, durable, ledger
<1>7. CASE Control
  BY <1>3, <1>5, <1>7, SyncSteps DEF Control, Pcs, remote, ledger
<1>8. CASE Joined \/ Final \/ CloseRun \/ Show
  BY <1>3, <1>5, <1>8, SyncSteps DEF Joined, Final, CloseRun, Show, Pcs, remote, durable, ledger
<1>9. CASE ReadList
  <2>1. UNCHANGED <<published, ended, cursor>>
    BY <1>9 DEF ReadList, remote
  <2>2. CASE Rests("failed")
    <3>1. \A n \in 1..Len(list) : row[list[n].id].status # "none" => row'[list[n].id].status # "none"
      BY <1>1, <1>9 DEF ReadList
    <3> QED BY <1>1, <1>2, <1>3, <2>1, <2>2, <3>1 DEF ListInv, Rests
  <2>3. CASE HasRead
    <3>1. sync' # [Resting EXCEPT !.pc = "failed"]
      BY <2>3 DEF HasRead, Resting
    <3>2. row' = [a \in Artifacts |->
                    IF \E n \in cursor + 1..published : list[n].id = a /\ row[a].status = "none"
                    THEN [NoRow EXCEPT !.status = "pending"] ELSE row[a]]
      BY <1>9, <3>1 DEF ReadList
    <3>3. [NoRow EXCEPT !.status = "pending"].status = "pending"
      BY DEF NoRow
    <3>4. \A n \in 1..Len(list) : n <= published => row'[list[n].id].status # "none"
      <4>1. ASSUME NEW n \in 1..Len(list), n <= published PROVE row'[list[n].id].status # "none"
        <5>1. CASE n <= cursor
          BY <1>1, <1>3, <3>2, <3>3, <4>1, <5>1 DEF ListInv
        <5>2. CASE ~(n <= cursor)
          <6>1. n \in cursor + 1..published
            BY <1>2, <4>1, <5>2
          <6> QED BY <1>1, <3>2, <3>3, <6>1
        <5> QED BY <5>1, <5>2
      <4> QED BY <4>1
    <3> QED BY <1>1, <1>2, <1>3, <2>1, <2>3, <3>4 DEF ListInv, HasRead
  <2> QED BY <1>3, <1>9, <2>2, <2>3, SyncSteps
<1>10. ASSUME NEW w \in SUBSET Pending, Select(w) PROVE ListInv'
  <2>1. UNCHANGED <<published, ended, row>> /\ cursor' = sync.upto /\ sync.pc = "header"
    BY <1>10 DEF Select, remote, ledger
  <2>2. Keeps("ingest")
    BY <1>3, <1>10, SyncSteps
  <2> QED BY <1>1, <1>2, <1>3, <2>1, <2>2 DEF ListInv, Keeps
<1>11. ASSUME NEW a \in Listed, Ingest(a) PROVE ListInv'
  <2>1. /\ sync.pc = "ingest" /\ Keeps("ingest") /\ UNCHANGED <<published, ended, cursor>>
        /\ \A b \in Artifacts : row[b].status # "none" => row'[b].status # "none"
    BY <1>11, IngestEffect DEF ReceiptInv
  <2> QED BY <1>1, <1>2, <1>3, <2>1 DEF ListInv, Keeps
<1> QED
  BY <1>4, <1>6, <1>7, <1>8, <1>9, <1>10, <1>11 DEF ReceiptStep, StreamStep

\* A run is closed by a sync that has seen the end, and none comes after it.
LEMMA CloseStep ==
  ASSUME ReceiptInv, ReceiptStep PROVE CloseInv'
<1>1. ReceiptTypeOK /\ CloseInv /\ list \in Seq(Entries)
  BY DEF ReceiptInv
<1>2. ASSUME UNCHANGED row
      PROVE  Pending' = Pending /\ (Reconciled' <=> Reconciled)
  <2>1. Listed' = Listed /\ Plan' = Plan /\ list' = list /\ \A a : Place(a)' = Place(a)
    BY ListKept, ListFixed
  <2> QED BY <1>2, <2>1 DEF Pending, Reconciled
<1>3. CASE Publish \/ End \/ Fill \/ Free
  BY <1>1, <1>2, <1>3 DEF CloseInv, Publish, End, Fill, Free, remote, durable, ledger
<1>4. CASE CrashReceipts \/ LeaveSync \/ NoSpace \/ Recover
  <2>1. \E p \in {"idle", "done", "failed"} : Rests(p)
    BY <1>1, <1>4, SyncSteps
  <2>2. \A a \in Artifacts : AtRest[a].step = "none"
    BY DEF AtRest
  <2>3. work' = AtRest \/ (UNCHANGED work /\ sync.pc # "ingest")
    BY <1>4 DEF CrashReceipts, LeaveSync, NoSpace, Recover
  <2> QED BY <1>1, <2>1, <2>2, <2>3 DEF CloseInv, Rests
<1>5. CASE Start \/ Control \/ ReadList
  BY <1>1, <1>5, SyncSteps DEF CloseInv, Start, Control, ReadList, Rests, Keeps, HasRead, durable
<1>6. CASE Joined
  BY <1>1, <1>2, <1>6, SyncSteps DEF CloseInv, Joined, Complete, AtRest, Rests, Keeps, ledger
<1>7. CASE Final
  BY <1>1, <1>2, <1>7, SyncSteps DEF CloseInv, Final, Rests, Keeps, durable, ledger
<1>8. CASE CloseRun \/ Show
  BY <1>1, <1>8, SyncSteps DEF CloseInv, CloseRun, Show, Keeps
<1>9. ASSUME NEW w \in SUBSET Pending, Select(w) PROVE CloseInv'
  BY <1>1, <1>9, SyncSteps DEF CloseInv, Select, Keeps
<1>10. ASSUME NEW a \in Listed, Ingest(a) PROVE CloseInv'
  BY <1>1, <1>10, IngestEffect DEF CloseInv, Keeps
<1> QED
  BY <1>3, <1>4, <1>5, <1>6, <1>7, <1>8, <1>9, <1>10 DEF ReceiptStep, StreamStep

\* Once the run is closed nothing that it was closed on changes.
LEMMA ClosedStep ==
  ASSUME ReceiptInv, ReceiptStep PROVE ClosedIsComplete'
<1>1. /\ list' = list /\ Listed' = Listed /\ Plan' = Plan
      /\ \A a : Item(a)' = Item(a) /\ Place(a)' = Place(a)
  BY ListKept, ListFixed
<1>2. ReceiptTypeOK /\ ClaimInv /\ ListInv /\ CloseInv /\ ClosedIsComplete /\ list \in Seq(Entries)
  BY DEF ReceiptInv
<1>3. ASSUME UNCHANGED <<row, cursor>>, ended => ended', run'.training = run.training,
             run'.state # "open" => run.state # "open"
      PROVE  ClosedIsComplete'
  <2>1. Pending' = Pending /\ Training' = Training
    BY <1>1, <1>3 DEF Pending, Training
  <2>2. CASE run.state = "open"
    BY <1>3, <2>2 DEF ClosedIsComplete
  <2>3. CASE run.state # "open"
    BY <1>1, <1>2, <1>3, <2>1, <2>3 DEF ClosedIsComplete
  <2> QED BY <2>2, <2>3
<1>4. CASE Publish \/ End \/ Fill \/ Free \/ CrashReceipts \/ LeaveSync \/ Start
  BY <1>3, <1>4 DEF Publish, End, Fill, Free, CrashReceipts, LeaveSync, Start, remote, durable,
     ledger
<1>5. CASE Control \/ NoSpace \/ Recover \/ Joined \/ Final
  BY <1>3, <1>5 DEF Control, NoSpace, Recover, Joined, Final, remote, durable, ledger
<1>6. CASE Show
  BY <1>2, <1>3, <1>6 DEF Show, ReceiptTypeOK, RunStates, CloseInv, remote, ledger
<1>7. ASSUME UNCHANGED run, sync.pc \in {"list", "header", "ingest"} PROVE ClosedIsComplete'
  BY <1>2, <1>7 DEF CloseInv, ClosedIsComplete
<1>8. CASE ReadList
  BY <1>7, <1>8 DEF ReadList
<1>9. ASSUME NEW w \in SUBSET Pending, Select(w) PROVE ClosedIsComplete'
  BY <1>7, <1>9 DEF Select
<1>10. ASSUME NEW a \in Listed, Ingest(a) PROVE ClosedIsComplete'
  BY <1>2, <1>7, <1>10, IngestEffect
<1>11. CASE CloseRun
  <2>1. UNCHANGED <<row, cursor, ended>> /\ run' = [state |-> "closed", training |-> Training]
        /\ sync.pc = "close"
    BY <1>11 DEF CloseRun, remote, ledger
  <2>2. Pending = {} /\ Reconciled /\ ended /\ cursor = Len(list)
    BY <1>2, <2>1 DEF CloseInv, ListInv, ReceiptTypeOK, Syncs
  <2>3. \A a \in Listed : row[a].status \in Settled
    <3>1. ASSUME NEW a \in Listed PROVE row[a].status # "none"
      <4>1. PICK n \in 1..Len(list) : list[n].id = a
        BY DEF Listed
      <4> QED BY <1>2, <2>2, <4>1 DEF ListInv
    <3> QED BY <2>2, <3>1 DEF Pending
  <2>4. \/ Plan = {Place(a) : a \in {b \in Listed : row[b].status = "received"}}
        \/ \E a \in Listed : row[a].status = "quarantined"
    <3>1. SUFFICES ASSUME \A a \in Listed : row[a].status # "quarantined"
                   PROVE  Plan = {Place(a) : a \in {b \in Listed : row[b].status = "received"}}
      OBVIOUS
    <3>2. \A a \in Listed : row[a].status = "received"
      BY <2>3, <3>1 DEF Settled
    <3>3. \A a \in Listed : row[a].entry
      BY <1>2, <3>2 DEF ClaimInv
    <3>4. Plan = {Place(a) : a \in {b \in Listed : row[b].entry}}
      BY <2>2, <3>1 DEF Reconciled
    <3> QED BY <3>2, <3>3, <3>4
  <2>5. Pending' = {} /\ run'.training = Training'
    BY <1>1, <2>1, <2>2 DEF Pending, Training
  <2> QED BY <1>1, <2>1, <2>2, <2>4, <2>5 DEF ClosedIsComplete
<1> QED
  BY <1>4, <1>5, <1>6, <1>8, <1>9, <1>10, <1>11 DEF ReceiptStep, StreamStep
-----------------------------------------------------------------------------
LEMMA ReceiptStarts == Init => ReceiptInv
<1> SUFFICES ASSUME Init PROVE ReceiptInv
  OBVIOUS
<1>1. list \in Seq(Entries) /\ faults \in Nat /\ fills \in Nat
  BY ReceiptAssumption DEF Init
<1>2. Resting \in Syncs /\ Resting.upto = 0 /\ Resting.pc = "idle" /\ ~Resting.closed
  BY DEF Resting, Syncs, Pcs
<1>3. AtRest \in [Artifacts -> Works] /\ \A a \in Artifacts : AtRest[a].step = "none"
  BY DEF AtRest, Works, Steps
<1>4. NoRow \in Rows /\ ~NoRow.entry /\ NoRow.status = "none" /\ NoState \in States
  BY DEF NoRow, NoState, Rows, States, Statuses
<1>5. ReceiptTypeOK
  <2>1. row \in [Artifacts -> Rows] /\ work \in [Artifacts -> Works]
    BY <1>3, <1>4 DEF Init
  <2>2. run \in RunStates
    BY DEF Init, RunStates
  <2>3. /\ claim \in [Instances -> Artifacts \cup {None}] /\ dir \in [Instances -> Artifacts \cup {None}]
        /\ temp \subseteq Artifacts /\ store \in States /\ mem \in States \cup {None}
    BY <1>4 DEF Init
  <2>4. sync \in Syncs /\ sync.upto = 0
    BY <1>2 DEF Init
  <2>5. published = 0 /\ cursor = 0
    BY DEF Init
  <2>6. ended \in BOOLEAN /\ phones \in BOOLEAN /\ full \in BOOLEAN
    BY DEF Init
  <2> QED BY <1>1, <2>1, <2>2, <2>3, <2>4, <2>5, <2>6 DEF ReceiptTypeOK
<1>6. \A a \in Listed : a \in Artifacts
  BY <1>1, Items
<1>7. ClaimInv
  BY <1>3, <1>4, <1>6 DEF Init, ClaimInv
<1>8. ListInv /\ CloseInv /\ ClosedIsComplete
  BY <1>1, <1>2, <1>3 DEF Init, ListInv, CloseInv, ClosedIsComplete
<1> QED BY <1>1, <1>5, <1>7, <1>8 DEF ReceiptInv

LEMMA ReceiptsUntouched == ReceiptInv /\ UNCHANGED receiptVars => ReceiptInv'
<1> SUFFICES ASSUME ReceiptInv, UNCHANGED receiptVars PROVE ReceiptInv'
  OBVIOUS
<1> USE DEF receiptVars, remote, durable, ledger, disk
<1>1. /\ list' = list /\ Listed' = Listed /\ Plan' = Plan
      /\ \A a : Item(a)' = Item(a) /\ Place(a)' = Place(a)
  BY ListFixed
<1>2. ReceiptTypeOK' /\ ListInv'
  BY DEF ReceiptInv, ReceiptTypeOK, ListInv
<1>3. ClaimInv'
  BY <1>1 DEF ReceiptInv, ClaimInv
<1>4. Pending' = Pending /\ Training' = Training /\ (Reconciled' <=> Reconciled)
  BY <1>1 DEF Pending, Training, Reconciled
<1>5. CloseInv' /\ ClosedIsComplete'
  BY <1>1, <1>4 DEF ReceiptInv, CloseInv, ClosedIsComplete
<1> QED BY <1>1, <1>2, <1>3, <1>5 DEF ReceiptInv

LEMMA ReceiptsKept == ReceiptInv /\ [ReceiptStep]_receiptVars => ReceiptInv'
<1>1. ASSUME ReceiptInv, ReceiptStep PROVE ReceiptInv'
  BY <1>1, ListKept, ReceiptTypes, ClaimsStep, ListStep, CloseStep, ClosedStep DEF ReceiptInv
<1> QED BY <1>1, ReceiptsUntouched
-----------------------------------------------------------------------------
\* The archive: verified files are in one place or the other, and stay there.
LEMMA ArchiveKeeps ==
  ArchiveTypeOK /\ ArchiveInv /\ [ArchiveWork]_archiveVars => ArchiveTypeOK' /\ ArchiveInv'
<1> SUFFICES ASSUME ArchiveTypeOK, ArchiveInv, [ArchiveWork]_archiveVars
             PROVE  ArchiveTypeOK' /\ ArchiveInv'
  OBVIOUS
<1> USE ArchiveAssumption DEF ArchiveTypeOK, ArchiveInv, ArchiveKept, FileStates, Working, Ends
<1>1. CASE SourceEnds \/ StartArchive \/ LeaveArchive
  BY <1>1 DEF SourceEnds, StartArchive, LeaveArchive
<1>2. CASE Mishap \/ CrashArchive
  BY <1>2 DEF Mishap, CrashArchive, Failing
<1>3. CASE Unfinished \/ ReadRun \/ Fetch
  BY <1>3 DEF Unfinished, ReadRun, Fetch, Failing
<1>4. CASE Extract \/ Note
  BY <1>4 DEF Extract, Note, Failing
<1>5. CASE Install
  BY <1>5 DEF Install, Failing
<1>6. CASE CompleteRun \/ ShowTransfer \/ SettleJournal \/ Clean
  BY <1>6 DEF CompleteRun, ShowTransfer, SettleJournal, Clean
<1>7. CASE UNCHANGED archiveVars
  BY <1>7 DEF archiveVars
<1> QED BY <1>1, <1>2, <1>3, <1>4, <1>5, <1>6, <1>7 DEF ArchiveWork, SyncArchive
-----------------------------------------------------------------------------
\* What a step of the system is to each of its parts.
LEMMA Parts ==
  Next => [ReceiptStep]_receiptVars /\ [ArchiveWork]_archiveVars /\ [NextService]_serviceVars
<1> USE DEF Stream, Archive, Service
<1>1. Poll \/ Forced => [ReceiptStep]_receiptVars /\ [ArchiveWork]_archiveVars /\ UNCHANGED serviceVars
  BY DEF Poll, Forced, ReceiptStep, ArchiveWork
<1>2. Collector \/ Disturb => [ReceiptStep]_receiptVars /\ [ArchiveWork]_archiveVars /\ UNCHANGED serviceVars
  BY DEF Collector, Disturb, ReceiptStep, ArchiveWork
<1>3. Stream(StreamStep) \/ Stream(Free) \/ Stream(StreamDone) \/ Stream(StreamFailed)
        => ReceiptStep /\ UNCHANGED archiveVars /\ UNCHANGED serviceVars
  BY DEF ReceiptStep, StreamDone, StreamFailed, LeaveSync
<1>4. Archive(ArchiveStep) \/ Archive(ArchiveDone) \/ Archive(ArchiveFailed)
        => UNCHANGED receiptVars /\ ArchiveWork /\ UNCHANGED serviceVars
  BY DEF ArchiveStep, ArchiveWork, ArchiveDone, ArchiveFailed, LeaveArchive
<1>5. Service(NextService) => UNCHANGED receiptVars /\ UNCHANGED archiveVars /\ NextService
  OBVIOUS
<1> QED BY <1>1, <1>2, <1>3, <1>4, <1>5 DEF Next

\* The count of failures stays below its limit while anything is synchronised.
LEMMA PolicyKept ==
  ASSUME ReceiptTypeOK, ArchiveTypeOK, PolicyInv, [Next]_vars PROVE PolicyInv'
<1> DEFINE Policies == [state: {"active", "paused", "complete"}, missing: 0..MissingLimit,
                        final: 0..FinalLimit, observed: BOOLEAN]
<1>1. /\ policy \in Policies /\ MissingLimit \in Nat /\ FinalLimit \in Nat /\ 0 < FinalLimit
      /\ 0 \in 0..MissingLimit /\ 0 \in 0..FinalLimit
  BY TransferAssumption DEF PolicyInv
<1>2. ASSUME UNCHANGED policy, Idle => Idle', sync'.pc = "idle" \/ step' = "idle" PROVE PolicyInv'
  BY <1>2 DEF PolicyInv
<1>3. ASSUME policy' \in Policies, policy'.final < FinalLimit, sync'.pc = "idle" \/ step' = "idle"
      PROVE  PolicyInv'
  BY <1>3 DEF PolicyInv
<1>4. Reset \in Policies /\ Reset.final = 0
  <2> DEFINE p == [policy EXCEPT !.state = "active"]
             q == [p EXCEPT !.missing = 0]
  <2>1. p \in Policies
    BY <1>1
  <2>2. \A r \in Policies : [r EXCEPT !.missing = 0] \in Policies
    BY <1>1
  <2>3. Reset = [q EXCEPT !.final = 0]
    BY DEF Reset
  <2>4. q \in Policies
    BY <2>1, <2>2
  <2> HIDE DEF q
  <2> QED BY <1>1, <2>3, <2>4
<1>5. CASE Poll \/ Forced
  <2>1. Idle /\ (sync'.pc = "idle" \/ step' = "idle")
    BY <1>5 DEF Poll, Forced, Idle, Stream, Archive, receiptVars, archiveVars
  <2>2. CASE Poll
    BY <1>1, <1>3, <2>1, <2>2 DEF Poll, Due, PolicyInv
  <2>3. CASE Forced
    BY <1>1, <1>3, <1>4, <2>1, <2>3 DEF Forced
  <2> QED BY <1>5, <2>2, <2>3
<1>6. CASE Collector \/ Disturb \/ (UNCHANGED policy /\ (Stream(StreamStep) \/ Stream(Free)))
  <2>1. UNCHANGED policy
    BY <1>6 DEF Collector, Disturb
  <2>2. CASE Stream(Publish) \/ Stream(End) \/ Stream(Fill) \/ Stream(Free) \/ Archive(SourceEnds)
    <3>1. UNCHANGED <<sync, step>>
      BY <2>2 DEF Stream, Archive, Publish, End, Fill, Free, SourceEnds, receiptVars, archiveVars
    <3> QED BY <1>2, <2>1, <3>1 DEF PolicyInv, Idle
  <2>3. CASE Stream(CrashReceipts)
    <3>1. sync'.pc = "idle" /\ UNCHANGED step
      BY <2>3, SyncSteps DEF Stream, archiveVars, Rests
    <3> QED BY <1>2, <2>1, <3>1 DEF Idle
  <2>4. CASE Stream(StreamStep)
    <3>1. UNCHANGED step /\ sync.pc # "idle"
      BY <2>4 DEF Stream, StreamStep, Ingest, Control, ReadList, Select, Claim, NoFiles, Verify,
         Download, Move, Acknowledge, Report, At, Joined, Final, CloseRun, Show, Recover, NoSpace,
         archiveVars
    <3> QED BY <1>2, <2>1, <3>1 DEF PolicyInv, Idle
  <2>5. CASE Archive(CrashArchive) \/ Archive(Mishap)
    <3>1. UNCHANGED sync /\ (step' = "idle" \/ step # "idle")
      BY <2>5 DEF Archive, CrashArchive, Mishap, Working, receiptVars
    <3> QED BY <1>2, <2>1, <3>1 DEF PolicyInv, Idle
  <2> QED BY <1>6, <2>2, <2>3, <2>4, <2>5 DEF Collector, Disturb
<1>7. CASE Archive(ArchiveStep)
  <2>1. UNCHANGED sync /\ step # "idle" /\ sync.pc = "idle" /\ policy.final < FinalLimit
    BY <1>7 DEF Archive, ArchiveStep, SyncArchive, Unfinished, ReadRun, Fetch, Extract, Note,
       Install,
       CompleteRun, ShowTransfer, SettleJournal, Clean, receiptVars, PolicyInv, Idle
  <2>2. policy' \in Policies /\ policy'.final = policy.final
    <3> DEFINE o == policy.observed \/ source # "running"
    <3>1. policy' = policy \/ policy' = [policy EXCEPT !.observed = o, !.missing = 0]
      BY <1>7 DEF Archive, ArchiveStep, Observes
    <3>2. o \in BOOLEAN
      OBVIOUS
    <3> HIDE DEF o
    <3>3. [policy EXCEPT !.observed = o] \in Policies
      BY <1>1, <3>2
    <3>4. [policy EXCEPT !.observed = o, !.missing = 0] = [[policy EXCEPT !.observed = o] EXCEPT !.missing = 0]
      OBVIOUS
    <3>5. [policy EXCEPT !.observed = o, !.missing = 0] \in Policies
      <4>1. \A r \in Policies : [r EXCEPT !.missing = 0] \in Policies
        BY <1>1
      <4> QED BY <3>3, <3>4, <4>1
    <3>6. [policy EXCEPT !.observed = o, !.missing = 0].final = policy.final
      BY <1>1
    <3> QED BY <1>1, <3>1, <3>5, <3>6
  <2> QED BY <1>3, <2>1, <2>2
<1>8. CASE Stream(StreamDone) \/ Archive(ArchiveDone)
  <2>1. policy' \in Policies /\ policy'.final = 0
    <3>1. ASSUME NEW over, policy' = After(over) PROVE policy' \in Policies /\ policy'.final = 0
      BY <1>4, <3>1 DEF After
    <3> QED BY <1>8, <3>1 DEF Stream, Archive, StreamDone, ArchiveDone
  <2>2. sync'.pc = "idle" \/ step' = "idle"
    BY <1>8 DEF Stream, Archive, StreamDone, ArchiveDone, Resting
  <2> QED BY <1>1, <1>3, <1>4, <2>1, <2>2
<1>9. CASE Stream(StreamFailed) \/ Archive(ArchiveFailed)
  <2>1. PICK missing \in BOOLEAN : policy' \in Failed(missing)
    BY <1>9 DEF Stream, Archive, StreamFailed, ArchiveFailed
  <2>2. ~Idle /\ Idle'
    <3>1. CASE Stream(StreamFailed)
      BY <3>1 DEF Stream, StreamFailed, PolicyInv, Idle, Resting, archiveVars
    <3>2. CASE Archive(ArchiveFailed)
      BY <3>2 DEF Archive, ArchiveFailed, PolicyInv, Idle, receiptVars
    <3> QED BY <1>9, <3>1, <3>2
  <2>3. policy.final < FinalLimit
    BY <2>2 DEF PolicyInv
  <2>4. /\ policy' \in Policies
        /\ policy'.state # "paused" => policy'.final < FinalLimit
    <3> DEFINE m == IF missing THEN policy.missing + 1 ELSE 0
               f == IF policy.observed THEN policy.final + 1 ELSE 0
               n == IF m > MissingLimit THEN MissingLimit ELSE m
    <3>1. f \in 0..FinalLimit /\ n \in 0..MissingLimit
      BY <1>1, <2>3
    <3>2. PICK paused \in BOOLEAN :
            /\ policy' = [policy EXCEPT !.missing = n, !.final = f,
                                        !.state = IF paused THEN "paused" ELSE @]
            /\ f >= FinalLimit => paused
      BY <2>1 DEF Failed
    <3> HIDE DEF f, n, m
    <3>3. policy' \in Policies /\ policy'.final = f /\ (paused => policy'.state = "paused")
      BY <1>1, <3>1, <3>2
    <3> QED BY <1>1, <3>1, <3>2, <3>3
  <2> QED BY <2>2, <2>4 DEF PolicyInv, Idle
<1>10. CASE Service(NextService) \/ UNCHANGED vars
  BY <1>2, <1>10 DEF Service, vars, receiptVars, archiveVars, PolicyInv, Idle
<1> QED BY <1>5, <1>6, <1>7, <1>8, <1>9, <1>10 DEF Next
-----------------------------------------------------------------------------
LEMMA TransferStarts == TransferInit => TransferInv
<1> SUFFICES ASSUME TransferInit PROVE TransferInv
  OBVIOUS
<1>1. ReceiptInv /\ ServiceInv
  BY ReceiptStarts, ServiceStarts DEF TransferInit
<1>2. ArchiveTypeOK /\ ArchiveInv
  BY ArchiveAssumption DEF TransferInit, InitArchive, ArchiveTypeOK, ArchiveInv, ArchiveKept,
     FileStates
<1>3. PolicyInv
  BY TransferAssumption DEF TransferInit, InitArchive, Active, PolicyInv
<1> QED BY <1>1, <1>2, <1>3 DEF TransferInv

LEMMA TransferKept == TransferInv /\ [Next]_vars => TransferInv'
<1> SUFFICES ASSUME TransferInv, [Next]_vars PROVE TransferInv'
  OBVIOUS
<1>1. [ReceiptStep]_receiptVars /\ [ArchiveWork]_archiveVars /\ [NextService]_serviceVars
  BY Parts DEF vars
<1>2. ReceiptInv' /\ ArchiveTypeOK' /\ ArchiveInv' /\ ServiceInv'
  BY <1>1, ReceiptsKept, ArchiveKeeps, ServiceStep DEF TransferInv
<1>3. PolicyInv'
  BY PolicyKept DEF TransferInv, ReceiptInv
<1> QED BY <1>2, <1>3 DEF TransferInv

LEMMA EvidenceHeld == ReceiptInv /\ ArchiveInv => EvidenceKept
  BY DEF ReceiptInv, ArchiveInv, ClaimInv, EvidenceKept

\* The inductive invariant of a run's life, whichever protocol it has, and of the
\* service (collection_artifact_transfer.py, collection_transfer.py, remote_sync.py).
THEOREM TransferInvariance == Spec => []TransferInv
BY TransferStarts, TransferKept, PTL DEF Spec

\* EvidenceKept: what the platform says it has is there, and is one artifact's
\* (ArtifactTransfer._ingest; CollectionTransferManager._finish).
THEOREM Evidence == Spec => []EvidenceKept
<1>1. TransferInv => EvidenceKept
  BY EvidenceHeld DEF TransferInv
<1> QED BY <1>1, TransferInvariance, PTL

\* ClosedIsComplete: a run is closed when all of its list is settled, and never
\* changes after (ArtifactTransfer._sync, _finalize).
THEOREM Completeness == Spec => []ClosedIsComplete
<1>1. TransferInv => ClosedIsComplete
  BY DEF TransferInv, ReceiptInv
<1> QED BY <1>1, TransferInvariance, PTL

\* PhoneExclusive and StoppedForGood of the service, where it is part of the whole.
THEOREM ServiceInside == Spec => [](PhoneExclusive /\ StoppedForGood)
<1>1. TransferInv => PhoneExclusive /\ StoppedForGood
  BY ServiceSafe DEF TransferInv
<1> QED BY <1>1, TransferInvariance, PTL
=============================================================================
