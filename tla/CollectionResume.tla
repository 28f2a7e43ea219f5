--------------------------- MODULE CollectionResume ---------------------------
(* Continuing a collection run (collection_resume.py, collection_resume_snapshots.py,
   collection_result_corrections.py, collection_execution_transfer.py).  A person
   previews and submits a continuation; the request is recorded together with a
   new epoch of the run's head, which blocks every consumer of the run's results,
   and only then sent.  One worker per run sends what is unanswered, polls what was
   accepted, applies the collector's corrections, receives the executions and, when
   the collector's snapshot is stable, publishes it as the run's input and lifts
   the block.  People submit and stop concurrently; calls fail with or without
   effect, and the service may die between any two steps.

   The collector is external: it takes a request once, for the revision that was
   previewed and when nothing runs, and counts what it took in its revision; it
   stops what runs for the current revision only.  Execution 1 is the run itself. *)
EXTENDS Naturals, Sequences, FiniteSetsExt

CONSTANTS None,
          MaxRequests,
          Settings    \* the instances of a run's plan, and bounds: how many requests,
                      \* corrections, stops and faults happen

VARIABLES
  rev, execs, known, corrs,         \* the collector: revision, executions, requests, corrections
  ops, head, intent,                \* records of the continuation
  registered, rows, closed, cursor, stored,   \* records of executions, receipts, corrections, snapshots
  worker, left

collector == <<rev, execs, known, corrs>>
requests  == <<ops, head, intent>>
receipts  == <<registered, rows, closed, cursor, stored>>
vars      == <<collector, requests, receipts, worker, left>>

\* Requests are numbered as they are submitted.
Requests == 1..MaxRequests
Plan     == execs[1].covers
Blocking == {"pending", "uncertain", "accepted", "preparing"}
Dead     == {"rejected", "failed", "cancelled"}
Idle     == [pc |-> "idle", run |-> FALSE, todo |-> {}, index |-> None, read |-> None, stop |-> None]

ResumeInit ==
  /\ left \in Settings /\ worker = Idle
  /\ rev = 0 /\ execs = <<[op |-> None, covers |-> left.plan, state |-> "ended"]>>
  /\ known = [r \in Requests |-> [state |-> "unknown", exec |-> 0]] /\ corrs = <<>>
  /\ ops = [r \in Requests |-> None] /\ head = None /\ intent = None
  /\ registered = {1} /\ rows = {} /\ closed = {} /\ cursor = 0
  /\ stored = {}

Spend(what) == left[what] > 0 /\ left' = [left EXCEPT ![what] = @ - 1]
Fault == Spend("faults")
-----------------------------------------------------------------------------
(* What is stored. *)

Instances  == UNION {s.plan : s \in Settings}
Placings   == [Instances -> Nat]
Executions == [op : Requests \cup {None}, covers : SUBSET Instances, state : {"running", "ended", "stopped"}]
Answers    == [state : {"unknown", "accepted", "started", "failed", "cancelled"}, exec : Nat]
Operations == [status : Blocking \cup Dead \cup {"started", "completed"}, expected : Nat,
               covers : SUBSET Instances, epoch : Nat, exec : Nat]
Intents    == [no : Nat, epoch : Nat, expected : Nat, blind : BOOLEAN, acknowledged : BOOLEAN, rejected : BOOLEAN]
Snapshots  == [rev : Nat, of : Placings, corr : Placings]
Inputs     == [of : Placings, corr : Placings, closed : SUBSET Nat]
Heads      == [revision : Nat, active : BOOLEAN, remote : Nat \cup {None},
               snap : Snapshots \cup {None}, input : Inputs \cup {None}]
Reads      == [revision : Nat, remote : Nat, ops : [Requests -> Operations \cup {None}]]
Workers    == [pc : {"idle", "cancel", "ok", "refused", "corrections", "requests", "receive", "commit"},
               run : BOOLEAN, todo : SUBSET Nat, index : Snapshots \cup {None},
               stop : Intents \cup {None}, read : Reads \cup {None}]

ASSUME ResumeAssumption ==
  MaxRequests \in Nat /\ None \notin Operations \cup Intents \cup Snapshots \cup Heads \cup Reads

-----------------------------------------------------------------------------
(* The collector. *)

\* What it answers of a request it knows.
Answer(r) ==
  LET k == known'[r] IN
  IF k.state # "started" THEN k.state
  ELSE CASE execs'[k.exec].state = "running" -> "started"
         [] execs'[k.exec].state = "ended" -> "completed"
         [] execs'[k.exec].state = "stopped" -> "cancelled"

Quiet == (\A e \in DOMAIN execs : execs[e].state # "running")
         /\ \A r \in Requests : known[r].state # "accepted"

\* Each instance's last execution that is over, and its last correction; 0 is none.
Current ==
  LET of == [i \in Instances |-> Max({0} \cup {e \in DOMAIN execs : i \in execs[e].covers /\ execs[e].state # "running"})] IN
  [rev |-> rev, of |-> of,
   corr |-> [i \in Instances |-> Max({0} \cup {c \in DOMAIN corrs : corrs[c] = <<of[i], i>>})]]

Prepare(r) ==
  /\ known[r].state = "accepted"
  /\ \/ /\ execs' = Append(execs, [op |-> r, covers |-> ops[r].covers, state |-> "running"])
        /\ known' = [known EXCEPT ![r] = [state |-> "started", exec |-> Len(execs) + 1]]
     \/ known' = [known EXCEPT ![r].state = "failed"] /\ UNCHANGED execs
  /\ UNCHANGED <<rev, corrs, requests, receipts, worker, left>>

End(e) ==
  /\ execs[e].state = "running"
  /\ execs' = [execs EXCEPT ![e].state = "ended"]
  /\ UNCHANGED <<rev, known, corrs, requests, receipts, worker, left>>

Correct(e, i) ==
  /\ execs[e].state # "running" /\ i \in execs[e].covers /\ Spend("corrections")
  /\ corrs' = Append(corrs, <<e, i>>)
  /\ UNCHANGED <<rev, execs, known, requests, receipts, worker>>
-----------------------------------------------------------------------------
(* People. *)

NoHead == [revision |-> 0, active |-> FALSE, remote |-> None, snap |-> None, input |-> None]
HeadRow   == IF head = None THEN NoHead ELSE head
Remote(default) == IF head.remote = None THEN default ELSE head.remote

\* A preview is kept, and may have been taken at any revision up to now.
Previews == [expected: 0..rev, covers: SUBSET Plan \ {{}}]

\* The barrier and the request commit together.
Submit(r, p) ==
  /\ ops[r] = None /\ (\A q \in 1..r - 1 : ops[q] # None) /\ Spend("requests")
  /\ \A q \in Requests : ops[q] # None =>
       ~(ops[q].status \in Blocking \cup {"started"} /\ ops[q].expected = p.expected)
  /\ ops' = [ops EXCEPT ![r] = [status |-> "pending", expected |-> p.expected, covers |-> p.covers,
                                epoch |-> HeadRow.revision + 1, exec |-> 0]]
  /\ head' = [HeadRow EXCEPT !.revision = @ + 1, !.active = TRUE, !.remote = p.expected]
  /\ UNCHANGED <<collector, intent, receipts, worker>>

\* A stop of the current epoch; one that was refused is asked again only here, for
\* the revision the collector has now.  Before the index was ever read the head's
\* own revision stands in for the collector's: such a stop is blind.
Cancel ==
  /\ head # None /\ head.active
  /\ intent # None => intent.epoch # head.revision \/ intent.rejected
  /\ Spend("stops")
  /\ intent' = [no |-> IF intent = None THEN 1 ELSE intent.no + 1, epoch |-> head.revision,
                expected |-> IF intent # None /\ intent.rejected THEN rev ELSE Remote(head.revision),
                blind |-> head.remote = None, acknowledged |-> FALSE, rejected |-> FALSE]
  /\ UNCHANGED <<collector, ops, head, receipts, worker>>
-----------------------------------------------------------------------------
(* The worker: stops, corrections, requests. *)

Refresh ==
  /\ worker.pc = "idle"
  /\ LET stops == intent # None /\ ~intent.acknowledged /\ ~intent.rejected IN
     worker' = [Idle EXCEPT !.pc = IF stops THEN "cancel" ELSE "corrections",
                            !.stop = IF stops THEN intent ELSE None, !.run = 1 \in closed]
  /\ UNCHANGED <<collector, requests, receipts, left>>

\* Mutant of Expected: the revision is the one the head has when the stop is sent.
ExpectedNow(stop) == Remote(head.revision)

\* The stop keeps the revision it was asked for.
Expected(stop) == stop.expected

Stops ==
  /\ execs' = [e \in DOMAIN execs |-> IF execs[e].state = "running" THEN [execs[e] EXCEPT !.state = "stopped"] ELSE execs[e]]
  /\ known' = [r \in Requests |-> IF known[r].state = "accepted" THEN [known[r] EXCEPT !.state = "cancelled"] ELSE known[r]]

Marked(answer) ==
  intent' = IF intent.no # worker.stop.no THEN intent
            ELSE [intent EXCEPT !.acknowledged = answer = "ok", !.rejected = answer = "refused"]

\* _send_cancel
SendCancel ==
  /\ worker.pc = "cancel"
  /\ \/ /\ Expected(worker.stop) = rev /\ Stops /\ UNCHANGED left
        /\ worker' = [worker EXCEPT !.pc = "ok"]
     \/ /\ Expected(worker.stop) # rev /\ UNCHANGED <<execs, known, left>>
        /\ worker' = [worker EXCEPT !.pc = "refused"]
     \/ /\ Fault /\ worker' = [worker EXCEPT !.pc = "corrections", !.stop = None]
        /\ (Stops /\ Expected(worker.stop) = rev) \/ UNCHANGED <<execs, known>>
  /\ UNCHANGED <<rev, corrs, requests, receipts>>

NoteCancel ==
  /\ worker.pc \in {"ok", "refused"}
  /\ Marked(worker.pc) /\ worker' = [worker EXCEPT !.pc = "corrections", !.stop = None]
  /\ UNCHANGED <<collector, ops, head, receipts, left>>

\* Mutant of Reopened: a correction does not reopen the run.
ReopenedNever == HeadRow

Reopened == [HeadRow EXCEPT !.revision = @ + 1, !.active = TRUE]

\* ResultCorrections.sync: each correction and its new epoch at once, in the
\* collector's order; one for an execution not yet registered waits.
ApplyCorrection ==
  /\ worker.pc = "corrections" /\ cursor < Len(corrs)
  /\ corrs[cursor + 1][1] \in registered
  /\ cursor' = cursor + 1 /\ head' = Reopened
  /\ UNCHANGED <<collector, ops, intent, registered, rows, closed, stored, worker, left>>

CorrectionsDone ==
  /\ worker.pc = "corrections"
  /\ cursor < Len(corrs) => corrs[cursor + 1][1] \notin registered
  /\ worker' = IF head = None THEN Idle
               ELSE [worker EXCEPT !.pc = "requests",
                     !.todo = {r \in Requests : ops[r] # None /\ ops[r].status \in Blocking \cup {"started"}}]
  /\ UNCHANGED <<collector, requests, receipts, left>>

\* Mutant of Unsent: a request that went out once is only asked after.
UnsentOnce == {"pending"}

\* What has no answer goes out again, under the same identity.
Unsent == {"pending", "uncertain"}

\* The collector takes a request it does not know.
Accepts(r) == ops[r].expected = rev /\ Quiet
Take(r) ==
  IF known[r].state = "unknown" /\ Accepts(r)
  THEN known' = [known EXCEPT ![r].state = "accepted"] /\ rev' = rev + 1
  ELSE UNCHANGED <<known, rev>>

Record(r, status) == ops' = [ops EXCEPT ![r].status = status, ![r].exec = known'[r].exec]

\* A request is only given up when the collector refuses it and does not know it.
Refused(answered) == answered

\* _send_operation
Send(r) ==
  /\ Take(r) /\ UNCHANGED <<execs, corrs>>
  /\ \/ /\ UNCHANGED left
        /\ Record(r, IF known'[r].state = "unknown" THEN "rejected" ELSE Answer(r))
     \/ Fault /\ ops' = [ops EXCEPT ![r].status = IF Refused(FALSE) THEN "rejected" ELSE "uncertain"]

NotSent(r) ==
  /\ Fault /\ UNCHANGED collector
  /\ ops' = [ops EXCEPT ![r].status = IF Refused(FALSE) THEN "rejected" ELSE "uncertain"]

SendOrNot(r) ==
  /\ ops[r] # None /\ ops[r].status \in Unsent
  /\ Send(r) \/ NotSent(r)
  /\ UNCHANGED <<head, intent, receipts>>

\* submit sends at once when the worker is free.
SendNow(r) == worker.pc = "idle" /\ SendOrNot(r) /\ UNCHANGED worker

\* _recover_operations
Recover(r) ==
  /\ worker.pc = "requests" /\ r \in worker.todo
  /\ \/ SendOrNot(r) /\ worker' = [worker EXCEPT !.todo = @ \ {r}]
     \/ /\ ops[r].status \notin Unsent
        /\ UNCHANGED <<collector, head, intent, receipts>>
        /\ \/ /\ Record(r, Answer(r)) /\ UNCHANGED left
              /\ worker' = [worker EXCEPT !.todo = @ \ {r}]
           \/ Fault /\ worker' = Idle /\ UNCHANGED ops

\* The index of executions: they are registered in its order.
ReadIndex ==
  /\ worker.pc = "requests" /\ worker.todo = {}
  /\ \/ /\ rev >= Remote(0)
        /\ head' = [head EXCEPT !.remote = rev]
        /\ registered' = DOMAIN execs
        /\ worker' = [worker EXCEPT !.pc = "receive", !.todo = DOMAIN execs \ {1},
                                    !.index = IF \A e \in DOMAIN execs : execs[e].state # "running" THEN Current ELSE None]
        /\ UNCHANGED left
     \/ /\ (rev < Remote(0) /\ UNCHANGED left) \/ Fault
        /\ worker' = Idle /\ UNCHANGED <<head, registered>>
  /\ UNCHANGED <<collector, ops, intent, rows, closed, cursor, stored>>
-----------------------------------------------------------------------------
(* The worker: receipts and snapshots. *)

All(e) == {<<e, i>> : i \in execs[e].covers}

\* The run's own artifacts, received and closed by CollectionTransferManager.
ReceiveRun ==
  /\ 1 \notin closed
  /\ \/ ~(All(1) \subseteq rows) /\ rows' = rows \cup All(1) /\ UNCHANGED closed
     \/ All(1) \subseteq rows /\ closed' = closed \cup {1} /\ UNCHANGED rows
  /\ UNCHANGED <<collector, requests, registered, cursor, stored, worker, left>>

\* ExecutionTransfer.sync, which may fail before it closes the execution, and the
\* request that a closed execution completes.
Receive(e) ==
  /\ worker.pc = "receive" /\ e \in worker.todo /\ e = Min(worker.todo)
  /\ \/ execs[e].state = "running" /\ UNCHANGED <<rows, closed, left>>
     \/ execs[e].state # "running" /\ rows' = rows \cup All(e) /\ closed' = closed \cup {e} /\ UNCHANGED left
     \/ execs[e].state # "running" /\ Fault /\ rows' \in {rows, rows \cup All(e)} /\ UNCHANGED closed
  /\ ops' = [r \in Requests |->
               IF ops[r] # None /\ ops[r].exec = e /\ e \in closed' THEN [ops[r] EXCEPT !.status = "completed"] ELSE ops[r]]
  /\ worker' = [worker EXCEPT !.todo = @ \ {e}]
  /\ UNCHANGED <<collector, head, intent, registered, cursor, stored>>

\* _commit_snapshot reads the head, the snapshot and the requests.
ReadSnapshot ==
  /\ worker.pc = "receive" /\ worker.todo = {}
  /\ worker' = IF worker.index = None \/ (head.snap = worker.index /\ ~head.active) THEN Idle
               ELSE [worker EXCEPT !.pc = "commit", !.read = [revision |-> head.revision, remote |-> Remote(0), ops |-> ops]]
  /\ UNCHANGED <<collector, requests, receipts, left>>

\* The disposition kept for an instance of an execution is the last applied.
Applied(e, i) == Max({0} \cup {c \in 1..cursor : corrs[c] = <<e, i>>})

\* A snapshot's rows and corrections have all come.
Arrived(s) == \A i \in Plan : <<s.of[i], i>> \in rows /\ (s.corr[i] = 0 \/ Applied(s.of[i], i) = s.corr[i])

Required == Max({0, worker.read.remote} \cup
  {worker.read.ops[r].expected + 1 : r \in {q \in Requests : worker.read.ops[q] # None /\ worker.read.ops[q].status \notin Dead}})

\* Mutant of Unanswered: only what was never answered counts.
UnansweredOnly(saved) == \E r \in Requests : saved[r] # None /\ saved[r].status = "pending"

\* Never settle while an accepted continuation is unacknowledged.
Unanswered(saved) == \E r \in Requests : saved[r] # None /\ saved[r].status \in Blocking

\* What consumers are given, with the closing manifest of each execution it names.
InputOf(s) == [of |-> s.of, corr |-> s.corr,
               closed |-> {e \in {s.of[i] : i \in Plan} : IF e = 1 THEN worker.run ELSE e \in closed}]

\* A snapshot that was published stays as it is.
Keep(s) == stored' = IF \E t \in stored : t.id = s THEN stored ELSE stored \cup {[id |-> s, input |-> InputOf(s)]}

Commit ==
  /\ worker.pc = "commit" /\ worker' = Idle
  /\ LET s == worker.index IN
     IF s.rev >= Required /\ Arrived(s) /\ head.revision = worker.read.revision /\ ~Unanswered(worker.read.ops)
     THEN /\ Keep(s)
          /\ head' = [head EXCEPT !.active = FALSE, !.snap = s, !.input = InputOf(s)]
     ELSE UNCHANGED <<stored, head>>
  /\ UNCHANGED <<collector, ops, intent, registered, rows, closed, cursor, left>>

Crash ==
  /\ worker # Idle /\ Fault /\ worker' = Idle
  /\ UNCHANGED <<collector, requests, receipts>>
-----------------------------------------------------------------------------
People ==
  \/ \E r \in Requests, p \in Previews : Submit(r, p)
  \/ Cancel

Collector ==
  \/ \E r \in Requests : Prepare(r)
  \/ \E e \in DOMAIN execs : End(e)

Work ==
  \/ Refresh \/ SendCancel \/ NoteCancel \/ ApplyCorrection \/ CorrectionsDone
  \/ (\E r \in Requests : Recover(r)) \/ ReadIndex
  \/ (\E e \in DOMAIN execs : Receive(e)) \/ ReadSnapshot \/ Commit

Next ==
  \/ People \/ Collector \/ Work \/ ReceiveRun \/ Crash
  \/ \E e \in DOMAIN execs, i \in Plan : Correct(e, i)
  \/ \E r \in Requests : SendNow(r)

Spec == ResumeInit /\ [][Next]_vars

\* The poller comes back to every run, the collector goes on.
FairSpec == Spec /\ WF_vars(Work) /\ WF_vars(Collector) /\ WF_vars(ReceiveRun)
-----------------------------------------------------------------------------
TypeOK ==
  /\ rev \in Nat /\ execs \in Seq(Executions) /\ execs # <<>>
  /\ known \in [Requests -> Answers]
  /\ corrs \in Seq(Nat \X Instances) /\ cursor \in 0..Len(corrs)
  /\ ops \in [Requests -> Operations \cup {None}]
  /\ head \in Heads \cup {None} /\ intent \in Intents \cup {None}
  /\ worker \in Workers

\* The run's results are handed out only when they are final: no request is open,
\* every continuation that took place and every correction the platform knows is
\* in the snapshot, and everything the snapshot names has been received.
SettledIsFinal ==
  head # None /\ ~head.active /\ head.snap # None =>
    /\ \A r \in Requests : ops[r] # None /\ ops[r].status \notin Dead => head.snap.rev > ops[r].expected
    /\ ~Unanswered(ops)
    /\ \A i \in Plan :
         /\ <<head.snap.of[i], i>> \in rows
         /\ Applied(head.snap.of[i], i) = head.snap.corr[i]

Stopped(r) == known[r].state = "cancelled" \/ \E e \in DOMAIN execs : execs[e].op = r /\ execs[e].state = "stopped"

\* A stop ends what was there when it was asked, never a continuation that was
\* submitted after it, however late the stop gets through; a blind one may.
StopScope ==
  [][\A r \in Requests : Stopped(r)' /\ ~Stopped(r) => worker.stop.blind \/ ops[r].epoch <= worker.stop.epoch]_vars

\* Every continuation ends and the block it put on the run is lifted.
BlockLifted == head # None /\ head.active ~> head # None /\ ~head.active
=============================================================================
