-------------------------- MODULE CollectionReceipts --------------------------
(* The reception of a collection run, artifact by artifact
   (collection_artifact_transfer.py, collection_receipts.py) and the pause of
   the phones while the platform's disk is full (collection_receipt_storage.py).
   The collector lists artifacts in sequence; a sync reads the control state, a
   page of the list, registers what is new, and ingests what is pending in
   threads of its own: claim the planned instance, download, check, move into
   place, acknowledge.  When the list is closed and nothing is pending it
   reconciles the final manifest and closes the run.  Syncs of one run never
   overlap (RemoteSyncPolicy.execute); the service may die between any two
   writes, any remote call may fail, and while the disk is full any write may.

   A lock-protected run of writes that a crash may split is split here only where
   the code, restarted, could tell.  One page holds the whole list, an instance
   has one directory, and more threads than the two of the pool may work.  Only
   protocol version 2. *)
EXTENDS Naturals, Sequences, FiniteSets

CONSTANTS Artifacts, Instances, None,
          Settings     \* what a collector publishes, with bounds: how many crashes and
                       \* failed calls, how many times the disk fills up

\* What a collector lists: an artifact, its instance and place in the plan, and
\* whether its archive is what its manifest says.
Entries == [id: Artifacts, instance: Instances, plan: Instances,
            kind: {"trajectory", "outcome"}, good: BOOLEAN]

ASSUME ReceiptAssumption ==
  /\ None \notin Artifacts
  /\ \A s \in Settings : s.list \in Seq(Entries) /\ s.faults \in Nat /\ s.fills \in Nat

VARIABLES
  list,                                  \* what the collector will publish: never changes
  published, ended, phones,              \* the collector: listed so far, closed, phones paused
  row, cursor, claim, dir, temp, run, store,   \* records and directories
  mem, sync, work,                       \* the service's memory
  full, faults, fills

remote  == <<list, published, ended>>
ledger  == <<row, claim, dir, temp>>
durable == <<ledger, cursor, run, store>>
disk    == <<full, faults, fills>>
receiptVars == <<remote, phones, durable, mem, sync, work, disk>>

Listed    == {list[n].id : n \in 1..Len(list)}
Item(a)   == list[CHOOSE n \in 1..Len(list) : list[n].id = a]
Plan      == {list[n].plan : n \in 1..Len(list)}
Place(a)  == Item(a).instance
Settled   == {"received", "quarantined"}
Errors    == {"storage", "network", "identity", "corrupt"}
Pending   == {a \in Listed : row[a].status \notin Settled \cup {"none"}}
NoRow     == [status |-> "none", fails |-> 0, blocked |-> FALSE, entry |-> FALSE]
NoState   == [known |-> FALSE, paused |-> FALSE, pending |-> FALSE]
Resting   == [pc |-> "idle", upto |-> 0, closed |-> FALSE, failed |-> FALSE, broken |-> FALSE]
AtRest    == [a \in Artifacts |-> [step |-> "none", verified |-> FALSE]]
Training  == {a \in Listed : row[a].status = "received" /\ Item(a).kind = "trajectory"}

\* A write that may not get through while the disk is full.
Writes(old, new) == {new} \cup (IF full THEN {old} ELSE {})

\* A remote call: it succeeds, or one fault is spent.
Calls == {TRUE} \cup (IF faults > 0 THEN {FALSE} ELSE {})
Spend(ok) == faults' = IF ok THEN faults ELSE faults - 1

Init ==
  /\ \E s \in Settings : list = s.list /\ faults = s.faults /\ fills = s.fills
  /\ published = 0 /\ ended = FALSE /\ phones = FALSE
  /\ row = [a \in Artifacts |-> NoRow] /\ cursor = 0
  /\ claim = [i \in Instances |-> None] /\ dir = [i \in Instances |-> None]
  /\ temp = {}
  /\ run = [state |-> "open", training |-> {}]
  /\ store = NoState /\ mem = None
  /\ sync = Resting /\ work = AtRest
  /\ full = FALSE
-----------------------------------------------------------------------------
(* The collector and the disk. *)

\* Phones that are paused seal nothing.
Publish ==
  /\ published < Len(list) /\ ~phones
  /\ published' = published + 1
  /\ UNCHANGED <<list, ended, phones, durable, mem, sync, work, disk>>

End ==
  /\ published = Len(list) /\ ~ended
  /\ ended' = TRUE
  /\ UNCHANGED <<list, published, phones, durable, mem, sync, work, disk>>

Fill ==
  /\ ~full /\ fills > 0
  /\ full' = TRUE /\ fills' = fills - 1
  /\ UNCHANGED <<remote, phones, durable, mem, sync, work, faults>>

Free ==
  /\ full /\ full' = FALSE
  /\ UNCHANGED <<remote, phones, durable, mem, sync, work, faults, fills>>

CrashReceipts ==
  /\ faults > 0 /\ Spend(FALSE)
  /\ mem' = None /\ sync' = Resting /\ work' = AtRest
  /\ UNCHANGED <<remote, phones, durable, full, fills>>
-----------------------------------------------------------------------------
(* ReceiptStorage: the pause, kept in memory, in a record and at the collector. *)

\* _state: what the service knows, read from the record after a restart.
State == IF mem = None THEN store ELSE mem

\* Mutant of Send: the request is taken for answered whatever came back.
SendOnce(st, saved) ==
  \E ok \in Calls :
    LET after == [st EXCEPT !.pending = FALSE] IN
    /\ store' \in Writes(saved, after)
    /\ mem' = after
    /\ phones' \in (IF ok THEN {} ELSE {phones}) \cup {st.paused}
    /\ Spend(ok)

\* _send: a request whose answer is lost may have been carried out.
Send(st, saved) ==
  \E ok \in Calls :
    LET sent == [st EXCEPT !.pending = TRUE]
        after == [st EXCEPT !.pending = ~ok] IN
    /\ \E first \in Writes(saved, sent) : store' \in Writes(first, after)
    /\ mem' = after
    /\ phones' \in (IF ok THEN {} ELSE {phones}) \cup {st.paused}
    /\ Spend(ok)

\* on_error
PausePhones ==
  LET st == [known |-> TRUE, paused |-> TRUE, pending |-> State.pending] IN
  IF ~State.paused \/ State.pending
  THEN Send(st, store)
  ELSE mem' = st /\ UNCHANGED <<store, phones, faults>>

\* A sync that fails for want of space pauses the phones, whatever it was doing.
Abort ==
  /\ full /\ PausePhones
  /\ sync' = [Resting EXCEPT !.pc = "failed"]

\* observe: a pause this service does not know of.
Observed == phones /\ ~State.known

\* recover, once a sync got through.
Recover ==
  /\ sync.pc = "recover"
  /\ \/ /\ ~State.paused /\ ~State.pending
        /\ mem' = State /\ sync' = [Resting EXCEPT !.pc = "done"]
        /\ UNCHANGED <<store, phones, faults>>
     \/ /\ State.paused \/ State.pending
        /\ sync.failed \/ \E a \in Pending : row[a].blocked
        /\ IF State.pending THEN Send(State, store) ELSE mem' = State /\ UNCHANGED <<store, phones, faults>>
        /\ sync' = [Resting EXCEPT !.pc = "done"]
     \/ /\ State.paused \/ State.pending
        /\ ~sync.failed /\ \A a \in Pending : ~row[a].blocked
        /\ LET lifted == [State EXCEPT !.paused = FALSE, !.pending = TRUE] IN Send(lifted, lifted)
        /\ sync' = [Resting EXCEPT !.pc = "done"]
     \/ /\ State.paused \/ State.pending
        /\ ~sync.failed /\ \A a \in Pending : ~row[a].blocked
        /\ full /\ Send([State EXCEPT !.paused = TRUE], store)
        /\ sync' = [Resting EXCEPT !.pc = "failed"]
  /\ UNCHANGED <<remote, ledger, cursor, run, work, full, fills>>
-----------------------------------------------------------------------------
(* A sync: control, list, registration. *)

\* A call that finds the run open starts a sync.
Start ==
  /\ sync.pc = "idle" /\ run.state = "open"
  /\ sync' = [Resting EXCEPT !.pc = "control"]
  /\ UNCHANGED <<remote, phones, durable, mem, work, disk>>

\* The control state only informs: a failure to read it is not the sync's.
Control ==
  /\ sync.pc = "control"
  /\ \/ \E ok \in Calls :
          /\ IF ok /\ Observed
             THEN LET st == [known |-> TRUE, paused |-> TRUE, pending |-> FALSE] IN
                  mem' = st /\ store' = st
             ELSE mem' = (IF ok THEN State ELSE mem) /\ UNCHANGED store
          /\ sync' = [sync EXCEPT !.pc = "list"]
          /\ Spend(ok) /\ UNCHANGED phones
     \/ /\ full /\ PausePhones
        /\ sync' \in {[sync EXCEPT !.pc = "list", !.failed = TRUE], [Resting EXCEPT !.pc = "failed"]}
  /\ UNCHANGED <<remote, ledger, cursor, run, work, full, fills>>

\* The page, and ReceiptStore.register: new rows only, all of them at once.
ReadList ==
  /\ sync.pc = "list"
  /\ \/ /\ row' = [a \in Artifacts |->
                    IF \E n \in cursor + 1..published : list[n].id = a /\ row[a].status = "none"
                    THEN [NoRow EXCEPT !.status = "pending"] ELSE row[a]]
        /\ sync' = [sync EXCEPT !.pc = "header", !.upto = published, !.closed = ended]
        /\ UNCHANGED faults
     \/ /\ faults > 0 /\ Spend(FALSE)
        /\ sync' = [Resting EXCEPT !.pc = "failed"] /\ UNCHANGED row
  /\ UNCHANGED <<remote, phones, claim, dir, temp, cursor, run, store, mem, work, full, fills>>

\* The header, in a transaction of its own, and rows(pending): those that wait for
\* another attempt may not be due yet.
Select(waiting) ==
  /\ sync.pc = "header"
  /\ \A a \in waiting : row[a].status = "retry_wait"
  /\ cursor' = sync.upto
  /\ work' = [a \in Artifacts |->
                IF a \in Pending \ waiting THEN [step |-> "start", verified |-> row[a].status = "verified"]
                ELSE work[a]]
  /\ sync' = [sync EXCEPT !.pc = "ingest"]
  /\ UNCHANGED <<remote, phones, ledger, run, store, mem, disk>>

\* Something could not be written, and the sync ends there.
NoSpace ==
  /\ sync.pc \in {"list", "header", "final", "close", "show"}
  /\ Abort
  /\ UNCHANGED <<remote, ledger, cursor, run, work, full, fills>>
-----------------------------------------------------------------------------
(* _ingest, one thread for an artifact. *)

At(a, step) == sync.pc = "ingest" /\ work[a].step = step
Goes(a, step) == work' = [work EXCEPT ![a].step = step]
NoWrite(a) == full /\ Goes(a, "storage") /\ UNCHANGED <<ledger, faults>>
Others == <<remote, phones, cursor, run, store, mem, sync, full, fills>>

\* Mutant of Taken: the first artifact of an instance need not be the only one.
TakenNever(a) == FALSE

\* ReceiptStore.claim: another artifact holds the instance.
Taken(a) == claim[Place(a)] \notin {None, a}

\* The row's status, the manifest, the claim, the entry, in as many writes.
Claim(a) ==
  /\ At(a, "start")
  /\ \/ /\ ~Taken(a)
        /\ claim' = [claim EXCEPT ![Place(a)] = a]
        /\ row' = [row EXCEPT ![a].status = "downloading", ![a].entry = TRUE]
        /\ Goes(a, "fetch") /\ UNCHANGED <<dir, temp, faults>>
     \/ /\ ~Taken(a) /\ full
        /\ claim' = [claim EXCEPT ![Place(a)] = a]
        /\ row' = [row EXCEPT ![a].status = "downloading"]
        /\ Goes(a, "storage") /\ UNCHANGED <<dir, temp, faults>>
     \/ /\ Taken(a)
        /\ row' = [row EXCEPT ![a].status = "downloading"]
        /\ Goes(a, "identity") /\ UNCHANGED <<claim, dir, temp, faults>>
     \/ /\ faults > 0 /\ Spend(FALSE)
        /\ row' = [row EXCEPT ![a].status = "downloading"]
        /\ Goes(a, "network") /\ UNCHANGED <<claim, dir, temp>>
     \/ NoWrite(a)
  /\ UNCHANGED Others

\* A trajectory that was not run has no files.
NoFiles(a) ==
  /\ At(a, "fetch") /\ Item(a).kind = "outcome"
  /\ Goes(a, "acknowledge")
  /\ UNCHANGED <<ledger, faults, Others>>

\* A receipt that was lost: the bytes are there, and are checked.
Verify(a) ==
  /\ At(a, "fetch") /\ Item(a).kind # "outcome" /\ dir[Place(a)] # None
  /\ Goes(a, IF dir[Place(a)] = a /\ Item(a).good THEN "acknowledge" ELSE "corrupt")
  /\ UNCHANGED <<ledger, faults, Others>>

\* The files: those that a sync before this one checked and could not move, or a
\* download.  A full disk stops the download, or the extraction, whose error is
\* one of the archive.
Download(a) ==
  /\ At(a, "fetch") /\ Item(a).kind # "outcome" /\ dir[Place(a)] = None
  /\ \/ /\ Item(a).good \/ (work[a].verified /\ a \in temp)
        /\ temp' = temp \cup {a} /\ row' = [row EXCEPT ![a].status = "verified"]
        /\ Goes(a, "move") /\ UNCHANGED faults
     \/ /\ ~(work[a].verified /\ a \in temp) /\ temp' = temp \ {a} /\ UNCHANGED row
        /\ \/ (~Item(a).good \/ full) /\ Goes(a, "corrupt") /\ UNCHANGED faults
           \/ full /\ Goes(a, "storage") /\ UNCHANGED faults
           \/ faults > 0 /\ Spend(FALSE) /\ Goes(a, "network")
  /\ UNCHANGED <<claim, dir, Others>>

Move(a) ==
  /\ At(a, "move")
  /\ \/ /\ dir[Place(a)] = None
        /\ dir' = [dir EXCEPT ![Place(a)] = a] /\ temp' = temp \ {a}
        /\ Goes(a, "acknowledge") /\ UNCHANGED <<row, claim, faults>>
     \/ NoWrite(a)
  /\ UNCHANGED Others

Acknowledge(a) ==
  /\ At(a, "acknowledge")
  /\ \/ /\ row' = [row EXCEPT ![a].status = "received", ![a].blocked = FALSE]
        /\ Goes(a, "none") /\ UNCHANGED <<claim, dir, temp, faults>>
     \/ NoWrite(a)
  /\ UNCHANGED Others

\* The failures that no retry can mend.
Quarantined(a) ==
  \/ work[a].step = "identity"
  \/ work[a].step = "corrupt" /\ row[a].fails >= 2

Waiting(a) ==
  LET broken == Quarantined(a) IN
  [row[a] EXCEPT !.status = IF broken THEN "quarantined" ELSE "retry_wait",
                 !.fails = IF @ < 2 THEN @ + 1 ELSE 2,
                 !.blocked = ~broken /\ (@ \/ work[a].step = "storage")]

\* The handler of every failure; one that cannot write ends the sync.
Report(a) ==
  /\ sync.pc = "ingest" /\ work[a].step \in Errors
  /\ IF work[a].step = "storage" THEN PausePhones ELSE UNCHANGED <<mem, store, phones, faults>>
  /\ \E saved \in Writes(FALSE, TRUE) :
       /\ row' = [row EXCEPT ![a] = IF saved THEN Waiting(a) ELSE @]
       /\ sync' = [sync EXCEPT !.failed = @ \/ work[a].step = "storage", !.broken = @ \/ ~saved]
  /\ Goes(a, "none")
  /\ UNCHANGED <<remote, claim, dir, temp, cursor, run, full, fills>>

Ingest(a) ==
  \/ Claim(a) \/ NoFiles(a) \/ Verify(a) \/ Download(a)
  \/ Move(a) \/ Acknowledge(a) \/ Report(a)

\* Mutant of Complete: the list need not be closed.
CompleteEarly == Pending = {}

\* Nothing more will come, and nothing is left to receive.
Complete == sync.closed /\ Pending = {}

\* The pool is left when every thread is done.
Joined ==
  /\ sync.pc = "ingest" /\ \A a \in Artifacts : work[a].step = "none"
  /\ work' = AtRest
  /\ IF sync.broken
     THEN PausePhones /\ sync' = [Resting EXCEPT !.pc = "failed"]
     ELSE sync' = [sync EXCEPT !.pc = IF Complete THEN "final" ELSE "recover"] /\ UNCHANGED <<mem, store, phones, faults>>
  /\ UNCHANGED <<remote, ledger, cursor, run, full, fills>>
-----------------------------------------------------------------------------
(* _progress and _finalize. *)

\* The plan is met: no instance twice, none missing unless one is quarantined.
Reconciled ==
  LET entries == {a \in Listed : row[a].entry}
      places  == {Place(a) : a \in entries} IN
  /\ Len(list) = Cardinality(Plan)
  /\ Cardinality(places) = Cardinality(entries) /\ places \subseteq Plan
  /\ (\A a \in Listed : row[a].status # "quarantined") => places = Plan

\* The final manifest, and the header and source manifest it is saved in: repeated
\* by the next sync when the run is not closed after it.
Final ==
  /\ sync.pc = "final"
  /\ \E ok \in Calls :
       /\ sync' = IF ok /\ Reconciled THEN [sync EXCEPT !.pc = "close"]
                  ELSE [Resting EXCEPT !.pc = "failed"]
       /\ Spend(ok)
  /\ UNCHANGED <<remote, phones, durable, mem, work, full, fills>>

\* CollectionRunStore.complete_received
CloseRun ==
  /\ sync.pc = "close"
  /\ run' = [state |-> "closed", training |-> Training]
  /\ sync' = [sync EXCEPT !.pc = "show"]
  /\ UNCHANGED <<remote, phones, ledger, cursor, store, mem, work, disk>>

\* The run's page says that the transfer is over.
Show ==
  /\ sync.pc = "show"
  /\ run' = [run EXCEPT !.state = "shown"]
  /\ sync' = [sync EXCEPT !.pc = "recover"]
  /\ UNCHANGED <<remote, phones, ledger, cursor, store, mem, work, disk>>
=============================================================================
