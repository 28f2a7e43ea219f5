---------------------------- MODULE ArtifactStore ---------------------------
(***************************************************************************)
(* backend/data_store/artifacts.py, the part of it every stage of a batch  *)
(* goes through: publish_many, _recover and the readers that call it.      *)
(*                                                                         *)
(* One batch.  A stage is a directory batches/<batch>/<stage>; a           *)
(* publication prepares new directories under                              *)
(* tmp/artifact_transactions/<batch>/<op>, writes a journal, swaps the     *)
(* directories, commits the registry in one SQLite transaction and removes *)
(* the transaction directory.  The process may die, or a call may raise,   *)
(* between any two of these steps; the next call that takes the batch lock *)
(* recovers what was left.                                                 *)
(*                                                                         *)
(* A directory's content is the manifest it was written for; checksums     *)
(* are the comparison of that manifest with the registered one.            *)
(***************************************************************************)
EXTENDS Naturals, FiniteSets

CONSTANTS Threads,         \* threads and processes that use the batch
          Stages,          \* stage names
          Payloads,        \* what a publication may carry
          Ops,             \* identifiers allocate_id("o") may return
          Absent,          \* no directory, no registered manifest
          Broken,          \* a directory rmtree has removed a part of
          NoThread, NoOp,
          MaxFaults        \* bound on crashes and raised exceptions

Manifest == [rev: Nat, data: Payloads]

ASSUME ConstantsAssumption ==
  /\ Absent \notin Manifest
  /\ Broken \notin Manifest \cup {Absent}
  /\ NoOp \notin Ops
  /\ NoThread \notin Threads
  /\ MaxFaults \in Nat

VARIABLES
  \* the disk
  final,       \* batches/<batch>/<stage>
  dirs,        \* the transaction directories that exist
  journal,     \* commit.json of each: "none", "torn" or "whole"
  changes,     \* the stages a whole journal lists
  hadPrev,     \* those of them listed with had_previous
  prepared,    \* <transaction>/prepared/<stage>
  previous,    \* <transaction>/previous/<stage>
  \* SQLite
  reg,         \* the artifacts record of each stage
  commitOp,    \* artifact_commits[batch].op_id
  published,   \* batch_lifecycle[batch].status = "published"
  used,        \* the identifiers allocated so far
  \* the call that holds the batch lock
  holder,
  pc,
  goal,        \* why it is here: to "enter", to "abort", or "done"
  op,          \* its transaction
  todo,        \* the entries or changes its loop has left
  writes,      \* the manifests it will register
  had,         \* the changes it found a directory for
  tokened,     \* the entries it gave an expected_version for
  \* every thread
  seen,        \* the versions it last read, without the lock
  faults

disk == <<final, dirs, journal, changes, hadPrev, prepared, previous>>
db   == <<reg, commitOp, published, used>>
call == <<holder, pc, goal, op, todo, writes, had, tokened>>
vars == <<disk, db, call, seen, faults>>

Dir == Manifest \cup {Absent, Broken}

Revision(manifest) == IF manifest = Absent THEN 0 ELSE manifest.rev

Successor(manifest, payload) == [rev |-> Revision(manifest) + 1, data |-> payload]

Differs(manifest, payload) == manifest # Absent => manifest.data # payload

Nothing == [s \in Stages |-> Absent]

Changed(w) == {s \in Stages : w[s] # Absent}

Init ==
  /\ final = Nothing /\ dirs = {}
  /\ journal = [o \in Ops |-> "none"]
  /\ changes = [o \in Ops |-> {}] /\ hadPrev = [o \in Ops |-> {}]
  /\ prepared = [o \in Ops |-> Nothing] /\ previous = [o \in Ops |-> Nothing]
  /\ reg = Nothing /\ commitOp = NoOp /\ published = FALSE /\ used = {}
  /\ holder = NoThread /\ pc = "idle" /\ goal = "enter" /\ op = NoOp
  /\ todo = {} /\ writes = Nothing /\ had = {} /\ tokened = {}
  /\ seen = [t \in Threads |-> [s \in Stages |-> 0]]
  /\ faults = 0

-----------------------------------------------------------------------------
(* The batch lock. *)

\* batch_lock: a flock per batch; every use of the files starts with _recover.
Lock(t) ==
  /\ holder = NoThread
  /\ holder' = t /\ pc' = "recover" /\ goal' = "enter"
  /\ UNCHANGED <<disk, db, op, todo, writes, had, tokened, seen, faults>>

\* Leaving the with block, and what the kernel does for a process that died.
Unlock ==
  /\ holder' = NoThread /\ pc' = "idle" /\ goal' = "enter" /\ op' = NoOp
  /\ todo' = {} /\ writes' = Nothing /\ had' = {} /\ tokened' = {}

\* get(): a read of the registry, without the lock.
Observe(t, s) ==
  /\ t # holder
  /\ seen' = [seen EXCEPT ![t][s] = Revision(reg[s])]
  /\ UNCHANGED <<disk, db, call, faults>>

-----------------------------------------------------------------------------
(* _recover *)

ScanDone ==
  /\ pc = "recover" /\ dirs = {}
  /\ IF goal = "abort"
     THEN Unlock                \* publish_many re-raises
     ELSE /\ pc' = "ready"
          /\ UNCHANGED <<holder, goal, op, todo, writes, had, tokened>>
  /\ UNCHANGED <<disk, db, seen, faults>>

\* A transaction without a journal replaced nothing.
ScanUnjournaled(o) ==
  /\ pc = "recover" /\ o \in dirs /\ journal[o] = "none"
  /\ pc' = "remove" /\ op' = o
  /\ UNCHANGED <<disk, db, holder, goal, todo, writes, had, tokened, seen, faults>>

\* json.loads raises on half a journal: the call fails.
ScanTorn(o) ==
  /\ pc = "recover" /\ o \in dirs /\ journal[o] = "torn"
  /\ Unlock
  /\ UNCHANGED <<disk, db, seen, faults>>

\* The registry says whether the transaction was committed.
ScanJournal(o) ==
  /\ pc = "recover" /\ o \in dirs /\ journal[o] = "whole"
  /\ pc' = "undo" /\ op' = o
  /\ todo' = IF commitOp = o THEN {} ELSE changes[o]
  /\ UNCHANGED <<disk, db, holder, goal, writes, had, tokened, seen, faults>>

MustRemove(o, s) == \/ previous[o][s] # Absent
                    \/ s \notin hadPrev[o] /\ prepared[o][s] = Absent

\* rmtree of the new directory, which a fault may leave half done.
UndoRemove(s) ==
  /\ pc = "undo" /\ s \in todo
  /\ MustRemove(op, s) /\ final[s] # Absent
  /\ \E rest \in {Broken, Absent} : final' = [final EXCEPT ![s] = rest]
  /\ UNCHANGED <<dirs, journal, changes, hadPrev, prepared, previous, db, call, seen, faults>>

UndoRename(s) ==
  /\ pc = "undo" /\ s \in todo
  /\ previous[op][s] # Absent /\ final[s] = Absent
  /\ final' = [final EXCEPT ![s] = previous[op][s]]
  /\ previous' = [previous EXCEPT ![op][s] = Absent]
  /\ todo' = todo \ {s}
  /\ UNCHANGED <<dirs, journal, changes, hadPrev, prepared, db,
                 holder, pc, goal, op, writes, had, tokened, seen, faults>>

UndoNothing(s) ==
  /\ pc = "undo" /\ s \in todo
  /\ previous[op][s] = Absent
  /\ MustRemove(op, s) => final[s] = Absent
  /\ todo' = todo \ {s}
  /\ UNCHANGED <<disk, db, holder, pc, goal, op, writes, had, tokened, seen, faults>>

UndoDone ==
  /\ pc = "undo" /\ todo = {}
  /\ pc' = "remove"
  /\ UNCHANGED <<disk, db, holder, goal, op, todo, writes, had, tokened, seen, faults>>

-----------------------------------------------------------------------------
(* _remove of a transaction directory: rmtree takes one entry at a time, in
   an order nobody chose. *)

RemoveJournal ==
  /\ pc = "remove" /\ journal[op] # "none"
  /\ journal' = [journal EXCEPT ![op] = "none"]
  /\ changes' = [changes EXCEPT ![op] = {}]
  /\ hadPrev' = [hadPrev EXCEPT ![op] = {}]
  /\ UNCHANGED <<final, dirs, prepared, previous, db, call, seen, faults>>

RemovePrepared(s) ==
  /\ pc = "remove" /\ prepared[op][s] # Absent
  /\ prepared' = [prepared EXCEPT ![op][s] = Absent]
  /\ UNCHANGED <<final, dirs, journal, changes, hadPrev, previous, db, call, seen, faults>>

RemovePrevious(s) ==
  /\ pc = "remove" /\ previous[op][s] # Absent
  /\ previous' = [previous EXCEPT ![op][s] = Absent]
  /\ UNCHANGED <<final, dirs, journal, changes, hadPrev, prepared, db, call, seen, faults>>

\* The empty directory goes last.  publish_many returns; _recover looks for more.
RemoveDir ==
  /\ pc = "remove" /\ journal[op] = "none"
  /\ \A s \in Stages : prepared[op][s] = Absent /\ previous[op][s] = Absent
  /\ dirs' = dirs \ {op}
  /\ IF goal = "done"
     THEN Unlock
     ELSE /\ pc' = "recover" /\ op' = NoOp
          /\ UNCHANGED <<holder, goal, todo, writes, had, tokened>>
  /\ UNCHANGED <<final, journal, changes, hadPrev, prepared, previous, db, seen, faults>>

-----------------------------------------------------------------------------
(* A call that has recovered.  It may be recover() or a reader: both only
   look at the files, and leave. *)

Leave ==
  /\ pc = "ready"
  /\ Unlock
  /\ UNCHANGED <<disk, db, seen, faults>>

\* A release publishes the batch under the same lock.
Publish ==
  /\ pc = "ready" /\ ~published
  /\ published' = TRUE
  /\ Unlock
  /\ UNCHANGED <<disk, reg, commitOp, used, seen, faults>>

-----------------------------------------------------------------------------
(* publish_many.  Ops \ used # {} is the bound on publications. *)

\* Mutant of Begin: active_batch's check is missing.
BeginAnyway(entries) ==
  /\ pc = "ready" /\ entries # {} /\ Ops \ used # {}
  /\ pc' = "entries" /\ todo' = entries
  /\ UNCHANGED <<disk, db, holder, goal, op, writes, had, tokened, seen, faults>>

Begin(entries) ==
  /\ pc = "ready" /\ ~published /\ entries # {} /\ Ops \ used # {}
  /\ pc' = "entries" /\ todo' = entries
  /\ UNCHANGED <<disk, db, holder, goal, op, writes, had, tokened, seen, faults>>

\* The except clause: _recover, or _remove, of the call's own transaction.
Raise ==
  /\ IF op = NoOp
     THEN Unlock
     ELSE /\ pc' = "recover" /\ goal' = "abort" /\ op' = NoOp /\ todo' = {}
          /\ writes' = Nothing /\ had' = {} /\ tokened' = {}
          /\ UNCHANGED holder

\* expected_version is not the registered version: RevisionConflict.
Conflict(s) ==
  /\ pc = "entries" /\ s \in todo
  /\ seen[holder][s] # Revision(reg[s])
  /\ Raise
  /\ UNCHANGED <<disk, db, seen, faults>>

\* The input has the registered fingerprint: its verified files are kept.
Reuse(s) ==
  /\ pc = "entries" /\ s \in todo
  /\ reg[s] # Absent /\ final[s] = reg[s]
  /\ todo' = todo \ {s}
  /\ UNCHANGED <<disk, db, holder, pc, goal, op, writes, had, tokened, seen, faults>>

\* Mutant of VersionMatches: expected_version is accepted as it is.
AnyVersion(s, checked) == TRUE

\* expected_version, if the entry has one, is the registered version.
VersionMatches(s, checked) == checked => seen[holder][s] = Revision(reg[s])

Prepare(s, payload, checked) ==
  /\ pc = "entries" /\ s \in todo
  /\ VersionMatches(s, checked)
  /\ Differs(reg[s], payload)
  /\ \E o \in Ops :
       /\ IF op = NoOp THEN o \notin used ELSE o = op
       /\ op' = o /\ used' = used \cup {o} /\ dirs' = dirs \cup {o}
       /\ prepared' = [prepared EXCEPT ![o][s] = Successor(reg[s], payload)]
  /\ writes' = [writes EXCEPT ![s] = Successor(reg[s], payload)]
  /\ had' = IF final[s] # Absent THEN had \cup {s} ELSE had
  /\ tokened' = IF checked THEN tokened \cup {s} ELSE tokened
  /\ todo' = todo \ {s}
  /\ UNCHANGED <<final, journal, changes, hadPrev, previous, reg, commitOp, published,
                 holder, pc, goal, seen, faults>>

\* Nothing changed: only the extra records are written.
KeepAll ==
  /\ pc = "entries" /\ todo = {} /\ op = NoOp
  /\ Unlock
  /\ UNCHANGED <<disk, db, seen, faults>>

Prepared ==
  /\ pc = "entries" /\ todo = {} /\ op # NoOp
  /\ pc' = "journal"
  /\ UNCHANGED <<disk, db, holder, goal, op, todo, writes, had, tokened, seen, faults>>

\* open(..., "xb") creates commit.json before a byte of it is written.
JournalOpen ==
  /\ pc = "journal" /\ journal[op] = "none"
  /\ journal' = [journal EXCEPT ![op] = "torn"]
  /\ UNCHANGED <<final, dirs, changes, hadPrev, prepared, previous, db, call, seen, faults>>

JournalWritten ==
  /\ pc = "journal" /\ journal[op] = "torn"
  /\ journal' = [journal EXCEPT ![op] = "whole"]
  /\ changes' = [changes EXCEPT ![op] = Changed(writes)]
  /\ hadPrev' = [hadPrev EXCEPT ![op] = had]
  /\ pc' = "swap" /\ todo' = Changed(writes)
  /\ UNCHANGED <<final, dirs, prepared, previous, db,
                 holder, goal, op, writes, had, tokened, seen, faults>>

\* Mutant of MoveOut: the old directory is not kept.
DropOld(s) ==
  /\ pc = "swap" /\ s \in todo /\ final[s] # Absent
  /\ final' = [final EXCEPT ![s] = Absent]
  /\ UNCHANGED <<dirs, journal, changes, hadPrev, prepared, previous, db, call, seen, faults>>

\* The renames of two stages may interleave here; the code does them one
\* stage after the other.
MoveOut(s) ==
  /\ pc = "swap" /\ s \in todo /\ final[s] # Absent
  /\ previous' = [previous EXCEPT ![op][s] = final[s]]
  /\ final' = [final EXCEPT ![s] = Absent]
  /\ UNCHANGED <<dirs, journal, changes, hadPrev, prepared, db, call, seen, faults>>

MoveIn(s) ==
  /\ pc = "swap" /\ s \in todo /\ final[s] = Absent
  /\ final' = [final EXCEPT ![s] = prepared[op][s]]
  /\ prepared' = [prepared EXCEPT ![op][s] = Absent]
  /\ todo' = todo \ {s}
  /\ UNCHANGED <<dirs, journal, changes, hadPrev, previous, db,
                 holder, pc, goal, op, writes, had, tokened, seen, faults>>

\* put_many: every record in one transaction, each against the revision read.
Commit ==
  /\ pc = "swap" /\ todo = {}
  /\ \A s \in Changed(writes) : writes[s].rev = Revision(reg[s]) + 1
  /\ reg' = [s \in Stages |-> IF s \in Changed(writes) THEN writes[s] ELSE reg[s]]
  /\ commitOp' = op
  /\ pc' = "remove" /\ goal' = "done"
  /\ UNCHANGED <<disk, published, used, holder, op, todo, writes, had, tokened, seen, faults>>

-----------------------------------------------------------------------------
(* Faults, at most MaxFaults of them. *)

\* The process that holds the lock dies; so, to the rest, does a call whose
\* _recover raises.
Crash ==
  /\ holder # NoThread /\ faults < MaxFaults
  /\ faults' = faults + 1
  /\ Unlock
  /\ UNCHANGED <<disk, db, seen>>

\* A step of publish_many raises: a full disk, a conflict on an extra record,
\* a record_entries callback, a file another program keeps open.
Fault ==
  /\ faults < MaxFaults
  /\ \/ pc \in {"entries", "journal", "swap"}
     \/ pc = "remove" /\ goal = "done"
  /\ faults' = faults + 1
  /\ Raise
  /\ UNCHANGED <<disk, db, seen>>

-----------------------------------------------------------------------------
Recover ==
  \/ ScanDone \/ UndoDone
  \/ \E o \in Ops : ScanUnjournaled(o) \/ ScanTorn(o) \/ ScanJournal(o)
  \/ \E s \in Stages : UndoRemove(s) \/ UndoRename(s) \/ UndoNothing(s)

Remove == \/ RemoveJournal \/ RemoveDir
          \/ \E s \in Stages : RemovePrepared(s) \/ RemovePrevious(s)

PublishMany ==
  \/ \E entries \in SUBSET Stages : Begin(entries)
  \/ \E s \in Stages : \/ Conflict(s) \/ Reuse(s) \/ MoveOut(s) \/ MoveIn(s)
                       \/ \E payload \in Payloads, checked \in BOOLEAN :
                            Prepare(s, payload, checked)
  \/ KeepAll \/ Prepared \/ JournalOpen \/ JournalWritten \/ Commit

Progress == Recover \/ Remove \/ Leave \/ Publish \/ PublishMany

Next == \/ Progress \/ Crash \/ Fault
        \/ \E t \in Threads : Lock(t) \/ \E s \in Stages : Observe(t, s)

Spec == Init /\ [][Next]_vars

-----------------------------------------------------------------------------
(* Properties. *)

\* Every variable holds what the record, directory or process it stands for can be.
TypeOK ==
  /\ final \in [Stages -> Dir]
  /\ dirs \subseteq Ops
  /\ journal \in [Ops -> {"none", "torn", "whole"}]
  /\ changes \in [Ops -> SUBSET Stages]
  /\ hadPrev \in [Ops -> SUBSET Stages]
  /\ prepared \in [Ops -> [Stages -> Manifest \cup {Absent}]]
  /\ previous \in [Ops -> [Stages -> Dir]]
  /\ reg \in [Stages -> Manifest \cup {Absent}]
  /\ commitOp \in Ops \cup {NoOp}
  /\ published \in BOOLEAN
  /\ used \subseteq Ops
  /\ holder \in Threads \cup {NoThread}
  /\ pc \in {"idle", "recover", "undo", "remove", "ready", "entries", "journal", "swap"}
  /\ goal \in {"enter", "abort", "done"}
  /\ op \in Ops \cup {NoOp}
  /\ todo \subseteq Stages
  /\ writes \in [Stages -> Manifest \cup {Absent}]
  /\ had \subseteq Stages
  /\ tokened \subseteq Stages
  /\ seen \in [Threads -> [Stages -> Nat]]
  /\ faults \in Nat

\* What a reader would find in stage s once _recover has run.
Pending(o) == o \in dirs /\ journal[o] = "whole" /\ commitOp # o

Recovered ==
  [s \in Stages |->
     IF \E o \in Ops : Pending(o) /\ s \in changes[o] /\ MustRemove(o, s)
     THEN previous[CHOOSE o \in Ops : Pending(o) /\ s \in changes[o] /\ MustRemove(o, s)][s]
     ELSE final[s]]

\* Whatever step a crash or an exception cut short, the directories of all
\* stages are the registered ones, or _recover makes them so from what the
\* transaction directory holds: artifacts.py keeps no stage of a publication
\* without the others and loses none it had.
RecoveredIsRegistered == Recovered = reg

\* A call that has recovered finds the registered content in every stage's
\* directory, so that _resolve_file raises only for a manifest that is no
\* longer current.
ReadersFindRegistered == pc = "ready" => final = reg

\* A publication that named the version it was made from replaces that
\* version, however long ago it was read and whatever happened since.
NoLostUpdate ==
  [][\A s \in tokened : reg'[s] # reg[s] => seen[holder][s] = Revision(reg[s])]_vars

\* publish_many implements the atomic publication of CurrentArtifacts, seen
\* through the files.
Current == INSTANCE CurrentArtifacts WITH current <- Recovered, closed <- published

ImplementsCurrent == Current!Spec

-----------------------------------------------------------------------------
(* The inductive invariant behind RecoveredIsRegistered. *)

\* Transactions: at most one, its identifier fresh, nothing kept of the others.
TransactionsInv ==
  /\ \A o1, o2 \in dirs : o1 = o2
  /\ dirs \subseteq used
  /\ commitOp \in used \cup {NoOp}
  /\ \A o \in Ops \ dirs : /\ journal[o] = "none"
                           /\ \A s \in Stages : prepared[o][s] = Absent /\ previous[o][s] = Absent
  /\ \A o \in Ops : journal[o] # "whole" => changes[o] = {}

\* What a pending journal promises of each stage it lists, and what is on disk
\* for the stages it need not undo.
UndoInv ==
  /\ \A o \in Ops, s \in Stages :
       Pending(o) =>
         /\ previous[o][s] # Absent => s \in changes[o]
         /\ s \in changes[o] /\ s \notin hadPrev[o] => reg[s] = Absent
         /\ s \in changes[o] /\ MustRemove(o, s) => previous[o][s] = reg[s]
  /\ \A s \in Stages :
       \/ final[s] = reg[s]
       \/ \E o \in Ops : Pending(o) /\ s \in changes[o] /\ MustRemove(o, s)

\* Where a call stands and the transaction it works on.
CallInv ==
  /\ pc = "idle" <=> holder = NoThread
  /\ pc \in {"idle", "recover", "ready"} => op = NoOp
  /\ pc \in {"undo", "remove", "journal", "swap"} => op \in dirs
  /\ pc = "ready" => dirs = {}
  /\ pc \in {"idle", "recover", "undo", "ready"} => goal \in {"enter", "abort"}
  /\ pc \in {"idle", "ready", "entries", "journal", "swap"} => goal = "enter"
  /\ pc \in {"idle", "recover", "ready"} => todo = {}
  /\ pc \in {"idle", "recover", "undo", "ready"} => writes = Nothing /\ had = {} /\ tokened = {}
  /\ pc = "remove" /\ goal # "done" => writes = Nothing /\ had = {} /\ tokened = {}

\* A publication that has not committed: its manifests succeed the registered
\* ones and its prepared directories carry them.
PublishInv ==
  pc \in {"entries", "journal", "swap"} =>
    /\ ~published
    /\ op = NoOp => dirs = {} /\ writes = Nothing /\ had = {}
    /\ op # NoOp => op \in dirs /\ commitOp # op
    /\ \A s \in Changed(writes) : /\ writes[s] = Successor(reg[s], writes[s].data)
                                  /\ Differs(reg[s], writes[s].data)
    /\ had = {s \in Changed(writes) : reg[s] # Absent}
    /\ \A s \in tokened : seen[holder][s] = Revision(reg[s])
    /\ pc # "swap" /\ op # NoOp =>
         /\ journal[op] # "whole"
         /\ pc = "entries" => journal[op] = "none"
         /\ \A s \in Stages : prepared[op][s] = writes[s] /\ previous[op][s] = Absent

SwapInv ==
  pc = "swap" =>
    /\ journal[op] = "whole" /\ changes[op] = Changed(writes) /\ hadPrev[op] = had
    /\ todo \subseteq Changed(writes)
    /\ \A s \in todo : /\ prepared[op][s] = writes[s]
                       /\ previous[op][s] = Absent \/ final[s] = Absent
    /\ \A s \in Changed(writes) \ todo : final[s] = writes[s] /\ previous[op][s] = reg[s]

\* A recovery, and the removal of a transaction that is over.
RecoverInv ==
  /\ pc = "undo" =>
       /\ journal[op] = "whole"
       /\ todo \subseteq changes[op]
       /\ commitOp = op => todo = {}
       /\ commitOp # op => \A s \in changes[op] \ todo : previous[op][s] = Absent /\ final[s] = reg[s]
  /\ pc = "remove" =>
       /\ todo = {}
       /\ final = reg
       /\ goal = "done" => commitOp = op
       /\ Pending(op) => \A s \in Stages : previous[op][s] = Absent

IInv == /\ TypeOK /\ TransactionsInv /\ UndoInv /\ CallInv
        /\ PublishInv /\ SwapInv /\ RecoverInv
=============================================================================
