---------------------------- MODULE BatchResults ----------------------------
(***************************************************************************)
(* backend/batch_results.py with the callers of its outbox: the results of *)
(* one batch and everything derived from them.                             *)
(*                                                                         *)
(*   02_annotation -> 03/04 tree -> 05_quality -> quality_results          *)
(*        correction session -> 06/07 exports -> release                   *)
(*                                                                         *)
(* An upstream publication commits, in the transaction of its artifacts, a *)
(* record batch_invalidations; drain_batch_invalidations then brings every *)
(* derived result in line, one transaction after the other, under the same *)
(* batch lock.  A crash or an exception between two of them leaves the     *)
(* record; a restart, or the next publication, drains it again.            *)
(*                                                                         *)
(* A publication of artifacts is one step here: ArtifactStore shows that   *)
(* it is.  Fingerprints stand for what they hash: an annotation for its    *)
(* rows, a tree for its input and what the model made of it, a quality     *)
(* result for the tree it judged.                                          *)
(***************************************************************************)
EXTENDS Naturals

CONSTANTS Tasks,
          Inputs,       \* what a task's annotation rows may be
          Builds,       \* what two tree builds of one input may differ in
          Jobs,         \* preprocessing, tree and quality jobs and open edits
          None,
          FaultKinds,   \* which faults happen: "crash", "raise"
          MaxVersion,   \* bound on annotation publications
          MaxFaults     \* bound on faults

Tree == [src: Inputs, build: Builds]

Kinds == {"annotation", "tree", "quality"}

ASSUME ConstantsAssumption ==
  /\ None \notin Inputs \cup Tree \cup [tree: Tree, stale: BOOLEAN] \cup [Tasks -> [tree: Tree, stale: BOOLEAN] \cup {None}]
  /\ FaultKinds \subseteq {"crash", "raise"}
  /\ MaxVersion \in Nat /\ MaxFaults \in Nat

VARIABLES
  ann,         \* 02_annotation, by task
  annRev,      \* its revision
  tree,        \* 04_tree (and 03_observation), by task
  qual,        \* 05_quality: the tree_hash each task was judged for
  qrec,        \* the quality_results records
  draft,       \* the correction session, by task
  exported,    \* the groups of 06_correction and 07_cot
  dataset,     \* the session as the last full export froze it
  event,       \* batch_invalidations[batch]: stage -> tasks; <<>> is none
  job,         \* what each job froze when it was submitted
  published,
  pc,          \* the step of the drain that comes next
  branch,      \* the stage of the event it is in
  affected,    \* the tasks that branch found changed
  faults,
  withdrawn    \* history: the tasks that lost their tree, until a drain has
               \* withdrawn what was derived from it

results == <<ann, annRev, tree, qual, qrec, draft, exported, dataset>>
drain   == <<pc, branch, affected>>
vars    == <<results, event, job, published, drain, faults, withdrawn>>

NoJob == [kind |-> "none", base |-> 0, input |-> [t \in Tasks |-> None]]

NoEvent == [k \in {} |-> {}]

Selected(j) == {t \in Tasks : job[j].input[t] # None}

\* _current_tree_locked: a tree counts while its annotation is the current one.
CurrentTree ==
  [t \in Tasks |-> IF tree[t] # None /\ tree[t].src = ann[t] THEN tree[t] ELSE None]

\* current_quality_payload: a judgement counts while its tree is current.
CurrentQuality ==
  [t \in Tasks |-> IF qual[t] = CurrentTree[t] THEN qual[t] ELSE None]

Init ==
  /\ ann = [t \in Tasks |-> None] /\ annRev = 0
  /\ tree = [t \in Tasks |-> None] /\ qual = [t \in Tasks |-> None]
  /\ qrec = [t \in Tasks |-> None] /\ draft = [t \in Tasks |-> None]
  /\ exported = [t \in Tasks |-> None] /\ dataset = None
  /\ event = NoEvent /\ job = [j \in Jobs |-> NoJob] /\ published = FALSE
  /\ pc = "idle" /\ branch = "none" /\ affected = {}
  /\ faults = 0 /\ withdrawn = {}

-----------------------------------------------------------------------------
(* The outbox. *)

\* invalidation_record_entry: what is pending stays pending.
WithEvent(k, tasks) ==
  [e \in DOMAIN event \cup {k} |->
     (IF e \in DOMAIN event THEN event[e] ELSE {}) \cup (IF e = k THEN tasks ELSE {})]

\* The branches of drain_batch_invalidations, in their order, from those in ks.
Enter(ks) ==
  /\ affected' = {}
  /\ \/ "annotation" \in ks /\ pc' = "reconcile" /\ branch' = "annotation"
     \/ "annotation" \notin ks /\ "tree" \in ks /\ pc' = "reconcile" /\ branch' = "tree"
     \/ ks = {"quality"} /\ pc' = "reconcile" /\ branch' = "quality"
     \/ ks \cap Kinds = {} /\ pc' = "clear" /\ branch' = "none"

\* An upstream publication and the drain it starts, still under the batch lock.
Publish(k, tasks) ==
  /\ event' = WithEvent(k, tasks)
  /\ Enter(DOMAIN event \cup {k})

-----------------------------------------------------------------------------
(* Jobs freeze their input when they are submitted and hold no lock while
   they run. *)

Idle == pc = "idle" /\ ~published

Submit(j, kind, base, input) ==
  /\ Idle /\ job[j] = NoJob
  /\ job' = [job EXCEPT ![j] = [kind |-> kind, base |-> base, input |-> input]]
  /\ UNCHANGED <<results, event, published, drain, faults, withdrawn>>

\* A preprocessing job, or an annotator who opens the batch.
SubmitAnnotation(j) == Submit(j, "annotation", annRev, NoJob.input)

SubmitTree(j, S) ==
  /\ S # {} /\ \A t \in S : ann[t] # None
  /\ Submit(j, "tree", 0, [t \in Tasks |-> IF t \in S THEN ann[t] ELSE None])

SubmitQuality(j, S) ==
  /\ S # {} /\ \A t \in S : CurrentTree[t] # None
  /\ Submit(j, "quality", 0, [t \in Tasks |-> IF t \in S THEN tree[t] ELSE None])

\* The version token, or the frozen fingerprints, no longer match.
Outdated(j) ==
  \/ job[j].kind = "annotation" /\ job[j].base # annRev
  \/ job[j].kind = "tree" /\ \E t \in Selected(j) : job[j].input[t] # ann[t]
  \/ job[j].kind = "quality" /\ \E t \in Selected(j) : job[j].input[t] # CurrentTree[t]

\* StaleTaskInput, a version conflict, or BatchPublishedError.
Reject(j) ==
  /\ pc = "idle" /\ job[j] # NoJob
  /\ published \/ Outdated(j)
  /\ job' = [job EXCEPT ![j] = NoJob]
  /\ UNCHANGED <<results, event, published, drain, faults, withdrawn>>

-----------------------------------------------------------------------------
(* The publications. *)

\* The 02_annotation of a preprocessing job, or of one edited box.
PublishAnnotation(j, new) ==
  /\ Idle /\ job[j].kind = "annotation" /\ ~Outdated(j)
  /\ annRev < MaxVersion
  /\ new # ann
  /\ ann' = new /\ annRev' = annRev + 1
  /\ Publish("annotation", {t \in Tasks : new[t] # ann[t]})
  /\ job' = [job EXCEPT ![j] = NoJob]
  /\ UNCHANGED <<tree, qual, qrec, draft, exported, dataset, published, faults, withdrawn>>

\* A preprocessing that changes no task publishes no event, and drains.
Reannotate(j) ==
  /\ Idle /\ job[j].kind = "annotation" /\ ~Outdated(j)
  /\ event # NoEvent /\ Enter(DOMAIN event)
  /\ job' = [job EXCEPT ![j] = NoJob]
  /\ UNCHANGED <<results, event, published, faults, withdrawn>>

\* publish_workbooks with a conversion alone: the annotations of the tasks
\* that changed are dropped until they are annotated again.
ConvertOnly(S) ==
  /\ Idle /\ annRev < MaxVersion
  /\ S # {} /\ \A t \in S : ann[t] # None
  /\ ann' = [t \in Tasks |-> IF t \in S THEN None ELSE ann[t]]
  /\ annRev' = annRev + 1
  /\ Publish("annotation", S)
  /\ UNCHANGED <<tree, qual, qrec, draft, exported, dataset, job, published, faults, withdrawn>>

\* merge_tree_results finds its tasks already built from this input.
KeepTree(j) ==
  /\ Idle /\ job[j].kind = "tree" /\ ~Outdated(j)
  /\ \A t \in Selected(j) : CurrentTree[t] # None
  /\ job' = [job EXCEPT ![j] = NoJob]
  /\ UNCHANGED <<results, event, published, drain, faults, withdrawn>>

\* Mutant of OtherTrees: a merge keeps the tasks of its own job only.
NoOtherTrees(S) == [t \in Tasks |-> None]

\* The tasks a merge preserves: current, and not rebuilt.
OtherTrees(S) == [t \in Tasks |-> IF t \in S THEN None ELSE CurrentTree[t]]

MergeTree(j, build) ==
  LET S == Selected(j)
      new == [t \in Tasks |-> IF t \in S THEN [src |-> job[j].input[t], build |-> build[t]]
                                         ELSE OtherTrees(S)[t]]
  IN /\ Idle /\ job[j].kind = "tree" /\ ~Outdated(j)
     /\ \E t \in S : CurrentTree[t] = None
     /\ tree' = new
     /\ Publish("tree", {t \in S : CurrentTree[t] # new[t]})
     /\ withdrawn' = withdrawn \cup {t \in Tasks : tree[t] # None /\ new[t] = None}
     /\ job' = [job EXCEPT ![j] = NoJob]
     /\ UNCHANGED <<ann, annRev, qual, qrec, draft, exported, dataset, published, faults>>

MergeQuality(j) ==
  LET S == Selected(j)
  IN /\ Idle /\ job[j].kind = "quality" /\ ~Outdated(j)
     /\ qual' = [t \in Tasks |-> IF t \in S THEN job[j].input[t] ELSE CurrentQuality[t]]
     /\ Publish("quality", {t \in S : CurrentQuality[t] = None})
     /\ job' = [job EXCEPT ![j] = NoJob]
     /\ UNCHANGED <<ann, annRev, tree, qrec, draft, exported, dataset, published, faults, withdrawn>>

-----------------------------------------------------------------------------
(* drain_batch_invalidations, one transaction after the other. *)

\* Mutant of ChangedInput: an event is believed only if the tree is still there.
ChangedTreesOnly(tasks) == {t \in tasks : tree[t] # None /\ tree[t].src # ann[t]}

\* The annotated tasks whose tree was built from something else.
ChangedInput(tasks) ==
  {t \in tasks : IF tree[t] = None THEN ann[t] # None ELSE tree[t].src # ann[t]}

\* The annotation branch: invalidate_tasks publishes 03 and 04 without them.
ReconcileAnnotation ==
  /\ pc = "reconcile" /\ branch = "annotation"
  /\ affected' = ChangedInput(event["annotation"])
  /\ tree' = [t \in Tasks |-> IF t \in affected' THEN None ELSE tree[t]]
  /\ withdrawn' = withdrawn \cup affected'
  /\ pc' = "quality"
  /\ UNCHANGED <<ann, annRev, qual, qrec, draft, exported, dataset, event, job, published, branch, faults>>

\* The tree branch: the judgements of another tree are obsolete.
ReconcileTree ==
  /\ pc = "reconcile" /\ branch = "tree"
  /\ affected' = {t \in event["tree"] : qual[t] # CurrentTree[t]}
  /\ pc' = "quality"
  /\ UNCHANGED <<results, event, job, published, branch, faults, withdrawn>>

\* The quality branch: only the records are behind.
ReconcileQuality ==
  /\ pc = "reconcile" /\ branch = "quality"
  /\ pc' = "records"
  /\ UNCHANGED <<results, event, job, published, branch, affected, faults, withdrawn>>

\* _invalidate_quality_locked: 05 without the affected tasks,
PruneQuality ==
  /\ pc = "quality"
  /\ qual' = [t \in Tasks |-> IF t \in affected THEN None ELSE qual[t]]
  /\ pc' = "records"
  /\ UNCHANGED <<ann, annRev, tree, qrec, draft, exported, dataset, event, job, published, branch, affected, faults, withdrawn>>

\* a record for each task 05 has,
WriteRecords ==
  /\ pc = "records"
  /\ qrec' = [t \in Tasks |-> IF qual[t] # None THEN qual[t] ELSE qrec[t]]
  /\ pc' = "delete"
  /\ UNCHANGED <<ann, annRev, tree, qual, draft, exported, dataset, event, job, published, branch, affected, faults, withdrawn>>

\* and none for the affected ones, deleted one by one.
DeleteRecords(S) ==
  /\ pc = "delete"
  /\ qrec' = [t \in Tasks |-> IF t \in S THEN None ELSE qrec[t]]
  /\ pc' = IF S = affected THEN "draft" ELSE "delete"
  /\ UNCHANGED <<ann, annRev, tree, qual, draft, exported, dataset, event, job, published, branch, affected, faults, withdrawn>>

\* on_batch_tasks_invalidated is told the affected tasks of an annotation, and
\* all tasks of another event.
Notified == IF branch = "annotation" THEN affected ELSE event[branch]

\* The session's record first,
NotifyDraft ==
  /\ pc = "draft"
  /\ draft' = [t \in Tasks |-> IF t \in Notified /\ draft[t] # None
                               THEN [draft[t] EXCEPT !.stale = TRUE] ELSE draft[t]]
  /\ pc' = "exports"
  /\ UNCHANGED <<ann, annRev, tree, qual, qrec, exported, dataset, event, job, published, branch, affected, faults, withdrawn>>

\* then its exports; then the next branch of the event.
NotifyExports ==
  /\ pc = "exports"
  /\ exported' = [t \in Tasks |-> IF t \in Notified THEN None ELSE exported[t]]
  /\ Enter(DOMAIN event \cap (CASE branch = "annotation" -> {"tree", "quality"}
                                [] branch = "tree" -> {"quality"}
                                [] branch = "quality" -> {}))
  /\ withdrawn' = IF branch = "annotation" THEN withdrawn \ affected ELSE withdrawn
  /\ UNCHANGED <<ann, annRev, tree, qual, qrec, draft, dataset, event, job, published, faults>>

\* The event is deleted when everything it asked for is done.
Clear ==
  /\ pc = "clear"
  /\ event' = NoEvent /\ pc' = "idle"
  /\ UNCHANGED <<results, job, published, branch, affected, faults, withdrawn>>

Drain == \/ ReconcileAnnotation \/ ReconcileTree \/ ReconcileQuality
         \/ PruneQuality \/ WriteRecords \/ (\E S \in SUBSET affected : DeleteRecords(S))
         \/ NotifyDraft \/ NotifyExports \/ Clear

-----------------------------------------------------------------------------
(* The correction session and the release. *)

\* create_session: the judged tasks are taken as they are now, the others stay
\* only while they wait for review.
CreateSession ==
  LET ready == {t \in Tasks : CurrentQuality[t] # None}
  IN /\ Idle /\ ready # {}
     /\ draft' = [t \in Tasks |->
                    IF t \in ready THEN [tree |-> tree[t], stale |-> FALSE]
                    ELSE IF draft[t] # None /\ draft[t].stale THEN draft[t] ELSE None]
     /\ UNCHANGED <<ann, annRev, tree, qual, qrec, exported, dataset, event, job, published, drain, faults, withdrawn>>

\* _export_view leaves the stale tasks out.  A full export is remembered with
\* the content of the session; publish_cot_snapshot remembers nothing.
Export(full) ==
  LET ready == {t \in Tasks : draft[t] # None /\ ~draft[t].stale}
  IN /\ Idle /\ ready # {}
     /\ exported' = [t \in Tasks |-> IF t \in ready THEN draft[t].tree ELSE None]
     /\ dataset' = IF full THEN draft ELSE dataset
     /\ UNCHANGED <<ann, annRev, tree, qual, qrec, draft, event, job, published, drain, faults, withdrawn>>

\* No unfinished job, nothing left to reconcile.  An open edit is no job.
NothingPending ==
  /\ event = NoEvent
  /\ \A j \in Jobs : job[j].kind \notin {"tree", "quality"}

\* Mutant of ExportIsCurrent: the last full export will do.
AnyExport == dataset # None

\* _latest_full_export: the export whose content is still the session's.
ExportIsCurrent == dataset = draft

\* ensure_publishable: every task judged, the session made from these inputs
\* (it compares inputs, not trees), and the remembered export still its content.
Release ==
  /\ Idle /\ NothingPending
  /\ \A t \in Tasks : /\ CurrentQuality[t] # None
                      /\ draft[t] # None /\ ~draft[t].stale
                      /\ draft[t].tree.src = tree[t].src
  /\ ExportIsCurrent
  /\ published' = TRUE
  /\ UNCHANGED <<results, event, job, drain, faults, withdrawn>>

-----------------------------------------------------------------------------
(* Faults. *)

\* The service dies: with it the lock and the running jobs.
Crash ==
  /\ pc # "down" /\ "crash" \in FaultKinds /\ faults < MaxFaults
  /\ faults' = faults + 1
  /\ pc' = "down" /\ branch' = "none" /\ affected' = {}
  /\ job' = [j \in Jobs |-> NoJob]
  /\ UNCHANGED <<results, event, published, withdrawn>>

\* A step of the drain raises: its caller fails, the event stays.
Raise ==
  /\ pc \notin {"idle", "down"} /\ "raise" \in FaultKinds /\ faults < MaxFaults
  /\ faults' = faults + 1
  /\ pc' = "idle" /\ branch' = "none" /\ affected' = {}
  /\ UNCHANGED <<results, event, job, published, withdrawn>>

\* Mutant of Startup: a restart leaves the outbox to the next publication.
StartIdle ==
  /\ pc = "down" /\ pc' = "idle"
  /\ UNCHANGED <<results, event, job, published, branch, affected, faults, withdrawn>>

\* recover_pending_batch_results, in the service's lifespan.
Startup ==
  /\ pc = "down"
  /\ IF event = NoEvent THEN pc' = "idle" /\ UNCHANGED <<branch, affected>>
                        ELSE Enter(DOMAIN event)
  /\ UNCHANGED <<results, event, job, published, faults, withdrawn>>

-----------------------------------------------------------------------------
JobStep(j) ==
  \/ SubmitAnnotation(j) \/ Reannotate(j) \/ Reject(j) \/ KeepTree(j) \/ MergeQuality(j)
  \/ \E S \in SUBSET Tasks : SubmitTree(j, S) \/ SubmitQuality(j, S)
  \/ \E new \in [Tasks -> Inputs \cup {None}] : PublishAnnotation(j, new)
  \/ \E build \in [Tasks -> Builds] : MergeTree(j, build)

Next == \/ \E j \in Jobs : JobStep(j)
        \/ \E S \in SUBSET Tasks : ConvertOnly(S)
        \/ Drain \/ CreateSession \/ Release
        \/ \E full \in BOOLEAN : Export(full)
        \/ Crash \/ Raise \/ Startup

Spec == Init /\ [][Next]_vars

\* A drain that has begun goes on, and a service that died is started again.
FairSpec == Spec /\ WF_vars(Drain) /\ WF_vars(Startup)
-----------------------------------------------------------------------------
(* Properties. *)

\* Every variable holds what the record, directory or process it stands for can be.
TypeOK ==
  /\ ann \in [Tasks -> Inputs \cup {None}] /\ annRev \in Nat
  /\ tree \in [Tasks -> Tree \cup {None}]
  /\ qual \in [Tasks -> Tree \cup {None}]
  /\ qrec \in [Tasks -> Tree \cup {None}]
  /\ draft \in [Tasks -> [tree: Tree, stale: BOOLEAN] \cup {None}]
  /\ exported \in [Tasks -> Tree \cup {None}]
  /\ dataset \in [Tasks -> [tree: Tree, stale: BOOLEAN] \cup {None}] \cup {None}
  /\ \E ks \in SUBSET Kinds : event \in [ks -> SUBSET Tasks]
  /\ job \in [Jobs -> [kind: Kinds \cup {"none"}, base: Nat,
                       input: [Tasks -> Inputs \cup Tree \cup {None}]]]
  /\ published \in BOOLEAN
  /\ pc \in {"idle", "down", "reconcile", "quality", "records", "delete", "draft", "exports", "clear"}
  /\ branch \in Kinds \cup {"none"}
  /\ affected \subseteq Tasks
  /\ faults \in Nat /\ withdrawn \subseteq Tasks

\* What is derived for a task belongs to its source: no tree of an old
\* annotation, no judgement, record, unmarked draft or exported group of an old
\* tree, and a record for its judgement.
InLine(t) ==
  /\ tree[t] = CurrentTree[t] /\ qual[t] = CurrentQuality[t]
  /\ qual[t] # None => qrec[t] = qual[t]
  /\ qrec[t] \in {None, tree[t]}
  /\ exported[t] \in {None, tree[t]}
  /\ draft[t] # None /\ ~draft[t].stale => draft[t].tree = tree[t]

\* The task lost its annotation, and its tree to a drain that went no further:
\* a replay compares nothing with nothing (line 377) and passes it by.
LeftBehind(t) == ann[t] = None /\ tree[t] = None /\ t \in withdrawn

UpToDate ==
  /\ tree = CurrentTree
  /\ \A t \in Tasks : LeftBehind(t) \/ InLine(t)

\* Whatever publications, crashes, exceptions and replays came before: when the
\* outbox is empty nothing is derived from an old source, but for a task that
\* was dropped and whose drain a fault cut off after its first transaction.
NothingBehind == event = NoEvent => UpToDate /\ (faults = 0 => \A t \in Tasks : InLine(t))

\* An update of one task leaves the results of the others: a tree stays current
\* while its annotation does, a judgement while its tree does.
OthersKept ==
  [][\A t \in Tasks :
       /\ CurrentTree[t] # None /\ ann'[t] = ann[t] => CurrentTree'[t] # None
       /\ CurrentQuality[t] # None /\ CurrentTree'[t] = CurrentTree[t]
            => CurrentQuality'[t] = CurrentQuality[t]]_vars

\* What a release froze is the judged result of the final annotations, for
\* every task, and stays so.
PublishedIsCurrent ==
  published => \A t \in Tasks : /\ dataset[t] # None
                                /\ dataset[t].tree = qual[t] /\ qual[t] = tree[t]
                                /\ tree[t].src = ann[t]

\* What an event announced is brought in line in the end, though the service
\* may die meanwhile: the restart drains what the crash left, but for the
\* dropped tasks a replay passes by.
EventSettles == event # NoEvent ~> event = NoEvent /\ UpToDate
=============================================================================
