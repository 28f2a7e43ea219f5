------------------------- MODULE BatchResultsProofs -------------------------
(***************************************************************************)
(* What follows from a batch's annotations is never behind unnoticed, and  *)
(* what a release froze is current: for all tasks, inputs, builds and jobs *)
(* and any number of publications, crashes and exceptions.                 *)
(***************************************************************************)
EXTENDS BatchResults, TLAPS

Groups == [tree: Tree, stale: BOOLEAN]
JobRows == [kind: Kinds \cup {"none"}, base: Nat, input: [Tasks -> Inputs \cup Tree \cup {None}]]
Places == {"idle", "down", "reconcile", "quality", "records", "delete", "draft", "exports", "clear"}

\* What the pending event announces of a stage.
Announced(k) == IF k \in DOMAIN event THEN event[k] ELSE {}

\* The tree of a task of the session that nobody has marked.
Unmarked(t) == IF draft[t] # None /\ ~draft[t].stale THEN draft[t].tree ELSE None

Sourced(t) == tree[t] # None => tree[t].src = ann[t]
Followed(t) ==
  /\ qual[t] \in {None, tree[t]} /\ qrec[t] \in {None, tree[t]}
  /\ exported[t] \in {None, tree[t]} /\ Unmarked(t) \in {None, tree[t]}
Recorded(t) == qual[t] # None => qrec[t] = qual[t]

Counted(t) == tree[t] # None \/ ann[t] # None \/ t \notin withdrawn

ResultsTypeOK ==
  /\ ann \in [Tasks -> Inputs \cup {None}] /\ annRev \in Nat
  /\ tree \in [Tasks -> Tree \cup {None}] /\ qual \in [Tasks -> Tree \cup {None}]
  /\ qrec \in [Tasks -> Tree \cup {None}] /\ exported \in [Tasks -> Tree \cup {None}]
  /\ draft \in [Tasks -> Groups \cup {None}]
  /\ dataset \in [Tasks -> Groups \cup {None}] \cup {None}
  /\ DOMAIN event \subseteq Kinds /\ event \in [DOMAIN event -> SUBSET Tasks]
  /\ job \in [Jobs -> JobRows] /\ published \in BOOLEAN
  /\ pc \in Places /\ branch \in Kinds \cup {"none"} /\ affected \subseteq Tasks
  /\ faults \in Nat /\ withdrawn \subseteq Tasks

\* What is behind its source is announced, at the stage that will find it.
OutboxInv ==
  \A t \in Tasks :
    /\ Sourced(t) \/ t \in Announced("annotation")
    /\ Recorded(t) \/ "quality" \in DOMAIN event
    /\ Counted(t) => Followed(t) \/ t \in Announced(IF tree[t] = None THEN "annotation" ELSE "tree")
    /\ tree[t] = None /\ t \notin withdrawn => Followed(t)

\* In line, or left to the tree branch.
Remains(t) == Sourced(t) /\ (Followed(t) \/ (tree[t] # None /\ t \in Announced("tree")))

PlaceInv ==
  /\ pc \in {"idle", "down", "clear"} <=> branch = "none"
  /\ branch # "none" => branch \in DOMAIN event
  /\ branch = "quality" => affected = {} /\ pc # "quality"
  /\ pc = "reconcile" => affected = {}
  /\ faults = 0 => /\ pc # "down" /\ (pc = "idle" => DOMAIN event = {})
                   /\ withdrawn \subseteq IF branch = "annotation" THEN affected ELSE {}
  /\ published => DOMAIN event = {} /\ pc \in {"idle", "down"}

\* What a branch of the drain has brought in line so far, the affected tasks first.
AnnotationInv ==
  branch = "annotation" =>
    \A t \in Tasks :
      /\ pc # "reconcile" /\ t \notin affected /\ Counted(t) => Remains(t)
      /\ t \in affected =>
           /\ pc # "reconcile" => tree[t] = None
           /\ pc \in {"records", "delete", "draft", "exports"} => qual[t] = None
           /\ pc \in {"draft", "exports"} => qrec[t] = None
           /\ pc = "exports" => Unmarked(t) = None

TreeInv ==
  branch = "tree" =>
    \A t \in Tasks :
      /\ Counted(t) => Remains(t)
      /\ pc # "reconcile" /\ t \in event["tree"] /\ t \notin affected => qual[t] = CurrentTree[t]
      /\ pc \in {"delete", "draft", "exports"} /\ t \notin affected /\ Counted(t) => qrec[t] \in {None, tree[t]}
      /\ t \in affected =>
           /\ pc = "quality" => qual[t] # CurrentTree[t]
           /\ pc \in {"records", "delete", "draft", "exports"} => qual[t] = None
           /\ pc \in {"draft", "exports"} => qrec[t] = None
      /\ t \in event["tree"] /\ pc = "exports" => Unmarked(t) = None

LastInv ==
  branch = "quality" \/ pc = "clear" =>
    \A t \in Tasks :
      /\ Counted(t) => Sourced(t) /\ Followed(t)
      /\ pc \in {"delete", "draft", "exports", "clear"} => Recorded(t)

DrainInv == AnnotationInv /\ TreeInv /\ LastInv

ResultsInv == ResultsTypeOK /\ OutboxInv /\ PlaceInv /\ DrainInv /\ PublishedIsCurrent

LEMMA ResultsStart == Init => ResultsInv
<1> SUFFICES ASSUME Init PROVE ResultsInv
  OBVIOUS
<1>1. DOMAIN event = {} /\ event \in [DOMAIN event -> SUBSET Tasks]
  BY DEF Init, NoEvent
<1>2. NoJob \in JobRows
  BY DEF NoJob, JobRows
<1>3. ResultsTypeOK
  BY <1>1, <1>2 DEF Init, ResultsTypeOK, Places
<1>4. OutboxInv
  BY DEF Init, OutboxInv, Sourced, Recorded, Followed, Unmarked
<1>5. PlaceInv /\ DrainInv /\ PublishedIsCurrent
  BY <1>1 DEF Init, PlaceInv, DrainInv, AnnotationInv, TreeInv, LastInv, PublishedIsCurrent
<1> QED BY <1>3, <1>4, <1>5 DEF ResultsInv

-----------------------------------------------------------------------------
(* The outbox and the order of the branches. *)

LEMMA EventGrows ==
  ASSUME ResultsTypeOK, NEW k \in Kinds, NEW tasks \in SUBSET Tasks, event' = WithEvent(k, tasks)
  PROVE  /\ DOMAIN event' = DOMAIN event \cup {k} /\ DOMAIN event' \subseteq Kinds
         /\ event' \in [DOMAIN event' -> SUBSET Tasks]
         /\ \A e : Announced(e)' = Announced(e) \cup (IF e = k THEN tasks ELSE {})
  BY DEF ResultsTypeOK, WithEvent, Announced

\* Where a pass begins.
LEMMA Entered ==
  ASSUME NEW ks \in SUBSET Kinds, Enter(ks)
  PROVE  /\ affected' = {} /\ branch' \in ks \cup {"none"}
         /\ pc' = IF ks = {} THEN "clear" ELSE "reconcile"
         /\ branch' = "none" <=> ks = {}
         /\ branch' = "tree" => "annotation" \notin ks
         /\ branch' = "quality" => ks = {"quality"}
  BY DEF Enter, Kinds

LEMMA PassBegins ==
  ASSUME NEW ks \in SUBSET Kinds, Enter(ks),
         "annotation" \notin ks => \A t \in Tasks : Counted(t)' => Remains(t)',
         "annotation" \notin ks /\ "tree" \notin ks =>
           \A t \in Tasks : Counted(t)' => Sourced(t)' /\ Followed(t)',
         ks = {} => \A t \in Tasks : Recorded(t)'
  PROVE  DrainInv'
<1>1. AnnotationInv'
  BY Entered DEF AnnotationInv
<1>2. TreeInv'
  BY Entered DEF TreeInv
<1>3. LastInv'
  BY Entered DEF LastInv
<1> QED BY <1>1, <1>2, <1>3 DEF DrainInv

\* A pass from all that is pending has everything before it.
LEMMA Restarts ==
  ASSUME DOMAIN event' \subseteq Kinds, DOMAIN event' # {}, OutboxInv', Enter(DOMAIN event')
  PROVE  DrainInv'
<1>1. ASSUME "annotation" \notin DOMAIN event', NEW t \in Tasks, Counted(t)' PROVE Remains(t)'
  BY <1>1 DEF OutboxInv, Announced, Remains
<1>2. ASSUME "annotation" \notin DOMAIN event', "tree" \notin DOMAIN event', NEW t \in Tasks, Counted(t)'
      PROVE  Sourced(t)' /\ Followed(t)'
  BY <1>2 DEF OutboxInv, Announced
<1> QED BY <1>1, <1>2, PassBegins

-----------------------------------------------------------------------------
(* The actions, by what they leave alone. *)

\* Steps that change jobs and nothing else.
JobOnly == UNCHANGED <<results, event, published, drain, faults, withdrawn>>

LEMMA JobRow ==
  ASSUME ResultsTypeOK, NEW j \in Jobs, NEW k \in Kinds, NEW n \in Nat,
         NEW f \in [Tasks -> Inputs \cup Tree \cup {None}]
  PROVE  /\ [job EXCEPT ![j] = NoJob] \in [Jobs -> JobRows]
         /\ [job EXCEPT ![j] = [kind |-> k, base |-> n, input |-> f]] \in [Jobs -> JobRows]
<1>1. NoJob \in JobRows /\ [kind |-> k, base |-> n, input |-> f] \in JobRows
  BY DEF NoJob, JobRows
<1> QED BY <1>1 DEF ResultsTypeOK

LEMMA JobsOnly ==
  ASSUME ResultsTypeOK, NEW j \in Jobs,
         SubmitAnnotation(j) \/ (\E S \in SUBSET Tasks : SubmitTree(j, S) \/ SubmitQuality(j, S))
           \/ Reject(j) \/ KeepTree(j)
  PROVE  JobOnly /\ job' \in [Jobs -> JobRows]
<1>1. CASE SubmitAnnotation(j)
  <2>1. NoJob.input \in [Tasks -> Inputs \cup Tree \cup {None}] /\ annRev \in Nat
    BY DEF NoJob, ResultsTypeOK
  <2> QED BY <1>1, <2>1, JobRow DEF SubmitAnnotation, Submit, JobOnly, Kinds
<1>2. ASSUME NEW S \in SUBSET Tasks, SubmitTree(j, S) PROVE JobOnly /\ job' \in [Jobs -> JobRows]
  <2>1. [t \in Tasks |-> IF t \in S THEN ann[t] ELSE None] \in [Tasks -> Inputs \cup Tree \cup {None}]
    BY DEF ResultsTypeOK
  <2> QED BY <1>2, <2>1, JobRow DEF SubmitTree, Submit, JobOnly, Kinds
<1>3. ASSUME NEW S \in SUBSET Tasks, SubmitQuality(j, S) PROVE JobOnly /\ job' \in [Jobs -> JobRows]
  <2>1. [t \in Tasks |-> IF t \in S THEN tree[t] ELSE None] \in [Tasks -> Inputs \cup Tree \cup {None}]
    BY DEF ResultsTypeOK
  <2> QED BY <1>3, <2>1, JobRow DEF SubmitQuality, Submit, JobOnly, Kinds
<1>4. CASE Reject(j) \/ KeepTree(j)
  <2>1. NoJob.input \in [Tasks -> Inputs \cup Tree \cup {None}]
    BY DEF NoJob
  <2> QED BY <1>4, <2>1, JobRow DEF Reject, KeepTree, JobOnly, Kinds
<1> QED BY <1>1, <1>2, <1>3, <1>4

\* What a job that is not outdated has frozen is still so.
LEMMA TreeJob ==
  ASSUME ResultsTypeOK, NEW j \in Jobs, job[j].kind = "tree", ~Outdated(j), NEW t \in Selected(j)
  PROVE  t \in Tasks /\ job[j].input[t] = ann[t] /\ ann[t] \in Inputs
  BY DEF Outdated, Selected, ResultsTypeOK

LEMMA QualityJob ==
  ASSUME ResultsTypeOK, NEW j \in Jobs, job[j].kind = "quality", ~Outdated(j), NEW t \in Selected(j)
  PROVE  /\ t \in Tasks /\ job[j].input[t] = tree[t] /\ tree[t] \in Tree /\ tree[t].src = ann[t]
         /\ CurrentTree[t] = tree[t]
<1>1. t \in Tasks /\ job[j].input[t] = CurrentTree[t] /\ CurrentTree[t] # None
  BY DEF Outdated, Selected
<1> QED BY <1>1 DEF CurrentTree, ResultsTypeOK

\* The publications, with the event of each.
LEMMA Publishes ==
  ASSUME ResultsTypeOK, NEW k \in Kinds, NEW tasks \in SUBSET Tasks, Publish(k, tasks)
  PROVE  /\ DOMAIN event' = DOMAIN event \cup {k} /\ DOMAIN event' \in SUBSET Kinds
         /\ event' \in [DOMAIN event' -> SUBSET Tasks]
         /\ \A e : Announced(e)' = Announced(e) \cup (IF e = k THEN tasks ELSE {})
         /\ Enter(DOMAIN event') /\ pc' = "reconcile" /\ branch' \in DOMAIN event' /\ affected' = {}
<1>1. /\ DOMAIN event' = DOMAIN event \cup {k} /\ DOMAIN event' \in SUBSET Kinds
      /\ event' \in [DOMAIN event' -> SUBSET Tasks]
      /\ \A e : Announced(e)' = Announced(e) \cup (IF e = k THEN tasks ELSE {})
  BY EventGrows DEF Publish
<1>2. Enter(DOMAIN event')
  BY <1>1 DEF Publish
<1> QED BY <1>1, <1>2, Entered

Pass == branch' \in Kinds \cup {"none"} /\ affected' \subseteq Tasks /\ pc' \in Places

LEMMA Passes ==
  ASSUME NEW ks \in SUBSET Kinds, Enter(ks) PROVE Pass
  BY Entered DEF Pass, Places

LEMMA TypesKept == ResultsTypeOK /\ PlaceInv /\ Next => ResultsTypeOK'
<1> SUFFICES ASSUME ResultsTypeOK, PlaceInv, Next PROVE ResultsTypeOK'
  OBVIOUS
<1> USE DEF results, drain
<1>1. ASSUME NEW j \in Jobs, SubmitAnnotation(j) \/ (\E S \in SUBSET Tasks : SubmitTree(j, S) \/
        SubmitQuality(j, S)) \/ Reject(j) \/ KeepTree(j) PROVE ResultsTypeOK'
  BY <1>1, JobsOnly DEF JobOnly, ResultsTypeOK
<1>2. ASSUME NEW j \in Jobs PROVE [job EXCEPT ![j] = NoJob] \in [Jobs -> JobRows]
  BY DEF ResultsTypeOK, NoJob, JobRows
<1>3. ASSUME NEW j \in Jobs, Reannotate(j) PROVE ResultsTypeOK'
  <2>1. Pass
    BY <1>3, Passes DEF Reannotate, ResultsTypeOK
  <2> QED BY <1>2, <1>3, <2>1 DEF Reannotate, ResultsTypeOK, Pass
<1>4. ASSUME NEW j \in Jobs, NEW new \in [Tasks -> Inputs \cup {None}], PublishAnnotation(j, new)
      PROVE  ResultsTypeOK'
  <2>1. /\ DOMAIN event' \in SUBSET Kinds /\ event' \in [DOMAIN event' -> SUBSET Tasks] /\ Enter(DOMAIN event')
    BY <1>4, Publishes DEF PublishAnnotation, Kinds
  <2> QED BY <1>2, <1>4, <2>1, Passes DEF PublishAnnotation, ResultsTypeOK, Pass
<1>5. ASSUME NEW S \in SUBSET Tasks, ConvertOnly(S) PROVE ResultsTypeOK'
  <2>1. /\ DOMAIN event' \in SUBSET Kinds /\ event' \in [DOMAIN event' -> SUBSET Tasks] /\ Enter(DOMAIN event')
    BY <1>5, Publishes DEF ConvertOnly, Kinds
  <2> QED BY <1>5, <2>1, Passes DEF ConvertOnly, ResultsTypeOK, Pass
<1>6. ASSUME NEW j \in Jobs, NEW build \in [Tasks -> Builds], MergeTree(j, build) PROVE ResultsTypeOK'
  <2>1. /\ DOMAIN event' \in SUBSET Kinds /\ event' \in [DOMAIN event' -> SUBSET Tasks] /\ Enter(DOMAIN event')
    BY <1>6, Publishes DEF MergeTree, Kinds, Selected
  <2>2. tree' \in [Tasks -> Tree \cup {None}]
    <3>1. ASSUME NEW t \in Selected(j) PROVE [src |-> job[j].input[t], build |-> build[t]] \in Tree
      BY <1>6, <3>1, TreeJob DEF MergeTree, Tree
    <3>2. OtherTrees(Selected(j)) \in [Tasks -> Tree \cup {None}]
      BY DEF OtherTrees, CurrentTree, ResultsTypeOK
    <3> QED BY <1>6, <3>1, <3>2 DEF MergeTree
  <2> QED BY <1>2, <1>6, <2>1, <2>2, Passes DEF MergeTree, ResultsTypeOK, Pass
<1>7. ASSUME NEW j \in Jobs, MergeQuality(j) PROVE ResultsTypeOK'
  <2>1. /\ DOMAIN event' \in SUBSET Kinds /\ event' \in [DOMAIN event' -> SUBSET Tasks] /\ Enter(DOMAIN event')
    BY <1>7, Publishes DEF MergeQuality, Kinds, Selected
  <2>2. CurrentQuality \in [Tasks -> Tree \cup {None}]
    BY DEF CurrentQuality, ResultsTypeOK
  <2>3. ASSUME NEW t \in Selected(j) PROVE job[j].input[t] \in Tree
    BY <1>7, <2>3, QualityJob DEF MergeQuality
  <2>4. qual' \in [Tasks -> Tree \cup {None}]
    BY <1>7, <2>2, <2>3 DEF MergeQuality
  <2> QED BY <1>2, <1>7, <2>1, <2>4, Passes DEF MergeQuality, ResultsTypeOK, Pass
<1>8. CASE ReconcileAnnotation
  <2>1. Pass
    BY <1>8 DEF ReconcileAnnotation, ChangedInput, PlaceInv, ResultsTypeOK, Pass, Places
  <2> QED BY <1>8, <2>1 DEF ReconcileAnnotation, ResultsTypeOK, Pass
<1>9. CASE ReconcileTree \/ ReconcileQuality
  <2>1. Pass
    BY <1>9 DEF ReconcileTree, ReconcileQuality, PlaceInv, ResultsTypeOK, Pass, Places
  <2> QED BY <1>9, <2>1 DEF ReconcileTree, ReconcileQuality, ResultsTypeOK, Pass
<1>10. CASE PruneQuality \/ WriteRecords \/ \E S \in SUBSET affected : DeleteRecords(S)
  <2>1. Pass
    BY <1>10 DEF PruneQuality, WriteRecords, DeleteRecords, ResultsTypeOK, Pass, Places
  <2>2. qual' \in [Tasks -> Tree \cup {None}] /\ qrec' \in [Tasks -> Tree \cup {None}]
    BY <1>10 DEF PruneQuality, WriteRecords, DeleteRecords, ResultsTypeOK
  <2> QED BY <1>10, <2>1, <2>2 DEF PruneQuality, WriteRecords, DeleteRecords, ResultsTypeOK, Pass
<1>11. CASE NotifyDraft
  <2>1. ASSUME NEW t \in Tasks, draft[t] # None PROVE [draft[t] EXCEPT !.stale = TRUE] \in Groups
    BY <2>1 DEF ResultsTypeOK, Groups
  <2>2. draft' \in [Tasks -> Groups \cup {None}]
    BY <1>11, <2>1 DEF NotifyDraft, ResultsTypeOK
  <2> QED BY <1>11, <2>2 DEF NotifyDraft, ResultsTypeOK, Places
<1>12. CASE NotifyExports
  <2>1. PICK ks \in SUBSET Kinds : Enter(ks)
    BY <1>12 DEF NotifyExports, ResultsTypeOK
  <2>2. Pass
    BY <2>1, Passes
  <2> QED BY <1>12, <2>2 DEF NotifyExports, ResultsTypeOK, Pass
<1>13. CASE Clear
  <2>1. DOMAIN event' = {} /\ event' \in [DOMAIN event' -> SUBSET Tasks]
    BY <1>13 DEF Clear, NoEvent
  <2> QED BY <1>13, <2>1 DEF Clear, ResultsTypeOK, Places
<1>14. CASE CreateSession
  <2>1. ASSUME NEW t \in Tasks, CurrentQuality[t] # None PROVE tree[t] \in Tree
    BY <2>1 DEF CurrentQuality, CurrentTree, ResultsTypeOK
  <2>2. ASSUME NEW t \in Tasks, CurrentQuality[t] # None PROVE [tree |-> tree[t], stale |-> FALSE] \in Groups
    BY <2>1, <2>2 DEF Groups
  <2>3. draft' \in [Tasks -> Groups \cup {None}]
    BY <1>14, <2>2 DEF CreateSession, ResultsTypeOK
  <2> QED BY <1>14, <2>3 DEF CreateSession, ResultsTypeOK
<1>15. ASSUME NEW full \in BOOLEAN, Export(full) PROVE ResultsTypeOK'
  <2>1. ASSUME NEW t \in Tasks, draft[t] # None PROVE draft[t].tree \in Tree
    BY <2>1 DEF ResultsTypeOK, Groups
  <2>2. exported' \in [Tasks -> Tree \cup {None}]
    BY <1>15, <2>1 DEF Export
  <2> QED BY <1>15, <2>2 DEF Export, ResultsTypeOK
<1>16. CASE Release
  BY <1>16 DEF Release, ResultsTypeOK
<1>17. CASE Crash \/ Raise
  BY <1>17 DEF Crash, Raise, ResultsTypeOK, Places, NoJob, JobRows
<1>18. CASE Startup
  <2>1. Pass
    BY <1>18, Passes DEF Startup, ResultsTypeOK, Pass, Places
  <2> QED BY <1>18, <2>1 DEF Startup, ResultsTypeOK, Pass
<1> QED BY <1>1, <1>3, <1>4, <1>5, <1>6, <1>7, <1>8, <1>9, <1>10, <1>11, <1>12, <1>13, <1>14, <1>15,
          <1>16, <1>17, <1>18 DEF Next, JobStep, Drain

-----------------------------------------------------------------------------
(* Where the drain stands. *)

LEMMA PlaceKept == ResultsTypeOK /\ OutboxInv /\ PlaceInv /\ Next => PlaceInv'
<1> SUFFICES ASSUME ResultsTypeOK, OutboxInv, PlaceInv, Next PROVE PlaceInv'
  OBVIOUS
<1> USE DEF results, drain
<1>1. ASSUME NEW j \in Jobs, SubmitAnnotation(j) \/ (\E S \in SUBSET Tasks : SubmitTree(j, S) \/
        SubmitQuality(j, S)) \/ Reject(j) \/ KeepTree(j) PROVE PlaceInv'
  BY <1>1, JobsOnly DEF JobOnly, PlaceInv
<1>2. ASSUME NEW j \in Jobs, Reannotate(j) PROVE PlaceInv'
  BY <1>2, Entered DEF Reannotate, ResultsTypeOK, PlaceInv, Idle, NoEvent
<1>3. ASSUME NEW k \in Kinds, NEW tasks \in SUBSET Tasks, Publish(k, tasks), Idle,
             UNCHANGED <<published, faults>>, faults = 0 => withdrawn' = withdrawn
      PROVE  PlaceInv'
  <2>1. pc' = "reconcile" /\ branch' \in DOMAIN event' /\ affected' = {} /\ DOMAIN event' \subseteq Kinds
    BY <1>3, Publishes
  <2> QED BY <1>3, <2>1 DEF PlaceInv, Idle, Kinds
<1>4. ASSUME NEW j \in Jobs, NEW new \in [Tasks -> Inputs \cup {None}], PublishAnnotation(j, new)
      PROVE  PlaceInv'
  BY <1>3, <1>4 DEF PublishAnnotation, Kinds
<1>5. ASSUME NEW S \in SUBSET Tasks, ConvertOnly(S) PROVE PlaceInv'
  BY <1>3, <1>5 DEF ConvertOnly, Kinds
<1>6. ASSUME NEW j \in Jobs, NEW build \in [Tasks -> Builds], MergeTree(j, build) PROVE PlaceInv'
  <2> DEFINE S == Selected(j)
             new == [t \in Tasks |-> IF t \in S THEN [src |-> job[j].input[t], build |-> build[t]]
                                                ELSE OtherTrees(S)[t]]
             told == {t \in S : CurrentTree[t] # new[t]}
  <2>1. /\ Publish("tree", told) /\ Idle /\ UNCHANGED <<published, faults>>
        /\ withdrawn' = withdrawn \cup {t \in Tasks : tree[t] # None /\ new[t] = None}
    BY <1>6 DEF MergeTree
  <2>2. told \in SUBSET Tasks
    BY DEF Selected
  <2>3. ASSUME faults = 0, NEW t \in Tasks, tree[t] # None PROVE new[t] # None
    <3>1. CASE t \in S
      <4>1. new[t] \in Tree
        BY <1>6, <3>1, TreeJob DEF MergeTree, Tree
      <4> QED BY <4>1, ConstantsAssumption
    <3>2. CASE t \notin S
      <4>1. tree[t].src = ann[t]
        BY <2>1, <2>3 DEF Idle, PlaceInv, OutboxInv, Sourced, Announced
      <4> QED BY <2>3, <3>2, <4>1 DEF OtherTrees, CurrentTree
    <3> QED BY <3>1, <3>2
  <2>4. faults = 0 => withdrawn' = withdrawn
    BY <2>1, <2>3
  <2> HIDE DEF told, new
  <2> QED BY <1>3, <2>1, <2>2, <2>4 DEF Kinds
<1>7. ASSUME NEW j \in Jobs, MergeQuality(j) PROVE PlaceInv'
  BY <1>3, <1>7 DEF MergeQuality, Kinds, Selected
<1>8. CASE ReconcileAnnotation \/ ReconcileTree \/ ReconcileQuality
  BY <1>8 DEF ReconcileAnnotation, ReconcileTree, ReconcileQuality, ChangedInput, PlaceInv
<1>9. CASE PruneQuality \/ WriteRecords \/ NotifyDraft \/ \E S \in SUBSET affected : DeleteRecords(S)
  BY <1>9 DEF PruneQuality, WriteRecords, DeleteRecords, NotifyDraft, PlaceInv
<1>10. CASE NotifyExports
  <2>1. PICK ks \in SUBSET Kinds : ks \subseteq DOMAIN event /\ "annotation" \notin ks /\ Enter(ks)
    <3>1. DOMAIN event \subseteq Kinds /\ branch \in Kinds
      BY <1>10 DEF NotifyExports, PlaceInv, ResultsTypeOK
    <3> DEFINE rest == CASE branch = "annotation" -> {"tree", "quality"}
                         [] branch = "tree" -> {"quality"}
                         [] branch = "quality" -> {}
    <3>2. "annotation" \notin rest
      BY <3>1 DEF Kinds
    <3>3. Enter(DOMAIN event \cap rest)
      BY <1>10 DEF NotifyExports
    <3> HIDE DEF rest
    <3> QED BY <3>1, <3>2, <3>3
  <2>2. branch' # "annotation" /\ branch' \in ks \cup {"none"} /\ (branch' = "none" <=> pc' = "clear")
        /\ affected' = {} /\ pc' \in {"clear", "reconcile"}
    BY <2>1, Entered
  <2>3. faults = 0 => withdrawn' = {}
    BY <1>10 DEF NotifyExports, PlaceInv
  <2>4. pc = "exports" /\ ~published' /\ UNCHANGED <<event, faults>>
    BY <1>10 DEF NotifyExports, PlaceInv
  <2> QED BY <2>1, <2>2, <2>3, <2>4 DEF PlaceInv
<1>11. CASE Clear
  BY <1>11 DEF Clear, NoEvent, PlaceInv
<1>12. CASE CreateSession \/ \E full \in BOOLEAN : Export(full)
  BY <1>12 DEF CreateSession, Export, PlaceInv
<1>13. CASE Release
  BY <1>13 DEF Release, Idle, NothingPending, NoEvent, PlaceInv
<1>14. CASE Crash \/ Raise
  BY <1>14 DEF Crash, Raise, PlaceInv, ResultsTypeOK
<1>15. CASE Startup
  <2>1. event = NoEvent \/ (Enter(DOMAIN event) /\ event # NoEvent)
    BY <1>15 DEF Startup
  <2>2. event # NoEvent => DOMAIN event # {}
    BY DEF NoEvent, ResultsTypeOK
  <2> QED BY <1>15, <2>1, <2>2, Entered DEF Startup, ResultsTypeOK, PlaceInv, NoEvent
<1> QED BY <1>1, <1>2, <1>4, <1>5, <1>6, <1>7, <1>8, <1>9, <1>10, <1>11, <1>12, <1>13, <1>14, <1>15
    DEF Next, JobStep, Drain

-----------------------------------------------------------------------------
(* The outbox. *)

LEMMA OutboxSame ==
  ASSUME OutboxInv, UNCHANGED <<ann, tree, qual, qrec, exported, draft, event, withdrawn>> PROVE OutboxInv'
  BY DEF OutboxInv, Sourced, Followed, Recorded, Unmarked, Counted, Announced

LEMMA OutboxKept == ResultsInv /\ Next => OutboxInv'
<1> SUFFICES ASSUME ResultsTypeOK, OutboxInv, PlaceInv, AnnotationInv, TreeInv, LastInv, Next PROVE OutboxInv'
  BY DEF ResultsInv, DrainInv
<1> USE DEF results, drain
<1>1. ASSUME NEW j \in Jobs, SubmitAnnotation(j) \/ (\E S \in SUBSET Tasks : SubmitTree(j, S) \/
        SubmitQuality(j, S)) \/ Reject(j) \/ KeepTree(j) PROVE OutboxInv'
  BY <1>1, JobsOnly, OutboxSame DEF JobOnly
<1>2. ASSUME NEW j \in Jobs, Reannotate(j) PROVE OutboxInv'
  BY <1>2, OutboxSame DEF Reannotate
<1>3. ASSUME NEW new \in [Tasks -> Inputs \cup {None}], ann' = new,
             UNCHANGED <<tree, qual, qrec, exported, draft, withdrawn>>,
             Publish("annotation", {t \in Tasks : new[t] # ann[t]})
      PROVE  OutboxInv'
  <2>1. /\ DOMAIN event' = DOMAIN event \cup {"annotation"}
        /\ Announced("annotation")' = Announced("annotation") \cup {t \in Tasks : new[t] # ann[t]}
        /\ Announced("tree")' = Announced("tree")
    <3> DEFINE told == {t \in Tasks : new[t] # ann[t]}
    <3>1. told \in SUBSET Tasks /\ "annotation" \in Kinds /\ Publish("annotation", told)
      BY <1>3 DEF Kinds
    <3> HIDE DEF told
    <3>2. /\ DOMAIN event' = DOMAIN event \cup {"annotation"}
          /\ \A e : Announced(e)' = Announced(e) \cup (IF e = "annotation" THEN told ELSE {})
      BY <3>1, Publishes
    <3>3. Announced("annotation")' = Announced("annotation") \cup told /\ Announced("tree")' = Announced("tree")
      BY <3>2
    <3> QED BY <3>2, <3>3 DEF told
  <2> QED BY <1>3, <2>1 DEF OutboxInv, Sourced, Followed, Recorded, Unmarked, Counted
<1>4. ASSUME NEW j \in Jobs, NEW new \in [Tasks -> Inputs \cup {None}], PublishAnnotation(j, new)
      PROVE  OutboxInv'
  BY <1>3, <1>4 DEF PublishAnnotation
<1>5. ASSUME NEW S \in SUBSET Tasks, ConvertOnly(S) PROVE OutboxInv'
  <2> DEFINE new == [t \in Tasks |-> IF t \in S THEN None ELSE ann[t]]
  <2>1. S = {t \in Tasks : new[t] # ann[t]} /\ new \in [Tasks -> Inputs \cup {None}]
    BY <1>5 DEF ConvertOnly, ResultsTypeOK
  <2>2. Publish("annotation", {t \in Tasks : new[t] # ann[t]})
    BY <1>5, <2>1 DEF ConvertOnly
  <2> QED BY <1>3, <1>5, <2>1, <2>2 DEF ConvertOnly
<1>6. ASSUME NEW j \in Jobs, NEW build \in [Tasks -> Builds], MergeTree(j, build) PROVE OutboxInv'
  <2> DEFINE S == Selected(j)
             new(t) == [src |-> job[j].input[t], build |-> build[t]]
  <2>1. S \subseteq Tasks /\ \A t \in S : tree'[t] = new(t) /\ new(t).src = ann[t] /\ new(t) # None /\ ann[t] # None
    <3>1. ASSUME NEW t \in S PROVE t \in Tasks /\ tree'[t] = new(t) /\ new(t).src = ann[t] /\ new(t) \in Tree
                                   /\ ann[t] \in Inputs
      BY <1>6, <3>1, TreeJob DEF MergeTree, Tree, Selected
    <3> QED BY <3>1, ConstantsAssumption
  <2>2. \A t \in Tasks \ S : tree'[t] = CurrentTree[t]
    BY <1>6 DEF MergeTree, OtherTrees
  <2> DEFINE told == {t \in S : CurrentTree[t] # new(t)}
  <2>3. told = {t \in S : CurrentTree[t] # tree'[t]}
    BY <2>1
  <2>4. Publish("tree", told)
    <3>1. told = {t \in S : CurrentTree[t] # [u \in Tasks |-> IF u \in S THEN new(u) ELSE OtherTrees(S)[u]][t]}
      BY <2>1
    <3> QED BY <1>6, <3>1 DEF MergeTree
  <2> HIDE DEF S, new, told
  <2>5. /\ DOMAIN event' = DOMAIN event \cup {"tree"}
        /\ Announced("annotation")' = Announced("annotation")
        /\ Announced("tree")' = Announced("tree") \cup told
    <3>1. told \in SUBSET Tasks /\ "tree" \in Kinds
      BY <2>1, <2>3 DEF Kinds
    <3>2. /\ DOMAIN event' = DOMAIN event \cup {"tree"}
          /\ \A e : Announced(e)' = Announced(e) \cup (IF e = "tree" THEN told ELSE {})
      BY <2>4, <3>1, Publishes
    <3> QED BY <3>2
  <2>6. /\ UNCHANGED <<ann, qual, qrec, exported, draft>>
        /\ \A t \in Tasks : t \in withdrawn' <=> t \in withdrawn \/ (tree[t] # None /\ tree'[t] = None)
    BY <1>6 DEF MergeTree
  <2>7. \A t \in Tasks : CurrentTree[t] = IF tree[t] # None /\ tree[t].src = ann[t] THEN tree[t] ELSE None
    BY DEF CurrentTree
  <2> QED BY <2>1, <2>2, <2>3, <2>5, <2>6, <2>7 DEF OutboxInv, Sourced, Followed, Recorded, Unmarked, Counted
<1>7. ASSUME NEW j \in Jobs, MergeQuality(j) PROVE OutboxInv'
  <2> DEFINE S == Selected(j)
  <2>1. \A t \in Tasks : qual'[t] \in {qual[t], None} \/ (qual'[t] = tree[t] /\ tree[t] # None)
    <3>1. ASSUME NEW t \in S PROVE job[j].input[t] = tree[t] /\ tree[t] # None
      BY <1>7, <3>1, QualityJob, ConstantsAssumption DEF MergeQuality
    <3>2. \A t \in Tasks : CurrentQuality[t] \in {qual[t], None}
      BY DEF CurrentQuality
    <3> QED BY <1>7, <3>1, <3>2 DEF MergeQuality
  <2>2. Publish("quality", {t \in S : CurrentQuality[t] = None}) /\ S \subseteq Tasks
    BY <1>7 DEF MergeQuality, Selected
  <2>3. /\ DOMAIN event' = DOMAIN event \cup {"quality"}
        /\ Announced("annotation")' = Announced("annotation")
        /\ Announced("tree")' = Announced("tree")
    <3> DEFINE told == {t \in S : CurrentQuality[t] = None}
    <3>1. told \in SUBSET Tasks /\ "quality" \in Kinds /\ Publish("quality", told)
      BY <2>2 DEF Kinds
    <3> HIDE DEF told
    <3>2. /\ DOMAIN event' = DOMAIN event \cup {"quality"}
          /\ \A e : Announced(e)' = Announced(e) \cup (IF e = "quality" THEN told ELSE {})
      BY <3>1, Publishes
    <3> QED BY <3>2
  <2>4. UNCHANGED <<ann, tree, qrec, exported, draft, withdrawn>>
    BY <1>7 DEF MergeQuality
  <2> QED BY <2>1, <2>3, <2>4 DEF OutboxInv, Sourced, Followed, Recorded, Unmarked, Counted
<1>8. CASE ReconcileAnnotation
  <2>1. affected' \subseteq Announced("annotation")
    BY <1>8 DEF ReconcileAnnotation, ChangedInput, PlaceInv, Announced
  <2> QED BY <1>8, <2>1 DEF ReconcileAnnotation, OutboxInv, Sourced, Followed, Recorded, Unmarked, Counted,
          Announced
<1>9. CASE ReconcileTree \/ ReconcileQuality
  BY <1>9, OutboxSame DEF ReconcileTree, ReconcileQuality
<1>10. CASE PruneQuality
  BY <1>10 DEF PruneQuality, OutboxInv, Sourced, Followed, Recorded, Unmarked, Counted, Announced
<1>11. CASE WriteRecords
  BY <1>11 DEF WriteRecords, OutboxInv, Sourced, Followed, Recorded, Unmarked, Counted, Announced
<1>12. ASSUME NEW S \in SUBSET affected, DeleteRecords(S) PROVE OutboxInv'
  <2>1. \A t \in S : qual[t] = None
    BY <1>12 DEF DeleteRecords, PlaceInv, AnnotationInv, TreeInv, ResultsTypeOK, Kinds
  <2> QED BY <1>12, <2>1 DEF DeleteRecords, OutboxInv, Sourced, Followed, Recorded, Unmarked, Counted, Announced
<1>13. CASE NotifyDraft
  <2>1. \A t \in Tasks : Unmarked(t)' \in {Unmarked(t), None}
    BY <1>13 DEF NotifyDraft, Unmarked, ResultsTypeOK, Groups
  <2> QED BY <1>13, <2>1 DEF NotifyDraft, OutboxInv, Sourced, Followed, Recorded, Counted, Announced
<1>14. CASE NotifyExports
  <2>1. /\ UNCHANGED <<ann, tree, qual, qrec, draft, event>>
        /\ \A t \in Tasks : exported'[t] \in {exported[t], None}
    BY <1>14 DEF NotifyExports
  <2>2. ASSUME NEW t \in Tasks, t \in withdrawn, t \notin withdrawn' PROVE tree[t] = None /\ Followed(t)'
    <3>1. branch = "annotation" /\ pc = "exports" /\ t \in affected /\ exported'[t] = None
      BY <1>14, <2>2 DEF NotifyExports, Notified
    <3> QED BY <2>1, <3>1 DEF AnnotationInv, Followed, Unmarked
  <2>3. withdrawn' \subseteq withdrawn
    BY <1>14 DEF NotifyExports
  <2> QED BY <2>1, <2>2, <2>3 DEF OutboxInv, Sourced, Followed, Recorded, Unmarked, Counted,
          Announced
<1>15. CASE Clear
  BY <1>15 DEF Clear, LastInv, OutboxInv, Sourced, Followed, Recorded, Unmarked, Counted, Announced
<1>16. CASE CreateSession
  <2>1. \A t \in Tasks : Unmarked(t)' \in {tree[t], None}
    BY <1>16 DEF CreateSession, Unmarked
  <2> QED BY <1>16, <2>1 DEF CreateSession, OutboxInv, Sourced, Followed, Recorded, Counted, Announced
<1>17. ASSUME NEW full \in BOOLEAN, Export(full) PROVE OutboxInv'
  <2>1. \A t \in Tasks : exported'[t] = Unmarked(t)
    BY <1>17 DEF Export, Unmarked
  <2> QED BY <1>17, <2>1 DEF Export, OutboxInv, Sourced, Followed, Recorded, Unmarked, Counted, Announced
<1>18. CASE Release \/ Crash \/ Raise \/ Startup
  BY <1>18, OutboxSame DEF Release, Crash, Raise, Startup
<1> QED BY <1>1, <1>2, <1>4, <1>5, <1>6, <1>7, <1>8, <1>9, <1>10, <1>11, <1>12, <1>13, <1>14, <1>15, <1>16,
          <1>17, <1>18 DEF Next, JobStep, Drain

-----------------------------------------------------------------------------
(* What a pass of the drain has done. *)

LEMMA AtRest ==
  ASSUME branch' = "none", pc' # "clear" PROVE DrainInv'
  BY DEF DrainInv, AnnotationInv, TreeInv, LastInv, Kinds

LEMMA Published ==
  ASSUME ResultsTypeOK, OutboxInv', NEW k \in Kinds, NEW tasks \in SUBSET Tasks, Publish(k, tasks)
  PROVE  DrainInv'
<1>1. DOMAIN event' = DOMAIN event \cup {k} /\ DOMAIN event' \subseteq Kinds /\ Enter(DOMAIN event')
  BY Publishes
<1> QED BY <1>1, Restarts

LEMMA AnnotationBranch ==
  ASSUME ResultsTypeOK, OutboxInv, PlaceInv, AnnotationInv, ReconcileAnnotation
  PROVE  AnnotationInv'
<1> SUFFICES ASSUME NEW t \in Tasks, t \notin affected', Counted(t)' PROVE Remains(t)'
  BY DEF ReconcileAnnotation, AnnotationInv, results
<1>1. /\ UNCHANGED <<ann, qual, qrec, exported, draft, event>> /\ tree'[t] = tree[t]
      /\ t \in withdrawn' <=> t \in withdrawn
  BY DEF ReconcileAnnotation
<1>2. Announced("annotation") = event["annotation"]
  BY DEF ReconcileAnnotation, PlaceInv, Announced
<1>3. Sourced(t) /\ (t \in Announced("annotation") /\ tree[t] = None => ann[t] = None)
  BY <1>2 DEF ReconcileAnnotation, ChangedInput, OutboxInv, Sourced
<1>4. tree[t] = None => Followed(t)
  BY <1>1, <1>3 DEF OutboxInv, Counted
<1>5. tree[t] # None => Followed(t) \/ t \in Announced("tree")
  BY DEF OutboxInv, Counted
<1> QED BY <1>1, <1>3, <1>4, <1>5 DEF Remains, Sourced, Followed, Unmarked, Announced

LEMMA TreeBranch ==
  ASSUME ResultsTypeOK, TreeInv, ReconcileTree PROVE TreeInv'
  BY DEF ReconcileTree, TreeInv, Remains, Sourced, Followed, Unmarked, Announced, Counted, CurrentTree, results

LEMMA PruneKeeps ==
  ASSUME ResultsTypeOK, PlaceInv, DrainInv, PruneQuality PROVE DrainInv'
<1>1. AnnotationInv'
  BY DEF DrainInv, PruneQuality, AnnotationInv, Remains, Sourced, Followed, Unmarked, Announced, Counted
<1>2. TreeInv'
  BY DEF DrainInv, PruneQuality, TreeInv, Remains, Sourced, Followed, Unmarked, Announced, Counted, CurrentTree
<1>3. LastInv'
  BY DEF PruneQuality, PlaceInv, LastInv
<1> QED BY <1>1, <1>2, <1>3 DEF DrainInv

LEMMA WriteKeeps ==
  ASSUME ResultsTypeOK, PlaceInv, DrainInv, WriteRecords PROVE DrainInv'
<1>1. AnnotationInv'
  BY DEF DrainInv, WriteRecords, AnnotationInv, Remains, Sourced, Followed, Unmarked, Announced, Counted
<1>2. TreeInv'
  BY DEF DrainInv, WriteRecords, TreeInv, Remains, Sourced, Followed, Unmarked, Announced, Counted, CurrentTree
<1>3. LastInv'
  BY DEF DrainInv, WriteRecords, LastInv, Recorded, Sourced, Followed, Unmarked, Counted
<1> QED BY <1>1, <1>2, <1>3 DEF DrainInv

LEMMA DeleteKeeps ==
  ASSUME ResultsTypeOK, PlaceInv, DrainInv, NEW S \in SUBSET affected, DeleteRecords(S) PROVE DrainInv'
<1>1. AnnotationInv'
  BY DEF DrainInv, DeleteRecords, AnnotationInv, Remains, Sourced, Followed, Unmarked, Announced, Counted
<1>2. TreeInv'
  BY DEF DrainInv, DeleteRecords, TreeInv, Remains, Sourced, Followed, Unmarked, Announced, Counted, CurrentTree
<1>3. LastInv'
  BY DEF DrainInv, DeleteRecords, PlaceInv, LastInv, Recorded, Sourced, Followed, Unmarked, Counted
<1> QED BY <1>1, <1>2, <1>3 DEF DrainInv

LEMMA NotifyKeeps ==
  ASSUME ResultsTypeOK, PlaceInv, DrainInv, NotifyDraft PROVE DrainInv'
<1>1. \A t \in Tasks : /\ Unmarked(t)' \in {Unmarked(t), None}
                       /\ t \in Notified => Unmarked(t)' = None
  BY DEF NotifyDraft, Unmarked, ResultsTypeOK, Groups
<1>2. AnnotationInv'
  BY <1>1 DEF DrainInv, NotifyDraft, Notified, AnnotationInv, Remains, Sourced, Followed, Announced, Counted
<1>3. TreeInv'
  BY <1>1 DEF DrainInv, NotifyDraft, Notified, TreeInv, Remains, Sourced, Followed, Announced, Counted, CurrentTree
<1>4. LastInv'
  BY <1>1 DEF DrainInv, NotifyDraft, LastInv, Recorded, Sourced, Followed, Counted
<1> QED BY <1>2, <1>3, <1>4 DEF DrainInv

\* The end of a branch: everything is in line but what the rest of the event is about.
LEMMA BranchEnds ==
  ASSUME ResultsTypeOK, OutboxInv, PlaceInv, DrainInv, NotifyExports PROVE DrainInv'
<1> DEFINE rest == DOMAIN event \cap (CASE branch = "annotation" -> {"tree", "quality"}
                                        [] branch = "tree" -> {"quality"}
                                        [] branch = "quality" -> {})
<1>1. rest \in SUBSET Kinds /\ Enter(rest) /\ "annotation" \notin rest
  BY DEF NotifyExports, PlaceInv, ResultsTypeOK, Kinds
<1>2. /\ UNCHANGED <<ann, tree, qual, qrec, draft, event>>
      /\ \A t \in Tasks : t \notin affected \/ branch # "annotation" => (t \in withdrawn' <=> t \in withdrawn)
      /\ \A t \in Tasks : exported'[t] = IF t \in Notified THEN None ELSE exported[t]
  BY DEF NotifyExports
<1>3. branch \in DOMAIN event /\ branch \in Kinds /\ pc = "exports"
  BY DEF NotifyExports, PlaceInv, ResultsTypeOK
<1>4. ASSUME NEW t \in Tasks, Counted(t)', branch = "annotation" PROVE Remains(t)'
  <2>1. CASE t \in affected
    BY <1>2, <1>3, <1>4, <2>1 DEF DrainInv, AnnotationInv, Notified, Remains, Sourced, Followed, Unmarked
  <2>2. CASE t \notin affected
    BY <1>2, <1>3, <1>4, <2>2 DEF DrainInv, AnnotationInv, Notified, Remains, Sourced, Followed, Unmarked, Counted,
       Announced
  <2> QED BY <2>1, <2>2
<1>5. ASSUME NEW t \in Tasks, Counted(t)', branch = "tree" PROVE Sourced(t)' /\ Followed(t)'
  <2>1. Sourced(t) /\ (Followed(t) \/ t \in event["tree"]) /\ qrec[t] \in {None, tree[t]}
    BY <1>2, <1>3, <1>5 DEF DrainInv, TreeInv, Remains, Announced, Counted
  <2>2. Followed(t) \/ (qual[t] \in {None, CurrentTree[t]} /\ Unmarked(t) = None /\ t \in Notified)
    BY <1>3, <1>5, <2>1 DEF DrainInv, TreeInv, Notified
  <2>3. CurrentTree[t] = tree[t]
    BY <2>1 DEF CurrentTree, Sourced
  <2> QED BY <1>2, <2>1, <2>2, <2>3 DEF Sourced, Followed, Unmarked
<1>6. ASSUME NEW t \in Tasks, Counted(t)', branch = "quality" PROVE Sourced(t)' /\ Followed(t)'
  BY <1>2, <1>3, <1>6 DEF DrainInv, LastInv, Sourced, Followed, Unmarked, Counted
<1>7. ASSUME NEW t \in Tasks, Counted(t)' PROVE Remains(t)'
  BY <1>3, <1>4, <1>5, <1>6, <1>7 DEF Remains, Kinds
<1>8. ASSUME "tree" \notin rest, NEW t \in Tasks, Counted(t)' PROVE Sourced(t)' /\ Followed(t)'
  <2>1. CASE branch = "annotation"
    BY <1>2, <1>4, <1>8, <2>1 DEF Remains, Announced
  <2> QED BY <1>3, <1>5, <1>6, <1>8, <2>1 DEF Kinds
<1>9. ASSUME rest = {}, NEW t \in Tasks PROVE Recorded(t)'
  <2>1. CASE branch = "quality"
    BY <1>2, <1>3, <2>1 DEF DrainInv, LastInv, Recorded
  <2>2. CASE branch # "quality"
    BY <1>2, <1>3, <1>9, <2>2 DEF OutboxInv, Recorded, Kinds
  <2> QED BY <2>1, <2>2
<1> HIDE DEF rest
<1> QED BY <1>1, <1>7, <1>8, <1>9, PassBegins

LEMMA DrainKept ==
  ASSUME ResultsInv, Next, OutboxInv' PROVE DrainInv'
<1>1. ResultsTypeOK /\ OutboxInv /\ PlaceInv /\ DrainInv
  BY DEF ResultsInv
<1> USE DEF drain
<1>2. ASSUME NEW j \in Jobs, SubmitAnnotation(j) \/ (\E S \in SUBSET Tasks : SubmitTree(j, S) \/
        SubmitQuality(j, S)) \/ Reject(j) \/ KeepTree(j) PROVE DrainInv'
  <2>1. pc = "idle" /\ JobOnly
    BY <1>1, <1>2, JobsOnly DEF SubmitAnnotation, SubmitTree, SubmitQuality, Submit, Reject, KeepTree, Idle
  <2> QED BY <1>1, <2>1, AtRest DEF JobOnly, PlaceInv
<1>3. ASSUME NEW j \in Jobs, Reannotate(j) PROVE DrainInv'
  <2>1. DOMAIN event # {} /\ DOMAIN event \subseteq Kinds
    BY <1>1, <1>3 DEF Reannotate, Idle, PlaceInv, ResultsTypeOK, NoEvent
  <2> QED BY <1>3, <2>1, Restarts DEF Reannotate
<1>4. ASSUME NEW j \in Jobs, NEW new \in [Tasks -> Inputs \cup {None}], PublishAnnotation(j, new)
      PROVE  DrainInv'
  BY <1>1, <1>4, Published DEF PublishAnnotation, Kinds
<1>5. ASSUME NEW S \in SUBSET Tasks, ConvertOnly(S) PROVE DrainInv'
  BY <1>1, <1>5, Published DEF ConvertOnly, Kinds
<1>6. ASSUME NEW j \in Jobs, NEW build \in [Tasks -> Builds], MergeTree(j, build) PROVE DrainInv'
  BY <1>1, <1>6, Published DEF MergeTree, Kinds, Selected
<1>7. ASSUME NEW j \in Jobs, MergeQuality(j) PROVE DrainInv'
  BY <1>1, <1>7, Published DEF MergeQuality, Kinds, Selected
<1>8. CASE ReconcileAnnotation
  BY <1>1, <1>8, AnnotationBranch DEF DrainInv, ReconcileAnnotation, TreeInv, LastInv
<1>9. CASE ReconcileTree
  BY <1>1, <1>9, TreeBranch DEF DrainInv, ReconcileTree, AnnotationInv, LastInv
<1>10. CASE ReconcileQuality
  <2>1. LastInv'
    BY <1>1, <1>10 DEF DrainInv, ReconcileQuality, LastInv, Sourced, Followed, Unmarked, Counted, results
  <2> QED BY <1>10, <2>1 DEF DrainInv, ReconcileQuality, AnnotationInv, TreeInv
<1>11. CASE PruneQuality \/ WriteRecords \/ NotifyDraft \/ \E S \in SUBSET affected : DeleteRecords(S)
  BY <1>1, <1>11, PruneKeeps, WriteKeeps, NotifyKeeps, DeleteKeeps
<1>12. CASE NotifyExports
  BY <1>1, <1>12, BranchEnds
<1>13. CASE Clear
  BY <1>1, <1>13, AtRest DEF Clear, PlaceInv
<1>14. CASE CreateSession \/ Release \/ \E full \in BOOLEAN : Export(full)
  BY <1>1, <1>14, AtRest DEF CreateSession, Release, Export, Idle, PlaceInv
<1>15. CASE Crash \/ Raise
  BY <1>15, AtRest DEF Crash, Raise
<1>16. CASE Startup
  <2>1. CASE event = NoEvent
    BY <1>1, <1>16, <2>1, AtRest DEF Startup, PlaceInv
  <2>2. CASE event # NoEvent
    <3>1. DOMAIN event # {} /\ DOMAIN event \subseteq Kinds
      BY <1>1, <1>16, <2>2 DEF Startup, PlaceInv, ResultsTypeOK, NoEvent
    <3> QED BY <1>16, <2>2, <3>1, Restarts DEF Startup
  <2> QED BY <2>1, <2>2
<1> QED BY <1>2, <1>3, <1>4, <1>5, <1>6, <1>7, <1>8, <1>9, <1>10, <1>11, <1>12, <1>13, <1>14, <1>15, <1>16
    DEF Next, JobStep, Drain

-----------------------------------------------------------------------------
(* Releases. *)

LEMMA Settled ==
  ASSUME ResultsTypeOK, OutboxInv, DOMAIN event = {}, NEW t \in Tasks
  PROVE  tree[t] = CurrentTree[t] /\ (Counted(t) => InLine(t))
<1>1. Sourced(t) /\ Recorded(t) /\ (Counted(t) => Followed(t))
  BY DEF OutboxInv, Announced
<1>2. tree[t] = CurrentTree[t]
  BY <1>1 DEF CurrentTree, Sourced, ResultsTypeOK
<1>3. Counted(t) => qual[t] = CurrentQuality[t]
  BY <1>1, <1>2 DEF CurrentQuality, Followed
<1>4. Counted(t) => (draft[t] # None /\ ~draft[t].stale => draft[t].tree = tree[t])
  <2>1. draft[t] # None => draft[t].tree # None
    BY ConstantsAssumption DEF ResultsTypeOK, Groups
  <2> QED BY <1>1, <2>1 DEF Followed, Unmarked
<1> QED BY <1>1, <1>2, <1>3, <1>4 DEF Recorded, Followed, InLine

LEMMA ReleaseKept == ResultsInv /\ Next => PublishedIsCurrent'
<1> SUFFICES ASSUME ResultsInv, Next PROVE PublishedIsCurrent'
  OBVIOUS
<1> USE DEF results, drain
<1>1. CASE ~published'
  BY <1>1 DEF PublishedIsCurrent
<1>2. CASE Release
  <2> SUFFICES ASSUME NEW t \in Tasks
               PROVE  /\ dataset[t] # None /\ dataset[t].tree = qual[t]
                      /\ qual[t] = tree[t] /\ tree[t].src = ann[t]
    BY <1>2 DEF Release, PublishedIsCurrent
  <2>1. CurrentQuality[t] # None /\ draft[t] # None /\ ~draft[t].stale /\ dataset = draft
    BY <1>2 DEF Release, ExportIsCurrent
  <2>2. qual[t] = CurrentTree[t] /\ qual[t] # None
    BY <2>1 DEF CurrentQuality
  <2>3. qual[t] = tree[t] /\ tree[t].src = ann[t] /\ tree[t] # None
    BY <2>2 DEF CurrentTree
  <2>4. draft[t].tree = tree[t]
    BY <1>2, <2>1, <2>3, Settled DEF Release, NothingPending, NoEvent, ResultsInv, Counted, InLine
  <2> QED BY <2>1, <2>3, <2>4
<1>3. CASE published
  <2>1. DOMAIN event = {} /\ pc \in {"idle", "down"} /\ branch = "none"
    BY <1>3 DEF ResultsInv, PlaceInv
  <2>2. UNCHANGED <<ann, tree, qual, dataset>>
    <3>1. ~Idle
      BY <1>3 DEF Idle
    <3>2. ASSUME NEW j \in Jobs, JobStep(j) PROVE UNCHANGED <<ann, tree, qual, dataset>>
      BY <3>1, <3>2 DEF JobStep, SubmitAnnotation, Reannotate, Reject, KeepTree, MergeQuality, SubmitTree,
         SubmitQuality, Submit, PublishAnnotation, MergeTree
    <3>3. ~Drain
      BY <2>1 DEF Drain, ReconcileAnnotation, ReconcileTree, ReconcileQuality, PruneQuality, WriteRecords,
         DeleteRecords, NotifyDraft, NotifyExports, Clear
    <3> QED BY <3>1, <3>2, <3>3 DEF Next, ConvertOnly, CreateSession, Release, Export, Crash, Raise, Startup
  <2> QED BY <1>3, <2>2 DEF ResultsInv, PublishedIsCurrent
<1>4. published' = published \/ Release
  <2>1. ASSUME NEW j \in Jobs, JobStep(j) PROVE published' = published
    BY <2>1 DEF JobStep, SubmitAnnotation, Reannotate, Reject, KeepTree, MergeQuality, SubmitTree, SubmitQuality,
       Submit, PublishAnnotation, MergeTree
  <2>2. Drain => published' = published
    BY DEF Drain, ReconcileAnnotation, ReconcileTree, ReconcileQuality, PruneQuality, WriteRecords, DeleteRecords,
       NotifyDraft, NotifyExports, Clear
  <2> QED BY <2>1, <2>2 DEF Next, ConvertOnly, CreateSession, Export, Crash, Raise, Startup
<1> QED BY <1>1, <1>2, <1>3, <1>4 DEF ResultsInv, ResultsTypeOK

-----------------------------------------------------------------------------
LEMMA ResultsKept == ResultsInv /\ [Next]_vars => ResultsInv'
<1>1. ResultsInv /\ Next => ResultsInv'
  BY TypesKept, OutboxKept, PlaceKept, DrainKept, ReleaseKept DEF ResultsInv
<1>2. ResultsInv /\ UNCHANGED vars => ResultsInv'
  <2> SUFFICES ASSUME ResultsInv, UNCHANGED vars PROVE ResultsInv'
    OBVIOUS
  <2> USE DEF vars, results, drain, ResultsInv
  <2>1. ResultsTypeOK' /\ PlaceInv' /\ PublishedIsCurrent'
    BY DEF ResultsTypeOK, PlaceInv, PublishedIsCurrent
  <2>2. OutboxInv'
    BY OutboxSame
  <2>3. DrainInv'
    BY DEF DrainInv, AnnotationInv, TreeInv, LastInv, Sourced, Followed, Recorded, Remains, Unmarked, Counted,
       Announced, CurrentTree
  <2> QED BY <2>1, <2>2, <2>3
<1> QED BY <1>1, <1>2

\* The inductive invariant of a batch's results (batch_results.py, service.py).
THEOREM ResultsInvariance == Spec => []ResultsInv
BY ResultsStart, ResultsKept, PTL DEF Spec

\* NothingBehind: when nothing is pending, nothing is derived from an old source, but
\* for a dropped task whose drain a fault cut off (drain_batch_invalidations).
THEOREM Behind == Spec => []NothingBehind
<1>1. ResultsInv => NothingBehind
  <2> SUFFICES ASSUME ResultsInv, event = NoEvent
               PROVE  UpToDate /\ (faults = 0 => \A t \in Tasks : InLine(t))
    BY DEF NothingBehind
  <2>1. ASSUME NEW t \in Tasks PROVE tree[t] = CurrentTree[t] /\ (LeftBehind(t) \/ InLine(t))
    BY <2>1, Settled DEF ResultsInv, Counted, LeftBehind, NoEvent
  <2>2. tree = CurrentTree
    BY <2>1 DEF ResultsInv, ResultsTypeOK, CurrentTree
  <2>3. faults = 0 => withdrawn = {}
    BY DEF ResultsInv, PlaceInv, NoEvent
  <2> QED BY <2>1, <2>2, <2>3 DEF UpToDate, LeftBehind
<1> QED BY <1>1, ResultsInvariance, PTL

\* PublishedIsCurrent: what a release froze is the judged result of the final
\* annotations, and stays so (batch_lifecycle.ensure_publishable).
THEOREM ReleaseIsCurrent == Spec => []PublishedIsCurrent
<1>1. ResultsInv => PublishedIsCurrent
  BY DEF ResultsInv
<1> QED BY <1>1, ResultsInvariance, PTL

-----------------------------------------------------------------------------
(* What an update of some tasks leaves of the others. *)

TreeStays(t) == CurrentTree[t] # None /\ ann'[t] = ann[t] => CurrentTree'[t] # None
QualityStays(t) ==
  CurrentQuality[t] # None /\ CurrentTree'[t] = CurrentTree[t] => CurrentQuality'[t] = CurrentQuality[t]

\* The tree of a task is replaced by one of its annotation, or it was not current.
LEMMA TreesStay ==
  ASSUME ResultsInv, Next, NEW t \in Tasks PROVE TreeStays(t)
<1> USE DEF results
<1>1. ASSUME tree'[t] = tree[t] PROVE TreeStays(t)
  BY <1>1 DEF TreeStays, CurrentTree
<1>2. ASSUME NEW j \in Jobs, NEW build \in [Tasks -> Builds], MergeTree(j, build) PROVE TreeStays(t)
  <2>1. CASE t \in Selected(j)
    <3>1. job[j].input[t] = ann[t] /\ ann[t] \in Inputs
      BY <1>2, <2>1, TreeJob DEF MergeTree, ResultsInv
    <3>2. tree'[t] = [src |-> job[j].input[t], build |-> build[t]] /\ tree'[t] \in Tree
      BY <1>2, <2>1, <3>1 DEF MergeTree, Tree
    <3>3. tree'[t] # None /\ tree'[t].src = ann[t]
      BY <3>1, <3>2, ConstantsAssumption
    <3> QED BY <3>3 DEF TreeStays, CurrentTree
  <2>2. CASE t \notin Selected(j)
    BY <1>2, <2>2 DEF MergeTree, OtherTrees, TreeStays, CurrentTree
  <2> QED BY <2>1, <2>2
<1>3. CASE ReconcileAnnotation
  BY <1>3 DEF ReconcileAnnotation, ChangedInput, TreeStays, CurrentTree
<1>4. ASSUME NEW j \in Jobs, JobStep(j), ~\E build \in [Tasks -> Builds] : MergeTree(j, build)
      PROVE  tree' = tree
  BY <1>4 DEF JobStep, SubmitAnnotation, Reannotate, Reject, KeepTree, MergeQuality, SubmitTree, SubmitQuality,
     Submit, PublishAnnotation
<1>5. Drain => tree' = tree \/ ReconcileAnnotation
  BY DEF Drain, ReconcileTree, ReconcileQuality, PruneQuality, WriteRecords, DeleteRecords, NotifyDraft,
     NotifyExports, Clear
<1> QED BY <1>1, <1>2, <1>3, <1>4, <1>5 DEF Next, ConvertOnly, CreateSession, Release, Export, Crash, Raise, Startup

\* A judgement is withdrawn only from a task whose tree is not the one judged.
LEMMA QualityStaysKept ==
  ASSUME ResultsInv, Next, NEW t \in Tasks PROVE QualityStays(t)
<1> USE DEF results
<1>1. ASSUME qual'[t] = qual[t] PROVE QualityStays(t)
  BY <1>1 DEF QualityStays, CurrentQuality
<1>2. ASSUME NEW j \in Jobs, MergeQuality(j) PROVE QualityStays(t)
  <2>1. CASE t \in Selected(j)
    <3>1. qual'[t] = CurrentTree[t]
      BY <1>2, <2>1, QualityJob DEF MergeQuality, ResultsInv
    <3> QED BY <3>1 DEF QualityStays, CurrentQuality
  <2>2. CASE t \notin Selected(j)
    BY <1>2, <2>2 DEF MergeQuality, QualityStays, CurrentQuality
  <2> QED BY <2>1, <2>2
<1>3. CASE PruneQuality
  <2>1. t \in affected => CurrentQuality[t] = None
    BY <1>3 DEF PruneQuality, ResultsInv, ResultsTypeOK, PlaceInv, DrainInv, AnnotationInv, TreeInv, CurrentQuality,
       CurrentTree, Kinds
  <2> QED BY <1>1, <1>3, <2>1 DEF PruneQuality, QualityStays
<1>4. ASSUME NEW j \in Jobs, JobStep(j), ~MergeQuality(j) PROVE qual' = qual
  BY <1>4 DEF JobStep, SubmitAnnotation, Reannotate, Reject, KeepTree, MergeTree, SubmitTree, SubmitQuality,
     Submit, PublishAnnotation
<1>5. Drain => qual' = qual \/ PruneQuality
  BY DEF Drain, ReconcileAnnotation, ReconcileTree, ReconcileQuality, WriteRecords, DeleteRecords, NotifyDraft,
     NotifyExports, Clear
<1> QED BY <1>1, <1>2, <1>3, <1>4, <1>5 DEF Next, ConvertOnly, CreateSession, Release, Export, Crash, Raise, Startup

\* OthersKept: an update of one task leaves the results of the others
\* (merge_tree_results, merge_quality_results, invalidate_tasks).
THEOREM OthersSafe == Spec => OthersKept
<1>1. ResultsInv /\ [Next]_vars =>
        [\A t \in Tasks :
           /\ CurrentTree[t] # None /\ ann'[t] = ann[t] => CurrentTree'[t] # None
           /\ CurrentQuality[t] # None /\ CurrentTree'[t] = CurrentTree[t]
                => CurrentQuality'[t] = CurrentQuality[t]]_vars
  BY TreesStay, QualityStaysKept DEF TreeStays, QualityStays
<1> QED BY <1>1, ResultsInvariance, PTL DEF Spec, OthersKept
=============================================================================
