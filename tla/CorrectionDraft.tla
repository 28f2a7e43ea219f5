--------------------------- MODULE CorrectionDraft ---------------------------
(***************************************************************************)
(* backend/trajectory_correction: the one draft of a batch, in which people *)
(* correct the selected trajectory of every judged task, and the jobs that  *)
(* generate boxes and reasoning (COT) for what they changed.                *)
(*                                                                         *)
(* Steps are identified by task and trajectory, but edits and generated     *)
(* text are stored by row number, and a new tree renumbers the rows: when   *)
(* a source changes, reconcile carries what still belongs and sets the rest *)
(* aside for review.  A page acts on numbers it read earlier; a job froze   *)
(* its target when it was submitted and saves hours later.                  *)
(*                                                                         *)
(* A trajectory has one step here, and a page works on one row.  A source is *)
(* a trajectory and the fingerprint of the task's input; the workbook, the   *)
(* overlay of a row and the wording of a text are left out.                  *)
(***************************************************************************)
EXTENDS Integers, FiniteSets

CONSTANTS Tasks,      \* a set of numbers, in the order of the table
          Trajs,      \* the trajectories a task may be represented by
          Prints,     \* fingerprints of a task's input
          Judged,     \* the judged sources of the tasks
          Unjudged,   \* a tree without a judgement
          Feed,       \* what the source of each task may become
          First,      \* the sources of the tasks when the draft is made
          Texts,      \* what a person may write as reasoning
          Fields,     \* the fields a person may change
          Pages,      \* open workbenches
          Jobs,
          None,
          MaxMade,    \* bound on publications, writes of people and drains that raise, together
          Requests    \* what a job may be asked for: boxes too, overwriting

Source == [task: Tasks, traj: Trajs, fp: Prints]
Key    == {<<s.task, s.traj>> : s \in Judged}
Edit   == [action: BOOLEAN, box: {"none", "manual", "generated"}, text: Texts \cup {None}, deleted: BOOLEAN]
NoEdit == [action |-> FALSE, box |-> "none", text |-> None, deleted |-> FALSE]
Number == (2 .. 1 + Cardinality(Tasks)) \cup {-n : n \in 2 .. 1 + Cardinality(Tasks)}
Group  == [src: Judged, num: Number]
Text   == [src: Judged, action: BOOLEAN]
Target == [src: Judged, edit: Edit, box: {"none", "manual", "generated"}]

ASSUME DraftAssumption ==
  /\ Tasks \subseteq Nat /\ IsFiniteSet(Tasks)
  /\ Judged \subseteq Source /\ Unjudged \notin Judged
  /\ Feed \in [Tasks -> SUBSET (Judged \cup {Unjudged, None})]
  /\ \A t \in Tasks : \A s \in Feed[t] \cap Judged : s.task = t
  /\ First \subseteq [Tasks -> Judged \cup {Unjudged, None}]
  /\ \A s \in First : \A t \in Tasks : s[t] \in Feed[t]
  /\ None \notin Texts \cup Judged \cup {Unjudged} \cup Group \cup Text \cup Target
  /\ Fields \subseteq {"action", "box", "text", "deleted"}
  /\ Requests \subseteq [bbox: BOOLEAN, force: BOOLEAN]
  /\ MaxMade \in Nat

VARIABLES
  src,      \* the current tree of each task, and its judged trajectory
  due,      \* tasks whose change the draft was not told of
  snap,     \* the draft's snapshot: the group of each task
  stale,    \* stale_tasks
  edits,    \* row_edits, by row number
  cot,      \* the generated text, by row number
  pending,  \* pending_review, by step
  page,     \* the row a workbench shows, and whether its revision is current
  job,
  want,     \* history: what a person last chose for each step
  last,     \* history: the field of a step a person wrote last, if its row was its own
  boxed,    \* history: steps whose row a job alone has written to, beside a copy for review
  made      \* how many publications, writes and drains that raise there were

draft   == <<snap, stale, edits, cot, pending>>
history == <<want, last, boxed>>
draftVars == <<src, due, draft, page, job, history, made>>

NoJob == [status |-> "none", target |-> None, bbox |-> FALSE, force |-> FALSE, step |-> "box"]

KeyOf(t) == <<t, snap[t].src.traj>>

\* The tasks whose row has the number n.
RowsAt(n) == {t \in Tasks : snap[t] # None /\ snap[t].num = n}

Ready == {t \in Tasks : src[t] \in Judged}

\* materialize_tree_inputs: the table has the tasks with a current tree, judged
\* or not, and load_snapshot numbers its rows from 2.
RowNumber(t) == 2 + Cardinality({u \in Tasks : u < t /\ src[u] # None})

DraftInit ==
  /\ src \in First /\ due = {}
  /\ snap = [t \in Tasks |-> None] /\ stale = {}
  /\ edits = [n \in Number |-> NoEdit] /\ cot = [n \in Number |-> None]
  /\ pending = [k \in Key |-> NoEdit]
  /\ page = [c \in Pages |-> None] /\ job = [j \in Jobs |-> NoJob]
  /\ want = [k \in Key |-> NoEdit] /\ last = [k \in Key |-> "none"] /\ boxed = {}
  /\ made = 0

\* Every save takes a new storage_revision, which the other pages do not know.
Saved(by) ==
  page' = [d \in Pages |-> IF page[d] = None \/ d \in by THEN page[d] ELSE [page[d] EXCEPT !.fresh = FALSE]]

-----------------------------------------------------------------------------
(* Upstream: a tree or a judgement is published or dropped.                  *)

\* The edit of a row that is set aside takes the place of an earlier copy.
SetAside(copies, moved, what) ==
  [k \in Key |-> IF k \in moved /\ what[k] # NoEdit THEN what[k] ELSE copies[k]]

\* on_batch_tasks_invalidated: the affected rows lose their text, their edits
\* wait for review, the task is stale until it is judged again.  Of two rows
\* with one number the first one met takes the edits.
TasksInvalidated(tasks) ==
  LET hit == {t \in tasks : snap[t] # None}
      numbers == {snap[t].num : t \in hit}
  IN /\ \E first \in [numbers -> hit] :
          /\ \A n \in numbers : snap[first[n]].num = n
          /\ pending' = SetAside(pending, {KeyOf(first[n]) : n \in numbers},
                                 [k \in Key |-> IF k[1] \in hit THEN edits[snap[k[1]].num] ELSE NoEdit])
     /\ edits' = [n \in Number |-> IF n \in numbers THEN NoEdit ELSE edits[n]]
     /\ cot' = [n \in Number |-> IF n \in numbers THEN None ELSE cot[n]]
     /\ stale' = stale \cup hit
     /\ IF hit = {} THEN page' = page ELSE Saved({})
     /\ UNCHANGED snap

\* The drain tells the draft under the lock of the publication, or when the
\* service starts again, unless it raises: then a later drain does.
SourcePublished(t, s) ==
  /\ made < MaxMade
  /\ s # src[t] /\ src' = [src EXCEPT ![t] = s]
  /\ UNCHANGED <<job, history>>
  /\ \/ TasksInvalidated(due \cup {t}) /\ due' = {} /\ made' = made + 1
     \/ /\ made + 1 < MaxMade /\ made' = made + 2
        /\ due' = due \cup {t} /\ UNCHANGED <<draft, page>>

Drain == /\ due # {} /\ TasksInvalidated(due) /\ due' = {}
         /\ UNCHANGED <<src, job, history, made>>

-----------------------------------------------------------------------------
(* reconcile. *)

\* Groups of tasks that are not judged are kept while they are stale, under
\* negative numbers.
NewSnapshot ==
  [t \in Tasks |->
     IF t \in Ready THEN [src |-> src[t], num |-> RowNumber(t)]
     ELSE IF t \in stale /\ snap[t] # None
          THEN [snap[t] EXCEPT !.num = IF @ > 0 THEN -@ ELSE @]
          ELSE None]

\* Mutant of Carried: a row is recognised by its number.
CarriedByNumber(t) == t \notin stale /\ t \in Ready /\ snap[t].num = RowNumber(t)

\* The step is still there, from the same input, and its task is not stale.
Carried(t) == t \notin stale /\ snap[t].src = src[t]

Reconcile ==
  LET old == {t \in Tasks : snap[t] # None}
      new == NewSnapshot
      kept == {t \in old : Carried(t)}
      from(n) == CHOOSE t \in kept : new[t].num = n
      fill(rows, empty) ==
        [n \in Number |-> IF \E t \in kept : new[t].num = n THEN rows[snap[from(n)].num] ELSE empty]
  IN /\ snap' = new
     /\ edits' = fill(edits, NoEdit)
     /\ cot' = fill(cot, None)
     /\ pending' = SetAside(pending, {KeyOf(t) : t \in old \ kept},
                            [k \in Key |-> IF k[1] \in old THEN edits[snap[k[1]].num] ELSE NoEdit])
     /\ stale' = stale \ Ready

\* The draft was made from these sources, and nothing in it is stale.
InputUnchanged ==
  /\ stale = {}
  /\ \A t \in Tasks : IF t \in Ready THEN snap[t] = [src |-> src[t], num |-> RowNumber(t)]
                                     ELSE snap[t] = None

\* get_session and create_session: a workbench is opened, or loaded again.
\* With no judged task the draft is shown as it is.
OpenPage(c, t) ==
  /\ \/ Ready # {} /\ ~InputUnchanged /\ Reconcile
     \/ (Ready = {} \/ InputUnchanged) /\ UNCHANGED draft
  /\ snap'[t] # None
  /\ page' = [d \in Pages |->
                IF d = c THEN [task |-> t, traj |-> snap'[t].src.traj, num |-> snap'[t].num, fresh |-> TRUE]
                ELSE IF page[d] # None /\ draft' # draft THEN [page[d] EXCEPT !.fresh = FALSE] ELSE page[d]]
  /\ UNCHANGED <<src, due, job, history, made>>

-----------------------------------------------------------------------------
(* What a person does on a page. *)

\* Mutant of CurrentRevision: any page may write.
AnyRevision(c) == page[c] # None

\* _check_revision.
CurrentRevision(c) == page[c] # None /\ page[c].fresh

\* One field of a patch: toggled, or for a text replaced.  Saving the original
\* value drops the edit of an action or a box, but not that of a text.
Written(edit, field, text) ==
  CASE field = "action"  -> [edit EXCEPT !.action = ~@]
    [] field = "deleted" -> [edit EXCEPT !.deleted = ~@]
    [] field = "box"     -> [edit EXCEPT !.box = IF @ = "manual" THEN "none" ELSE "manual"]
    [] field = "text"    -> [edit EXCEPT !.text = text]

\* patch_row: the row is named by its number.  A saved action discards the
\* text generated for the one before.
PatchRow(c, field, text) ==
  LET n == page[c].num
      k == <<page[c].task, page[c].traj>>
      new == Written(edits[n], field, text)
  IN /\ made < MaxMade /\ made' = made + 1
     /\ CurrentRevision(c)
     /\ RowsAt(n) # {}
     /\ edits' = [edits EXCEPT ![n] = new]
     /\ cot' = IF field = "action" THEN [cot EXCEPT ![n] = None] ELSE cot
     /\ want' = [want EXCEPT ![k] = CASE field = "action"  -> [@ EXCEPT !.action = new.action]
                                      [] field = "deleted" -> [@ EXCEPT !.deleted = new.deleted]
                                      [] field = "box"     -> [@ EXCEPT !.box = new.box]
                                      [] field = "text"    -> [@ EXCEPT !.text = new.text]]
     /\ boxed' = IF \E t \in Tasks : RowsAt(n) = {t} THEN boxed \ {k} ELSE boxed
     /\ last' = IF \E t \in Tasks : RowsAt(n) = {t} THEN [last EXCEPT ![k] = field]
                ELSE [l \in Key |-> IF \E t \in RowsAt(n) : l = KeyOf(t) THEN "none" ELSE last[l]]
     /\ Saved({c})
     /\ UNCHANGED <<src, due, snap, stale, pending, job>>

\* {**changes, **row_edits}.
Merged(copy, edit) ==
  [action |-> copy.action \/ edit.action, deleted |-> copy.deleted \/ edit.deleted,
   box |-> IF edit.box # "none" THEN edit.box ELSE copy.box,
   text |-> IF edit.text # None THEN edit.text ELSE copy.text]

Reviews(t) == {k \in Key : k[1] = t /\ pending[k] # NoEdit}

\* review_group, adopt: every copy of the task belongs to its current step.
Adopt(c, t) ==
  LET n == snap[t].num
      k == KeyOf(t)
      new == Merged(pending[k], edits[n])
  IN /\ CurrentRevision(c) /\ snap[t] # None
     /\ Reviews(t) = {k} /\ t \notin stale
     /\ edits' = [edits EXCEPT ![n] = new]
     /\ cot' = [cot EXCEPT ![n] = None]
     /\ pending' = [pending EXCEPT ![k] = NoEdit]
     /\ want' = [want EXCEPT ![k] = [new EXCEPT !.box = IF @ = "generated" THEN "none" ELSE @]]
     /\ boxed' = boxed \ {k}
     /\ Saved({c})
     /\ UNCHANGED <<src, due, snap, stale, job, last, made>>

\* review_group, discard.
Discard(c, t) ==
  /\ CurrentRevision(c) /\ snap[t] # None /\ Reviews(t) # {}
  /\ pending' = [k \in Key |-> IF k[1] = t THEN NoEdit ELSE pending[k]]
  /\ want' = [k \in Key |-> IF k \notin Reviews(t) THEN want[k]
                            ELSE IF snap[t].src.traj = k[2]
                                 THEN [edits[snap[t].num] EXCEPT !.box = IF @ = "generated" THEN "none" ELSE @]
                                 ELSE NoEdit]
  /\ last' = [k \in Key |-> IF k \in Reviews(t) THEN "none" ELSE last[k]]
  /\ boxed' = boxed \ Reviews(t)
  /\ Saved({c})
  /\ UNCHANGED <<src, due, snap, stale, edits, cot, job, made>>

-----------------------------------------------------------------------------
(* COT jobs.  A job has one target here; the targets of a longer one are     *)
(* generated and saved one after the other in the same way.                  *)

InReview(t) == t \in stale \/ \E k \in Key : k[1] = t /\ pending[k] # NoEdit

Request(t, bbox, force) ==
  [target |-> [src |-> snap[t].src, edit |-> edits[snap[t].num], box |-> edits[snap[t].num].box],
   bbox |-> bbox, force |-> force]

\* The same request is answered by the job that runs or succeeded before.
Answered(request) ==
  \E j \in Jobs : /\ job[j].status # "none"
                  /\ [target |-> job[j].target, bbox |-> job[j].bbox, force |-> job[j].force] = request

\* submit and _targets: the chosen row is not deleted and has nothing to
\* review; without force no box or text of a person may be overwritten.
Submit(j, t, bbox, force) ==
  LET request == Request(t, bbox, force)
      edit == request.target.edit
  IN /\ job[j] = NoJob /\ snap[t] # None /\ ~InReview(t) /\ ~edit.deleted
     /\ bbox /\ ~force => edit.box # "manual" /\ edit.text = None
     /\ ~Answered(request)
     /\ job' = [job EXCEPT ![j] = [status |-> "running", target |-> request.target, bbox |-> bbox,
                                   force |-> force, step |-> IF bbox THEN "box" ELSE "text"]]
     /\ UNCHANGED <<src, due, draft, page, history, made>>

TaskOf(j) == job[j].target.src.task

\* _validate_target finds the row its step has now.
SavedRow(j) == snap[TaskOf(j)].num

\* Mutant of Valid: a text is saved for whatever action the row has by now.
ValidSource(j) ==
  LET t == TaskOf(j)
      edit == edits[SavedRow(j)]
  IN /\ t \notin stale /\ snap[t] # None
     /\ snap[t].src = job[j].target.src
     /\ edit.box # "none" => edit.box = job[j].target.box
     /\ ~edit.deleted

\* _validate_target: the task, the step, its box and its action are still
\* those of the target, and it is not deleted.
Valid(j) ==
  LET t == TaskOf(j)
      edit == edits[SavedRow(j)]
  IN /\ t \notin stale /\ snap[t] # None
     /\ snap[t].src = job[j].target.src
     /\ edit.box # "none" => edit.box = job[j].target.box
     /\ ~edit.deleted
     /\ edit.action = job[j].target.edit.action

\* save_bbox: a box changed since the submission is not overwritten.
SaveBox(j) ==
  LET n == SavedRow(j)
      k == KeyOf(TaskOf(j))
  IN /\ job[j].status = "running" /\ job[j].step = "box" /\ Valid(j)
     /\ edits[n].box = job[j].target.edit.box
     /\ edits' = [edits EXCEPT ![n].box = "generated"]
     /\ cot' = [cot EXCEPT ![n] = None]
     /\ job' = [job EXCEPT ![j].step = "text", ![j].target.box = "generated"]
     /\ want' = [want EXCEPT ![k].box = IF edits[n].box = "manual" THEN "none" ELSE @]
     /\ last' = [last EXCEPT ![k] = IF @ = "box" /\ edits[n].box = "manual" THEN "none" ELSE @]
     /\ boxed' = IF edits[n] = NoEdit /\ pending[k] # NoEdit THEN boxed \cup {k} ELSE boxed
     /\ Saved({})
     /\ UNCHANGED <<src, due, snap, stale, pending, made>>

\* Only the text the request was made with gives way to a forced one.
Replaced(j, text) == job[j].force /\ text # None /\ text = job[j].target.edit.text

\* save_cot.
SaveCot(j) ==
  LET k == KeyOf(TaskOf(j))
      n == SavedRow(j)
      gone == Replaced(j, edits[n].text)
  IN /\ job[j].status = "running" /\ job[j].step = "text" /\ Valid(j)
     /\ cot' = [cot EXCEPT ![n] = [src |-> job[j].target.src, action |-> job[j].target.edit.action]]
     /\ edits' = [edits EXCEPT ![n].text = IF gone THEN None ELSE @]
     /\ want' = [want EXCEPT ![k].text = IF gone /\ @ = job[j].target.edit.text THEN None ELSE @]
     /\ last' = [last EXCEPT ![k] = IF @ = "text" /\ want'[k].text = None THEN "none" ELSE @]
     /\ job' = [job EXCEPT ![j].step = "export"]
     /\ Saved({})
     /\ UNCHANGED <<src, due, snap, stale, pending, boxed, made>>

\* publish_cot_snapshot exports the tasks that need no review.
Finish(j) ==
  /\ job[j].status = "running" /\ job[j].step = "export"
  /\ job' = [job EXCEPT ![j] = IF \E t \in Tasks : snap[t] # None /\ ~InReview(t)
                               THEN [@ EXCEPT !.status = "succeeded"] ELSE NoJob]
  /\ UNCHANGED <<src, due, draft, page, history, made>>

\* The target is no longer valid, a model call fails, or the service is started
\* again (mark_interrupted_jobs).  Nothing looks at a failed or an interrupted job again.
Fail(j) ==
  /\ job[j].status = "running"
  /\ job' = [job EXCEPT ![j] = NoJob]
  /\ UNCHANGED <<src, due, draft, page, history, made>>

-----------------------------------------------------------------------------
Person(c) == \/ \E t \in Tasks : OpenPage(c, t) \/ Adopt(c, t) \/ Discard(c, t)
             \/ \E f \in Fields, x \in Texts : PatchRow(c, f, x)

JobStep(j) == \/ \E t \in Tasks, r \in Requests : Submit(j, t, r.bbox, r.force)
              \/ SaveBox(j) \/ SaveCot(j) \/ Finish(j) \/ Fail(j)

DraftNext == \/ \E t \in Tasks : \E s \in Feed[t] : SourcePublished(t, s)
             \/ Drain
             \/ \E c \in Pages : Person(c)
             \/ \E j \in Jobs : JobStep(j)

DraftSpec == DraftInit /\ [][DraftNext]_draftVars
-----------------------------------------------------------------------------
(* Properties. *)

\* Every variable holds what the draft, a job or a page can hold.
DraftTypeOK ==
  /\ src \in [Tasks -> Judged \cup {Unjudged, None}] /\ due \subseteq Tasks
  /\ snap \in [Tasks -> Group \cup {None}] /\ stale \subseteq Tasks
  /\ edits \in [Number -> Edit] /\ cot \in [Number -> Text \cup {None}]
  /\ pending \in [Key -> Edit]
  /\ page \in [Pages -> [task: Tasks, traj: Trajs, num: Number, fresh: BOOLEAN] \cup {None}]
  /\ job \in [Jobs -> [status: {"none", "running", "succeeded"},
                       target: Target \cup {None}, bbox: BOOLEAN, force: BOOLEAN,
                       step: {"box", "text", "export"}]]
  /\ want \in [Key -> Edit] /\ last \in [Key -> Fields \cup {"none"}] /\ boxed \subseteq Key
  /\ made \in Nat

\* The value of a field that an edit carries, and whether it carries one.
Carries(edit, field, wanted) ==
  CASE field = "action"  -> edit.action
    [] field = "deleted" -> edit.deleted
    [] field = "box"     -> edit.box = wanted.box
    [] field = "text"    -> edit.text = wanted.text

Chosen(wanted, field) ==
  CASE field = "action"  -> wanted.action
    [] field = "deleted" -> wanted.deleted
    [] field = "box"     -> wanted.box = "manual"
    [] field = "text"    -> wanted.text # None
    [] field = "none"    -> FALSE

Holds(k, field) ==
  \/ snap[k[1]] # None /\ KeyOf(k[1]) = k /\ Carries(edits[snap[k[1]].num], field, want[k])
  \/ Carries(pending[k], field, want[k])

\* What a person wrote last on a step is in the draft of that step or in its
\* review copy until a person discards it, whatever is renumbered, invalidated,
\* reconciled or restarted meanwhile.  The one thing that may take it away is a
\* generated box: a job that was submitted before saves it in the row, now empty,
\* beside the copy (cot_jobs.py:327), and set aside in its turn it replaces the copy
\* (service.py:396, session_state.py:78).
LatestWriteKept ==
  \A k \in Key \ boxed : Chosen(want[k], last[k]) => Holds(k, last[k])

\* Nothing of a step ends at another.  A draft holds nothing that a person chose for
\* another step: a page that still shows old row numbers writes to no row, and a row's
\* edits follow the step and not the number.  A generated text is of the step, the
\* source and the action of the row it is stored at, though the job knew the row by an
\* older number and action.
NothingMisplaced ==
  \A t \in Tasks : snap[t] # None /\ RowsAt(snap[t].num) = {t} =>
    LET edit == edits[snap[t].num]
        wanted == want[KeyOf(t)]
        text == cot[snap[t].num]
    IN /\ edit.action => wanted.action
       /\ edit.deleted => wanted.deleted
       /\ edit.box = "manual" => wanted.box = "manual"
       /\ edit.text # None => edit.text = wanted.text
       /\ text # None => text = [src |-> snap[t].src, action |-> edit.action]
=============================================================================
