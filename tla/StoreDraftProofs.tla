-------------------------- MODULE StoreDraftProofs --------------------------
(***************************************************************************)
(* Proofs about CorrectionDraft, for every set of tasks, sources, pages and *)
(* jobs, and then about ArtifactStore, for every set of threads, stages and *)
(* payloads.  The two models share no name, and no proof uses both.         *)
(***************************************************************************)
EXTENDS CorrectionDraft, ArtifactStore, FiniteSetTheorems, TLAPS

----------------------------------------------------------------------------
(* Row numbers. *)

LEMMA NumberIs ==
  /\ Number \subseteq Int
  /\ \A n \in Number : n # 0 /\ (n > 0 => -n \in Number)
<1>1. Cardinality(Tasks) \in Nat
  BY DraftAssumption, FS_CardinalityType
<1> QED
  BY <1>1 DEF Number

\* A row number counts the tasks above: it is within the table, and rows differ.
LEMMA RowNumberIs ==
  ASSUME NEW t \in Tasks
  PROVE  RowNumber(t) \in Number /\ RowNumber(t) > 0
<1> DEFINE S == {u \in Tasks : u < t /\ src[u] # None}
<1>1. IsFiniteSet(Tasks) /\ t \in Nat
  BY DraftAssumption
<1>2. S \in SUBSET Tasks /\ t \notin S
  BY <1>1
<1> HIDE DEF S
<1>3. /\ IsFiniteSet(S) /\ Cardinality(S) <= Cardinality(Tasks)
      /\ Cardinality(S) # Cardinality(Tasks)
  BY <1>1, <1>2, FS_Subset
<1>4. Cardinality(S) \in Nat /\ Cardinality(Tasks) \in Nat
  BY <1>1, <1>3, FS_CardinalityType
<1>5. RowNumber(t) = 2 + Cardinality(S)
  BY DEF RowNumber, S
<1> QED
  BY <1>3, <1>4, <1>5 DEF Number

LEMMA RowsDiffer ==
  ASSUME NEW t \in Tasks, NEW u \in Tasks, src[t] # None, src[u] # None, t # u
  PROVE  RowNumber(t) # RowNumber(u)
<1>1. \A v \in Tasks : v \in Nat
  BY DraftAssumption
<1>2. ASSUME NEW v \in Tasks, NEW w \in Tasks, src[v] # None, v < w
      PROVE  RowNumber(v) < RowNumber(w)
  <2> DEFINE S == {x \in Tasks : x < v /\ src[x] # None}
             R == {x \in Tasks : x < w /\ src[x] # None}
  <2>1. S \in SUBSET R /\ v \in R /\ v \notin S /\ R \in SUBSET Tasks
    BY <1>1, <1>2
  <2>2. RowNumber(v) = 2 + Cardinality(S) /\ RowNumber(w) = 2 + Cardinality(R)
    BY DEF RowNumber
  <2> HIDE DEF S, R
  <2>3. IsFiniteSet(R)
    BY <2>1, DraftAssumption, FS_Subset
  <2>4. IsFiniteSet(S) /\ Cardinality(S) <= Cardinality(R) /\ Cardinality(S) # Cardinality(R)
    BY <2>1, <2>3, FS_Subset
  <2>5. Cardinality(S) \in Nat /\ Cardinality(R) \in Nat
    BY <2>3, <2>4, FS_CardinalityType
  <2> QED
    BY <2>2, <2>4, <2>5
<1>3. RowNumber(t) \in Int /\ RowNumber(u) \in Int
  BY RowNumberIs, NumberIs
<1>4. t < u \/ u < t
  BY <1>1
<1> QED
  BY <1>2, <1>3, <1>4

----------------------------------------------------------------------------
(* The invariant. *)

PageRecord == [task: Tasks, traj: Trajs, num: Number, fresh: BOOLEAN]
JobState == [status: {"none", "running", "succeeded"}, target: Target \cup {None},
             bbox: BOOLEAN, force: BOOLEAN, step: {"box", "text", "export"}]

\* The types of what the draft, the pages, the jobs and the people's choices are.
DraftTyped ==
  /\ snap \in [Tasks -> Group \cup {None}] /\ stale \subseteq Tasks
  /\ edits \in [Number -> Edit] /\ cot \in [Number -> Text \cup {None}]
  /\ pending \in [Key -> Edit]
  /\ page \in [Pages -> PageRecord \cup {None}]
  /\ job \in [Jobs -> JobState]
  /\ want \in [Key -> Edit] /\ last \in [Key -> Fields \cup {"none"}] /\ boxed \subseteq Key

\* The type of what is upstream.
FeedTyped ==
  /\ src \in [Tasks -> Judged \cup {Unjudged, None}] /\ due \subseteq Tasks
  /\ made \in Nat

\* A task's source is one that its feed allows.
SrcInv == \A t \in Tasks : src[t] \in Feed[t]

\* A row is of its task; only rows of stale tasks are numbered below zero, and only
\* they can share a number.
SnapInv ==
    /\ \A t \in Tasks : snap[t] # None => snap[t].src.task = t /\ (snap[t].num < 0 => t \in stale)
    /\ \A t, u \in Tasks :
         t # u /\ snap[t] # None /\ snap[u] # None /\ snap[t].num = snap[u].num => snap[t].num < 0

\* A page whose revision is current shows a row as the draft has it.
PageInv ==
    \A c \in Pages : page[c] # None /\ page[c].fresh =>
        LET t == page[c].task
        IN  snap[t] # None /\ page[c].num = snap[t].num /\ page[c].traj = snap[t].src.traj

JobInv == \A j \in Jobs : job[j].status # "none" => job[j].target # None

\* Nothing is stored under a number that no row has.
EmptyInv == \A n \in Number : RowsAt(n) = {} => edits[n] = NoEdit /\ cot[n] = None

Alone(t) == RowsAt(snap[t].num) = {t}

\* What is stored under a number that rows share was written while they shared it.
SharedInv ==
    \A t \in Tasks : snap[t] # None /\ ~Alone(t) /\ edits[snap[t].num] # NoEdit => last[KeyOf(t)] = "none"

\* A row that a person has edited at all has the latest write, and not only the copy for
\* review: the copy may be replaced by the row's edit.
RowInv ==
    \A t \in Tasks : /\ snap[t] # None /\ KeyOf(t) \notin boxed
                     /\ edits[snap[t].num] # NoEdit /\ Chosen(want[KeyOf(t)], last[KeyOf(t)])
        => Carries(edits[snap[t].num], last[KeyOf(t)], want[KeyOf(t)])

\* What is stored for the rows.
RowsInv == EmptyInv /\ NothingMisplaced /\ SharedInv /\ RowInv /\ LatestWriteKept

DraftInv == DraftTyped /\ FeedTyped /\ SrcInv /\ SnapInv /\ PageInv /\ JobInv /\ RowsInv

----------------------------------------------------------------------------
(* Types. *)

Boxes == {"none", "manual", "generated"}

LEMMA EditIs ==
  /\ NoEdit \in Edit
  /\ \A e \in Edit : /\ e.action \in BOOLEAN /\ e.deleted \in BOOLEAN /\ e.box \in Boxes
                     /\ e.text \in Texts \cup {None}
  BY DEF NoEdit, Edit, Boxes

LEMMA WrittenIs ==
  ASSUME NEW e \in Edit, NEW field \in Fields, NEW text \in Texts
  PROVE  Written(e, field, text) \in Edit
<1>1. field \in {"action", "box", "text", "deleted"}
  BY DraftAssumption
<1> QED
  BY <1>1 DEF Written, Edit

LEMMA MergedIs ==
  ASSUME NEW d \in Edit, NEW e \in Edit
  PROVE  Merged(d, e) \in Edit
  BY DEF Merged, Edit

LEMMA ChosenIs ==
  ASSUME NEW w, NEW e
  PROVE  /\ Chosen(w, "action") = w.action /\ Chosen(w, "deleted") = w.deleted
         /\ Chosen(w, "box") = (w.box = "manual") /\ Chosen(w, "text") = (w.text # None)
         /\ ~Chosen(w, "none")
         /\ Carries(e, "action", w) = e.action /\ Carries(e, "deleted", w) = e.deleted
         /\ Carries(e, "box", w) = (e.box = w.box) /\ Carries(e, "text", w) = (e.text = w.text)
  BY DEF Chosen, Carries

\* An empty edit carries no choice.
LEMMA NoEditCarries ==
  ASSUME NEW w \in Edit, NEW field \in Fields \cup {"none"}, Chosen(w, field)
  PROVE  ~Carries(NoEdit, field, w)
<1>1. field \in {"action", "box", "text", "deleted", "none"}
  BY DraftAssumption
<1>2. NoEdit.action = FALSE /\ NoEdit.deleted = FALSE /\ NoEdit.box = "none" /\ NoEdit.text = None
  BY DEF NoEdit
<1>3. CASE field = "action" \/ field = "deleted"
  BY <1>2, <1>3, ChosenIs
<1>4. CASE field = "box"
  BY <1>2, <1>4, ChosenIs
<1>5. CASE field = "text"
  BY <1>2, <1>5, ChosenIs
<1>6. CASE field = "none"
  BY <1>6, ChosenIs
<1> QED
  BY <1>1, <1>3, <1>4, <1>5, <1>6

LEMMA TypeIs == DraftTypeOK <=> DraftTyped /\ FeedTyped
  BY DEF DraftTypeOK, DraftTyped, FeedTyped, PageRecord, JobState

LEMMA KeyIs ==
  ASSUME DraftTyped, SnapInv, NEW t \in Tasks, snap[t] # None
  PROVE  /\ snap[t] \in Group /\ snap[t].src \in Judged /\ snap[t].num \in Number
         /\ KeyOf(t) \in Key /\ KeyOf(t)[1] = t /\ KeyOf(t)[2] = snap[t].src.traj
         /\ snap[t].src.traj \in Trajs
<1>1. snap[t] \in Group
  BY DEF DraftTyped
<1>2. snap[t].src \in Judged /\ snap[t].num \in Number
  BY <1>1 DEF Group
<1>3. snap[t].src \in Source
  BY <1>2, DraftAssumption
<1> QED
  BY <1>1, <1>2, <1>3 DEF KeyOf, Key, SnapInv, Source

LEMMA SavedIs ==
  ASSUME DraftTyped, NEW by, Saved(by)
  PROVE  /\ page' \in [Pages -> PageRecord \cup {None}]
         /\ \A d \in Pages : page'[d] = page[d] \/ ~page'[d].fresh
<1>1. \A d \in Pages : page[d] # None => page[d] \in PageRecord
  BY DEF DraftTyped
<1>2. \A d \in Pages : page[d] # None =>
        /\ [page[d] EXCEPT !.fresh = FALSE] \in PageRecord
        /\ [page[d] EXCEPT !.fresh = FALSE].fresh = FALSE
  BY <1>1 DEF PageRecord
<1>3. \A d \in Pages : page'[d] = IF page[d] = None \/ d \in by THEN page[d]
                                  ELSE [page[d] EXCEPT !.fresh = FALSE]
  BY DEF Saved
<1>4. \A d \in Pages : page'[d] \in PageRecord \cup {None}
  BY <1>1, <1>2, <1>3
<1>5. page' \in [Pages -> PageRecord \cup {None}]
  BY <1>4 DEF Saved
<1> QED
  BY <1>2, <1>3, <1>5

\* A page that stays current shows what it showed.
LEMMA PagesKept ==
  ASSUME DraftTyped, PageInv, snap' = snap,
         \A d \in Pages : page'[d] = page[d] \/ ~page'[d].fresh
  PROVE  PageInv'
  BY DEF PageInv

LEMMA SetAsideIs ==
  ASSUME NEW copies \in [Key -> Edit], NEW moved, NEW what \in [Key -> Edit]
  PROVE  /\ SetAside(copies, moved, what) \in [Key -> Edit]
         /\ \A k \in Key : SetAside(copies, moved, what)[k]
                             = IF k \in moved /\ what[k] # NoEdit THEN what[k] ELSE copies[k]
  BY DEF SetAside

LEMMA KeyParts == \A k \in Key : k[1] \in Tasks
<1>1. \A s \in Judged : s \in Source
  BY DraftAssumption
<1> QED
  BY <1>1 DEF Key, Source

----------------------------------------------------------------------------
(* One row is written. *)

\* What makes a write to the row of t sound, if the row shares its number with no other.
LEMMA RowWritten ==
  ASSUME DraftTyped, SnapInv, RowsInv, NEW t \in Tasks, snap[t] # None, Alone(t),
         UNCHANGED <<snap, stale>>,
         \A n \in Number \ {snap[t].num} : edits'[n] = edits[n] /\ cot'[n] = cot[n],
         \A k \in Key \ {KeyOf(t)} :
            want'[k] = want[k] /\ last'[k] = last[k] /\ pending'[k] = pending[k],
         boxed' \ {KeyOf(t)} = boxed \ {KeyOf(t)},
         LET edit   == edits'[snap[t].num]
             wanted == want'[KeyOf(t)]
             text   == cot'[snap[t].num]
             field  == last'[KeyOf(t)]
         IN  /\ edit.action => wanted.action
             /\ edit.deleted => wanted.deleted
             /\ edit.box = "manual" => wanted.box = "manual"
             /\ edit.text # None => edit.text = wanted.text
             /\ text # None => text = [src |-> snap[t].src, action |-> edit.action]
             /\ KeyOf(t) \notin boxed' /\ Chosen(wanted, field) =>
                  /\ edit # NoEdit => Carries(edit, field, wanted)
                  /\ Carries(edit, field, wanted) \/ Carries(pending'[KeyOf(t)], field, wanted)
  PROVE  RowsInv'
<1> DEFINE n == snap[t].num
           k == KeyOf(t)
<1>1. /\ \A u \in Tasks : snap[u] # None => snap[u].num \in Number /\ KeyOf(u) \in Key /\ KeyOf(u)[1] = u
      /\ n \in Number /\ k \in Key
  BY KeyIs
<1>2. \A u \in Tasks \ {t} : snap[u] # None => snap[u].num # n /\ KeyOf(u) # k
  BY <1>1 DEF Alone, RowsAt
<1>3. \A m : RowsAt(m)' = RowsAt(m)
  BY DEF RowsAt
<1>4. \A u \in Tasks : KeyOf(u)' = KeyOf(u) /\ Alone(u)' = Alone(u)
  BY DEF KeyOf, Alone, RowsAt
<1>5. EmptyInv'
  <2>1. RowsAt(n) # {}
    BY DEF Alone
  <2> QED
    BY <1>3, <2>1 DEF RowsInv, EmptyInv
<1>6. NothingMisplaced'
  <2> SUFFICES ASSUME NEW u \in Tasks, snap[u] # None, RowsAt(snap[u].num) = {u}
               PROVE  LET edit == edits'[snap[u].num]
                          wanted == want'[KeyOf(u)]
                          text == cot'[snap[u].num]
                      IN /\ edit.action => wanted.action
                         /\ edit.deleted => wanted.deleted
                         /\ edit.box = "manual" => wanted.box = "manual"
                         /\ edit.text # None => edit.text = wanted.text
                         /\ text # None => text = [src |-> snap[u].src, action |-> edit.action]
    BY <1>3, <1>4 DEF NothingMisplaced
  <2>1. CASE u = t
    BY <2>1
  <2>2. CASE u # t
    BY <1>1, <1>2, <2>2 DEF RowsInv, NothingMisplaced
  <2> QED
    BY <2>1, <2>2
<1>7. SharedInv'
  BY <1>1, <1>2, <1>4 DEF RowsInv, SharedInv
<1>8. RowInv'
  <2> SUFFICES ASSUME NEW u \in Tasks, snap[u] # None, KeyOf(u) \notin boxed',
                      edits'[snap[u].num] # NoEdit, Chosen(want'[KeyOf(u)], last'[KeyOf(u)])
               PROVE  Carries(edits'[snap[u].num], last'[KeyOf(u)], want'[KeyOf(u)])
    BY <1>4 DEF RowInv
  <2>1. CASE u = t
    BY <2>1
  <2>2. CASE u # t
    BY <1>1, <1>2, <2>2 DEF RowsInv, RowInv
  <2> QED
    BY <2>1, <2>2
<1>9. LatestWriteKept'
  <2> SUFFICES ASSUME NEW l \in Key, l \notin boxed', Chosen(want'[l], last'[l])
               PROVE  \/ snap[l[1]] # None /\ KeyOf(l[1]) = l /\ Carries(edits'[snap[l[1]].num], last'[l], want'[l])
                      \/ Carries(pending'[l], last'[l], want'[l])
    BY KeyParts, <1>4 DEF LatestWriteKept, Holds, Chosen, Carries
  <2>1. CASE l = k
    BY <1>1, <2>1
  <2>2. CASE l # k
    <3>1. want'[l] = want[l] /\ last'[l] = last[l] /\ pending'[l] = pending[l] /\ l \notin boxed
      BY <2>2
    <3>2. Holds(l, last[l])
      BY <3>1 DEF RowsInv, LatestWriteKept
    <3>3. l[1] \in Tasks
      BY KeyParts
    <3>4. snap[l[1]] # None /\ KeyOf(l[1]) = l => edits'[snap[l[1]].num] = edits[snap[l[1]].num]
      BY <1>1, <1>2, <2>2, <3>3
    <3> QED
      BY <3>1, <3>2, <3>4 DEF Holds
  <2> QED
    BY <2>1, <2>2
<1> QED
  BY <1>5, <1>6, <1>7, <1>8, <1>9 DEF RowsInv

\* A write to a number that rows share is nobody's latest write.
LEMMA SharedWritten ==
  ASSUME DraftTyped, SnapInv, RowsInv, NEW t \in Tasks, snap[t] # None, ~Alone(t),
         UNCHANGED <<snap, stale, pending, boxed>>,
         \A n \in Number \ {snap[t].num} : edits'[n] = edits[n] /\ cot'[n] = cot[n],
         \A k \in Key \ {KeyOf(t)} : want'[k] = want[k],
         \A k \in Key : last'[k] = IF \E u \in RowsAt(snap[t].num) : k = KeyOf(u) THEN "none" ELSE last[k]
  PROVE  RowsInv'
<1> DEFINE n == snap[t].num
           k == KeyOf(t)
<1>1. /\ \A u \in Tasks : snap[u] # None => snap[u].num \in Number /\ KeyOf(u) \in Key /\ KeyOf(u)[1] = u
      /\ n \in Number /\ k \in Key
  BY KeyIs
<1>2. /\ t \in RowsAt(n)
      /\ \A u \in Tasks : snap[u] # None /\ snap[u].num = n => ~Alone(u) /\ last'[KeyOf(u)] = "none"
      /\ \A u \in Tasks : snap[u] # None /\ snap[u].num # n => KeyOf(u) # k
  BY <1>1 DEF Alone, RowsAt
<1>3. \A m : RowsAt(m)' = RowsAt(m)
  BY DEF RowsAt
<1>4. \A u \in Tasks : KeyOf(u)' = KeyOf(u) /\ Alone(u)' = Alone(u)
  BY DEF KeyOf, Alone, RowsAt
<1>5. \A w : ~Chosen(w, "none")
  BY ChosenIs
<1>6. EmptyInv'
  BY <1>2, <1>3 DEF RowsInv, EmptyInv
<1>7. NothingMisplaced'
  <2> SUFFICES ASSUME NEW u \in Tasks, snap[u] # None, RowsAt(snap[u].num) = {u}
               PROVE  LET edit == edits'[snap[u].num]
                          wanted == want'[KeyOf(u)]
                          text == cot'[snap[u].num]
                      IN /\ edit.action => wanted.action
                         /\ edit.deleted => wanted.deleted
                         /\ edit.box = "manual" => wanted.box = "manual"
                         /\ edit.text # None => edit.text = wanted.text
                         /\ text # None => text = [src |-> snap[u].src, action |-> edit.action]
    BY <1>3, <1>4 DEF NothingMisplaced
  <2>1. snap[u].num # n
    BY <1>2 DEF Alone
  <2> QED
    BY <1>1, <1>2, <2>1 DEF RowsInv, NothingMisplaced
<1>8. SharedInv'
  BY <1>1, <1>2, <1>4 DEF RowsInv, SharedInv
<1>9. RowInv'
  <2> SUFFICES ASSUME NEW u \in Tasks, snap[u] # None, KeyOf(u) \notin boxed',
                      edits'[snap[u].num] # NoEdit, Chosen(want'[KeyOf(u)], last'[KeyOf(u)])
               PROVE  Carries(edits'[snap[u].num], last'[KeyOf(u)], want'[KeyOf(u)])
    BY <1>4 DEF RowInv
  <2>1. snap[u].num # n /\ last'[KeyOf(u)] = last[KeyOf(u)]
    BY <1>1, <1>2, <1>5
  <2> QED
    BY <1>1, <1>2, <2>1 DEF RowsInv, RowInv
<1>10. LatestWriteKept'
  <2> SUFFICES ASSUME NEW l \in Key, l \notin boxed', Chosen(want'[l], last'[l])
               PROVE  \/ snap[l[1]] # None /\ KeyOf(l[1]) = l /\ Carries(edits'[snap[l[1]].num], last'[l], want'[l])
                      \/ Carries(pending'[l], last'[l], want'[l])
    BY KeyParts, <1>4 DEF LatestWriteKept, Holds
  <2>1. last'[l] = last[l] /\ \A u \in RowsAt(n) : l # KeyOf(u)
    BY <1>5
  <2>2. want'[l] = want[l] /\ pending'[l] = pending[l]
    BY <1>2, <2>1
  <2>3. Holds(l, last[l])
    BY <2>1, <2>2 DEF RowsInv, LatestWriteKept
  <2>4. l[1] \in Tasks
    BY KeyParts
  <2>5. snap[l[1]] # None /\ KeyOf(l[1]) = l => edits'[snap[l[1]].num] = edits[snap[l[1]].num]
    BY <1>1, <1>2, <2>1, <2>4 DEF RowsAt
  <2> QED
    BY <2>1, <2>2, <2>3, <2>5 DEF Holds
<1> QED
  BY <1>6, <1>7, <1>8, <1>9, <1>10 DEF RowsInv

\* A patch is of the row the page shows, and that is the row of the page's step.
LEMMA PageShows ==
  ASSUME DraftTyped, SnapInv, PageInv, NEW c \in Pages, CurrentRevision(c)
  PROVE  /\ page[c].task \in Tasks /\ snap[page[c].task] # None
         /\ page[c].num = snap[page[c].task].num
         /\ <<page[c].task, page[c].traj>> = KeyOf(page[c].task)
<1>1. page[c] \in PageRecord
  BY DEF DraftTyped, CurrentRevision
<1>2. page[c].task \in Tasks
  BY <1>1 DEF PageRecord
<1> QED
  BY <1>2 DEF CurrentRevision, PageInv, KeyOf

\* What a patch makes of what is wanted of its step.
Wanted(w, field, new) ==
  CASE field = "action"  -> [w EXCEPT !.action = new.action]
    [] field = "deleted" -> [w EXCEPT !.deleted = new.deleted]
    [] field = "box"     -> [w EXCEPT !.box = new.box]
    [] field = "text"    -> [w EXCEPT !.text = new.text]

LEMMA WantedIs ==
  ASSUME NEW w \in Edit, NEW e \in Edit, NEW field \in Fields, NEW text \in Texts
  PROVE  LET new == Written(e, field, text)
             wanted == Wanted(w, field, new)
         IN  /\ wanted \in Edit
             /\ (e.action => w.action) => (new.action => wanted.action)
             /\ (e.deleted => w.deleted) => (new.deleted => wanted.deleted)
             /\ (e.box = "manual" => w.box = "manual") => (new.box = "manual" => wanted.box = "manual")
             /\ (e.text # None => e.text = w.text) => (new.text # None => new.text = wanted.text)
             /\ field # "action" => new.action = e.action
             /\ Chosen(wanted, field) => Carries(new, field, wanted)
<1> DEFINE new == Written(e, field, text)
           wanted == Wanted(w, field, new)
<1>1. new \in Edit
  BY WrittenIs
<1>2. CASE field = "action"
  <2>1. new = [e EXCEPT !.action = ~@] /\ wanted = [w EXCEPT !.action = new.action]
    BY <1>2 DEF Written, Wanted
  <2> QED
    BY <1>1, <1>2, <2>1, ChosenIs DEF Edit
<1>3. CASE field = "deleted"
  <2>1. new = [e EXCEPT !.deleted = ~@] /\ wanted = [w EXCEPT !.deleted = new.deleted]
    BY <1>3 DEF Written, Wanted
  <2> QED
    BY <1>1, <1>3, <2>1, ChosenIs DEF Edit
<1>4. CASE field = "box"
  <2>1. new = [e EXCEPT !.box = IF @ = "manual" THEN "none" ELSE "manual"] /\ wanted = [w EXCEPT !.box = new.box]
    BY <1>4 DEF Written, Wanted
  <2> QED
    BY <1>1, <1>4, <2>1, ChosenIs DEF Edit
<1>5. CASE field = "text"
  <2>1. new = [e EXCEPT !.text = text] /\ wanted = [w EXCEPT !.text = new.text]
    BY <1>5 DEF Written, Wanted
  <2> QED
    BY <1>1, <1>5, <2>1, ChosenIs DEF Edit
<1>6. field \in {"action", "box", "text", "deleted"}
  BY DraftAssumption
<1> QED
  BY <1>2, <1>3, <1>4, <1>5, <1>6

----------------------------------------------------------------------------
(* What a person does. *)

LEMMA PatchKeeps ==
  ASSUME DraftInv, NEW c \in Pages, NEW field \in Fields, NEW text \in Texts, PatchRow(c, field, text)
  PROVE  DraftInv'
<1> DEFINE t == page[c].task
           n == page[c].num
           k == <<page[c].task, page[c].traj>>
           new == Written(edits[n], field, text)
<1>1. /\ CurrentRevision(c) /\ Saved({c}) /\ made' = made + 1
      /\ edits' = [edits EXCEPT ![n] = new]
      /\ cot' = IF field = "action" THEN [cot EXCEPT ![n] = None] ELSE cot
      /\ want' = [want EXCEPT ![k] = Wanted(@, field, new)]
      /\ last' = IF \E u \in Tasks : RowsAt(n) = {u} THEN [last EXCEPT ![k] = field]
                 ELSE [l \in Key |-> IF \E u \in RowsAt(n) : l = KeyOf(u) THEN "none" ELSE last[l]]
      /\ boxed' = IF \E u \in Tasks : RowsAt(n) = {u} THEN boxed \ {k} ELSE boxed
      /\ UNCHANGED <<src, due, snap, stale, pending, job>>
  BY DEF PatchRow, Wanted
<1>2. /\ t \in Tasks /\ snap[t] # None /\ n = snap[t].num /\ k = KeyOf(t)
  BY <1>1, PageShows DEF DraftInv
<1>3. n \in Number /\ k \in Key
  BY <1>2, KeyIs DEF DraftInv
<1>4. edits[n] \in Edit /\ want[k] \in Edit
  BY <1>3 DEF DraftInv, DraftTyped
<1>5. new \in Edit /\ Wanted(want[k], field, new) \in Edit
  BY <1>4, WrittenIs, WantedIs
<1>6. /\ edits'[n] = new /\ want'[k] = Wanted(want[k], field, new)
      /\ \A m \in Number \ {n} : edits'[m] = edits[m] /\ cot'[m] = cot[m]
      /\ \A l \in Key \ {k} : want'[l] = want[l]
      /\ cot'[n] = IF field = "action" THEN None ELSE cot[n]
  BY <1>1, <1>3 DEF DraftInv, DraftTyped
<1>7. DraftTyped'
  <2>1. edits' \in [Number -> Edit] /\ cot' \in [Number -> Text \cup {None}] /\ want' \in [Key -> Edit]
    BY <1>1, <1>5 DEF DraftInv, DraftTyped
  <2>2. last' \in [Key -> Fields \cup {"none"}] /\ boxed' \subseteq Key
    BY <1>1 DEF DraftInv, DraftTyped
  <2>3. page' \in [Pages -> PageRecord \cup {None}]
    BY <1>1, SavedIs DEF DraftInv
  <2> QED
    BY <1>1, <2>1, <2>2, <2>3 DEF DraftInv, DraftTyped
<1>8. FeedTyped' /\ SrcInv'
  BY <1>1 DEF DraftInv, FeedTyped, SrcInv
<1>9. SnapInv' /\ JobInv'
  BY <1>1 DEF DraftInv, SnapInv, JobInv
<1>10. PageInv'
  <2>1. \A d \in Pages : page'[d] = page[d] \/ ~page'[d].fresh
    BY <1>1, SavedIs DEF DraftInv
  <2> QED
    BY <1>1, <2>1, PagesKept DEF DraftInv
<1>11. RowsInv'
  <2>1. CASE Alone(t)
    <3>1. last' = [last EXCEPT ![k] = field]
      BY <1>1, <1>2, <2>1 DEF Alone
    <3>2. /\ last'[k] = field /\ \A l \in Key \ {k} : last'[l] = last[l]
          /\ boxed' \ {k} = boxed \ {k}
      BY <1>1, <1>2, <1>3, <2>1, <3>1 DEF DraftInv, DraftTyped, Alone
    <3>3. LET edit == edits[n]
              wanted == want[k]
          IN /\ edit.action => wanted.action
             /\ edit.deleted => wanted.deleted
             /\ edit.box = "manual" => wanted.box = "manual"
             /\ edit.text # None => edit.text = wanted.text
             /\ cot[n] # None => cot[n] = [src |-> snap[t].src, action |-> edit.action]
      BY <1>2, <2>1 DEF DraftInv, RowsInv, NothingMisplaced, Alone
    <3>4. /\ new.action => want'[k].action
          /\ new.deleted => want'[k].deleted
          /\ new.box = "manual" => want'[k].box = "manual"
          /\ new.text # None => new.text = want'[k].text
          /\ field # "action" => new.action = edits[n].action
          /\ Chosen(want'[k], field) => Carries(new, field, want'[k])
      BY <1>4, <1>6, <3>3, WantedIs
    <3>5. cot'[n] # None => cot'[n] = [src |-> snap[t].src, action |-> new.action]
      BY <1>6, <3>3, <3>4
    <3> HIDE DEF new, n, k, t
    <3> QED
      BY <1>1, <1>2, <1>6, <2>1, <3>2, <3>4, <3>5, RowWritten DEF DraftInv
  <2>2. CASE ~Alone(t)
    <3>1. ~(\E u \in Tasks : RowsAt(n) = {u})
      BY <1>2, <2>2 DEF Alone, RowsAt
    <3>2. /\ \A l \in Key : last'[l] = IF \E u \in RowsAt(n) : l = KeyOf(u) THEN "none" ELSE last[l]
          /\ boxed' = boxed
      BY <1>1, <3>1
    <3> HIDE DEF new, n, k, t
    <3> QED
      BY <1>1, <1>2, <1>6, <2>2, <3>2, SharedWritten DEF DraftInv
  <2> QED
    BY <2>1, <2>2
<1> QED
  BY <1>7, <1>8, <1>9, <1>10, <1>11 DEF DraftInv

\* The row of a task that is not stale has its number for itself.
LEMMA FreshIsAlone ==
  ASSUME DraftTyped, SnapInv, NEW t \in Tasks, snap[t] # None, t \notin stale
  PROVE  Alone(t) /\ snap[t].num > 0
<1>1. snap[t].num \in Number /\ ~(snap[t].num < 0)
  BY KeyIs DEF SnapInv
<1>2. snap[t].num > 0
  <2>1. snap[t].num \in Int /\ snap[t].num # 0
    BY <1>1, NumberIs
  <2> QED
    BY <1>1, <2>1
<1> QED
  BY <1>1, <1>2 DEF SnapInv, Alone, RowsAt

\* A copy that is adopted becomes what is wanted, but for a box that was generated.
Settled(e) == [e EXCEPT !.box = IF @ = "generated" THEN "none" ELSE @]

LEMMA SettledIs ==
  ASSUME NEW e \in Edit
  PROVE  /\ Settled(e) \in Edit
         /\ e.action => Settled(e).action
         /\ e.deleted => Settled(e).deleted
         /\ e.box = "manual" => Settled(e).box = "manual"
         /\ e.text # None => e.text = Settled(e).text
         /\ \A field \in Fields \cup {"none"} : Chosen(Settled(e), field) => Carries(e, field, Settled(e))
<1>1. /\ Settled(e) \in Edit /\ Settled(e).action = e.action /\ Settled(e).deleted = e.deleted
      /\ Settled(e).text = e.text /\ Settled(e).box = IF e.box = "generated" THEN "none" ELSE e.box
  BY DEF Settled, Edit
<1>2. e.action \in BOOLEAN /\ e.deleted \in BOOLEAN
  BY DEF Edit
<1>3. ASSUME NEW field \in Fields \cup {"none"}, Chosen(Settled(e), field)
      PROVE  Carries(e, field, Settled(e))
  <2>1. field \in {"action", "box", "text", "deleted", "none"}
    BY DraftAssumption
  <2> DEFINE w == Settled(e)
  <2>2. /\ w.action = e.action /\ w.deleted = e.deleted /\ w.text = e.text
        /\ w.box = (IF e.box = "generated" THEN "none" ELSE e.box) /\ Chosen(w, field)
    BY <1>1, <1>3
  <2> HIDE DEF w
  <2>3. Carries(e, field, w)
    <3>1. CASE field = "action"
      BY <1>2, <2>2, <3>1, ChosenIs
    <3>2. CASE field = "deleted"
      BY <1>2, <2>2, <3>2, ChosenIs
    <3>3. CASE field = "box"
      <4>1. w.box = "manual"
        BY <2>2, <3>3, ChosenIs
      <4> QED
        BY <2>2, <3>3, <4>1, ChosenIs
    <3>4. CASE field = "text"
      BY <2>2, <3>4, ChosenIs
    <3>5. CASE field = "none"
      BY <2>2, <3>5, ChosenIs
    <3> QED
      BY <2>1, <3>1, <3>2, <3>3, <3>4, <3>5
  <2> QED
    BY <2>3 DEF w
<1> QED
  BY <1>1, <1>2, <1>3

LEMMA AdoptKeeps ==
  ASSUME DraftInv, NEW c \in Pages, NEW t \in Tasks, Adopt(c, t)
  PROVE  DraftInv'
<1> DEFINE n == snap[t].num
           k == KeyOf(t)
           new == Merged(pending[k], edits[n])
<1>1. /\ Saved({c}) /\ snap[t] # None /\ t \notin stale
      /\ edits' = [edits EXCEPT ![n] = new]
      /\ cot' = [cot EXCEPT ![n] = None]
      /\ pending' = [pending EXCEPT ![k] = NoEdit]
      /\ want' = [want EXCEPT ![k] = Settled(new)]
      /\ boxed' = boxed \ {k}
      /\ UNCHANGED <<src, due, snap, stale, job, last, made>>
  BY DEF Adopt, Settled
<1>2. n \in Number /\ k \in Key /\ Alone(t)
  BY <1>1, KeyIs, FreshIsAlone DEF DraftInv
<1>3. new \in Edit
  BY <1>2, MergedIs DEF DraftInv, DraftTyped
<1>4. DraftTyped'
  <2>1. /\ edits' \in [Number -> Edit] /\ cot' \in [Number -> Text \cup {None}]
        /\ want' \in [Key -> Edit] /\ pending' \in [Key -> Edit]
    BY <1>1, <1>3, EditIs, SettledIs DEF DraftInv, DraftTyped
  <2>2. page' \in [Pages -> PageRecord \cup {None}]
    BY <1>1, SavedIs DEF DraftInv
  <2> QED
    BY <1>1, <2>1, <2>2 DEF DraftInv, DraftTyped
<1>5. FeedTyped' /\ SrcInv' /\ SnapInv' /\ JobInv'
  BY <1>1 DEF DraftInv, FeedTyped, SrcInv, SnapInv, JobInv
<1>6. PageInv'
  <2>1. \A d \in Pages : page'[d] = page[d] \/ ~page'[d].fresh
    BY <1>1, SavedIs DEF DraftInv
  <2> QED
    BY <1>1, <2>1, PagesKept DEF DraftInv
<1>7. RowsInv'
  <2>1. /\ edits'[n] = new /\ cot'[n] = None /\ want'[k] = Settled(new)
        /\ \A m \in Number \ {n} : edits'[m] = edits[m] /\ cot'[m] = cot[m]
        /\ \A l \in Key \ {k} : want'[l] = want[l] /\ last'[l] = last[l] /\ pending'[l] = pending[l]
        /\ boxed' \ {k} = boxed \ {k}
        /\ last[k] \in Fields \cup {"none"} /\ last'[k] = last[k]
    BY <1>1, <1>2 DEF DraftInv, DraftTyped
  <2>2. /\ new.action => want'[k].action
        /\ new.deleted => want'[k].deleted
        /\ new.box = "manual" => want'[k].box = "manual"
        /\ new.text # None => new.text = want'[k].text
        /\ Chosen(want'[k], last'[k]) => Carries(new, last'[k], want'[k])
    BY <1>3, <2>1, SettledIs
  <2> HIDE DEF new, n, k
  <2> QED
    BY <1>1, <1>2, <2>1, <2>2, RowWritten DEF DraftInv, n, k
<1> QED
  BY <1>4, <1>5, <1>6, <1>7 DEF DraftInv

\* What is discarded is wanted no more; the row itself stays.
LEMMA DiscardKeeps ==
  ASSUME DraftInv, NEW c \in Pages, NEW t \in Tasks, Discard(c, t)
  PROVE  DraftInv'
<1> DEFINE R == Reviews(t)
<1>1. /\ Saved({c}) /\ snap[t] # None
      /\ pending' = [k \in Key |-> IF k[1] = t THEN NoEdit ELSE pending[k]]
      /\ want' = [k \in Key |-> IF k \notin R THEN want[k]
                                ELSE IF snap[t].src.traj = k[2] THEN Settled(edits[snap[t].num]) ELSE NoEdit]
      /\ last' = [k \in Key |-> IF k \in R THEN "none" ELSE last[k]]
      /\ boxed' = boxed \ R
      /\ UNCHANGED <<src, due, snap, stale, edits, cot, job, made>>
  BY DEF Discard, Settled
<1>2. /\ snap[t].num \in Number /\ edits[snap[t].num] \in Edit
      /\ KeyOf(t) \in Key /\ KeyOf(t)[1] = t /\ KeyOf(t)[2] = snap[t].src.traj
  BY <1>1, KeyIs DEF DraftInv, DraftTyped
<1>3. DraftTyped'
  <2>1. want' \in [Key -> Edit] /\ pending' \in [Key -> Edit]
    BY <1>1, <1>2, EditIs, SettledIs DEF DraftInv, DraftTyped
  <2>2. last' \in [Key -> Fields \cup {"none"}]
    BY <1>1 DEF DraftInv, DraftTyped
  <2>3. page' \in [Pages -> PageRecord \cup {None}]
    BY <1>1, SavedIs DEF DraftInv
  <2> QED
    BY <1>1, <2>1, <2>2, <2>3 DEF DraftInv, DraftTyped
<1>4. FeedTyped' /\ SrcInv' /\ SnapInv' /\ JobInv'
  BY <1>1 DEF DraftInv, FeedTyped, SrcInv, SnapInv, JobInv
<1>5. PageInv'
  <2>1. \A d \in Pages : page'[d] = page[d] \/ ~page'[d].fresh
    BY <1>1, SavedIs DEF DraftInv
  <2> QED
    BY <1>1, <2>1, PagesKept DEF DraftInv
<1>6. /\ \A m : RowsAt(m)' = RowsAt(m)
      /\ \A u \in Tasks : KeyOf(u)' = KeyOf(u) /\ Alone(u)' = Alone(u)
  BY <1>1 DEF KeyOf, Alone, RowsAt
<1>7. /\ \A k \in Key : k \notin R => want'[k] = want[k] /\ last'[k] = last[k] /\ pending'[k] = pending[k]
      /\ \A k : k \notin R => (k \in boxed' <=> k \in boxed)
      /\ \A k \in R : k \in Key /\ k[1] = t /\ last'[k] = "none"
  BY <1>1 DEF Reviews
<1>8. \A u \in Tasks : snap[u] # None => KeyOf(u) \in Key /\ KeyOf(u)[1] = u
  BY KeyIs DEF DraftInv
<1>9. \A w : ~Chosen(w, "none")
  BY ChosenIs
<1>10. EmptyInv'
  BY <1>1, <1>6 DEF DraftInv, RowsInv, EmptyInv
<1>11. NothingMisplaced'
  <2> SUFFICES ASSUME NEW u \in Tasks, snap[u] # None, RowsAt(snap[u].num) = {u}
               PROVE  LET edit == edits[snap[u].num]
                          wanted == want'[KeyOf(u)]
                          text == cot[snap[u].num]
                      IN /\ edit.action => wanted.action
                         /\ edit.deleted => wanted.deleted
                         /\ edit.box = "manual" => wanted.box = "manual"
                         /\ edit.text # None => edit.text = wanted.text
                         /\ text # None => text = [src |-> snap[u].src, action |-> edit.action]
    BY <1>1, <1>6 DEF NothingMisplaced
  <2>1. cot[snap[u].num] # None => cot[snap[u].num] = [src |-> snap[u].src, action |-> edits[snap[u].num].action]
    BY DEF DraftInv, RowsInv, NothingMisplaced
  <2>2. CASE KeyOf(u) \in R
    <3>1. u = t /\ want'[KeyOf(t)] = Settled(edits[snap[t].num])
      BY <1>1, <1>2, <1>7, <1>8, <2>2
    <3> QED
      BY <1>2, <2>1, <3>1, SettledIs
  <2>3. CASE KeyOf(u) \notin R
    BY <1>7, <1>8, <2>1, <2>3 DEF DraftInv, RowsInv, NothingMisplaced
  <2> QED
    BY <2>2, <2>3
<1>12. SharedInv'
  BY <1>1, <1>6, <1>7, <1>8 DEF DraftInv, RowsInv, SharedInv
<1>13. RowInv'
  <2> SUFFICES ASSUME NEW u \in Tasks, snap[u] # None, KeyOf(u) \notin boxed',
                      edits[snap[u].num] # NoEdit, Chosen(want'[KeyOf(u)], last'[KeyOf(u)])
               PROVE  Carries(edits[snap[u].num], last'[KeyOf(u)], want'[KeyOf(u)])
    BY <1>1, <1>6 DEF RowInv
  <2>1. KeyOf(u) \notin R
    BY <1>7, <1>9
  <2> QED
    BY <1>7, <1>8, <2>1 DEF DraftInv, RowsInv, RowInv
<1>14. LatestWriteKept'
  <2> SUFFICES ASSUME NEW l \in Key, l \notin boxed', Chosen(want'[l], last'[l])
               PROVE  \/ snap[l[1]] # None /\ KeyOf(l[1]) = l /\ Carries(edits[snap[l[1]].num], last'[l], want'[l])
                      \/ Carries(pending'[l], last'[l], want'[l])
    BY KeyParts, <1>1, <1>6 DEF LatestWriteKept, Holds
  <2>1. l \notin R
    BY <1>7, <1>9
  <2>2. Holds(l, last[l])
    BY <1>7, <2>1 DEF DraftInv, RowsInv, LatestWriteKept
  <2> QED
    BY <1>7, <2>1, <2>2 DEF Holds
<1> QED
  BY <1>3, <1>4, <1>5, <1>10, <1>11, <1>12, <1>13, <1>14 DEF DraftInv, RowsInv

----------------------------------------------------------------------------
(* What a job does. *)

LEMMA TargetIs ==
  ASSUME DraftInv, NEW j \in Jobs, job[j].status = "running"
  PROVE  /\ job[j] \in JobState /\ job[j].target \in Target /\ TaskOf(j) \in Tasks
         /\ job[j].target.src \in Judged /\ job[j].target.edit \in Edit
<1>1. job[j] \in JobState /\ job[j].target # None
  BY DEF DraftInv, DraftTyped, JobInv
<1>2. job[j].target \in Target
  BY <1>1 DEF JobState
<1>3. job[j].target.src \in Judged /\ job[j].target.edit \in Edit
  BY <1>2 DEF Target
<1>4. job[j].target.src \in Source
  BY <1>3, DraftAssumption
<1> QED
  BY <1>1, <1>2, <1>3, <1>4 DEF TaskOf, Source

\* The draft is left alone.
LEMMA JobsOnly ==
  ASSUME DraftInv, job' \in [Jobs -> JobState],
         \A j \in Jobs : job'[j].status # "none" => job'[j].target # None,
         UNCHANGED <<src, due, draft, page, history, made>>
  PROVE  DraftInv'
<1>1. UNCHANGED <<src, due, snap, stale, edits, cot, pending, page, want, last, boxed, made>>
  BY DEF draft, history
<1>2. DraftTyped' /\ FeedTyped' /\ SrcInv' /\ SnapInv' /\ PageInv' /\ JobInv'
  BY <1>1 DEF DraftInv, DraftTyped, FeedTyped, SrcInv, SnapInv, PageInv, JobInv
<1>3. /\ \A m : RowsAt(m)' = RowsAt(m)
      /\ \A u \in Tasks : KeyOf(u)' = KeyOf(u) /\ Alone(u)' = Alone(u)
  BY <1>1 DEF KeyOf, Alone, RowsAt
<1>4. EmptyInv' /\ NothingMisplaced' /\ SharedInv' /\ RowInv'
  BY <1>1, <1>3 DEF DraftInv, RowsInv, EmptyInv, NothingMisplaced, SharedInv, RowInv
<1>5. LatestWriteKept'
  BY <1>1, <1>3, KeyParts DEF DraftInv, RowsInv, LatestWriteKept, Holds
<1> QED
  BY <1>2, <1>4, <1>5 DEF DraftInv, RowsInv

LEMMA NoJobIs == NoJob \in JobState /\ NoJob.status = "none"
  BY DEF NoJob, JobState

LEMMA SubmitKeeps ==
  ASSUME DraftInv, NEW j \in Jobs, NEW t \in Tasks, NEW r \in Requests, Submit(j, t, r.bbox, r.force)
  PROVE  DraftInv'
<1> DEFINE request == Request(t, r.bbox, r.force)
           new == [status |-> "running", target |-> request.target, bbox |-> r.bbox,
                   force |-> r.force, step |-> IF r.bbox THEN "box" ELSE "text"]
<1>1. /\ snap[t] # None /\ job' = [job EXCEPT ![j] = new]
      /\ UNCHANGED <<src, due, draft, page, history, made>>
  BY DEF Submit
<1>2. snap[t].src \in Judged /\ edits[snap[t].num] \in Edit
  BY <1>1, KeyIs DEF DraftInv, DraftTyped
<1>3. request.target = [src |-> snap[t].src, edit |-> edits[snap[t].num], box |-> edits[snap[t].num].box]
  BY DEF Request
<1>4. request.target \in Target
  <2>1. edits[snap[t].num].box \in {"none", "manual", "generated"}
    BY <1>2 DEF Edit
  <2> QED
    BY <1>2, <1>3, <2>1 DEF Target
<1>5. r.bbox \in BOOLEAN /\ r.force \in BOOLEAN
  BY DraftAssumption
<1>6. request.target # None
  BY <1>4, DraftAssumption
<1>7. new \in JobState /\ new.target # None
  BY <1>4, <1>5, <1>6 DEF JobState
<1> HIDE DEF new
<1>8. job' \in [Jobs -> JobState]
  BY <1>1, <1>7 DEF DraftInv, DraftTyped
<1>9. \A i \in Jobs : job'[i] = IF i = j THEN new ELSE job[i]
  BY <1>1 DEF DraftInv, DraftTyped
<1>10. \A i \in Jobs : job'[i].status # "none" => job'[i].target # None
  BY <1>7, <1>9 DEF DraftInv, JobInv
<1> QED
  BY <1>1, <1>8, <1>10, JobsOnly

LEMMA EndKeeps ==
  ASSUME DraftInv, NEW j \in Jobs, Finish(j) \/ Fail(j)
  PROVE  DraftInv'
<1> DEFINE done == [job[j] EXCEPT !.status = "succeeded"]
<1>1. /\ job[j].status = "running"
      /\ job' = [job EXCEPT ![j] = done] \/ job' = [job EXCEPT ![j] = NoJob]
      /\ UNCHANGED <<src, due, draft, page, history, made>>
  BY DEF Finish, Fail
<1>2. done \in JobState /\ done.target # None
  BY <1>1, TargetIs DEF JobState, DraftInv, JobInv
<1> HIDE DEF done
<1>3. job' \in [Jobs -> JobState]
  BY <1>1, <1>2, NoJobIs DEF DraftInv, DraftTyped
<1>4. \A i \in Jobs \ {j} : job'[i] = job[i]
  BY <1>1 DEF DraftInv, DraftTyped
<1>5. job'[j] \in {done, NoJob}
  BY <1>1 DEF DraftInv, DraftTyped
<1>6. \A i \in Jobs : job'[i].status # "none" => job'[i].target # None
  BY <1>2, <1>4, <1>5, NoJobIs DEF DraftInv, JobInv
<1> QED
  BY <1>1, <1>3, <1>6, JobsOnly

\* A job that goes on keeps its target, but for the box it has generated.
LEMMA JobGoesOn ==
  ASSUME DraftInv, NEW j \in Jobs, job[j].status = "running",
         NEW step \in {"box", "text", "export"},
         \/ job' = [job EXCEPT ![j].step = step, ![j].target.box = "generated"]
         \/ job' = [job EXCEPT ![j].step = step]
  PROVE  job' \in [Jobs -> JobState] /\ JobInv'
<1> DEFINE framed == [job[j] EXCEPT !.step = step, !.target.box = "generated"]
           on == [job[j] EXCEPT !.step = step]
<1>1. job' = [job EXCEPT ![j] = framed] \/ job' = [job EXCEPT ![j] = on]
  BY DEF DraftInv, DraftTyped
<1>2. job[j] \in JobState /\ job[j].target \in Target /\ job[j].target # None
  BY TargetIs DEF DraftInv, JobInv
<1>3. [job[j].target EXCEPT !.box = "generated"] \in Target
  BY <1>2 DEF Target
<1>4. framed.target = [job[j].target EXCEPT !.box = "generated"] /\ framed \in JobState
  BY <1>2, <1>3 DEF JobState
<1>5. on \in JobState /\ on.target # None
  BY <1>2 DEF JobState
<1>6. framed.target # None
  BY <1>3, <1>4, DraftAssumption
<1> HIDE DEF framed, on
<1>7. job' \in [Jobs -> JobState]
  BY <1>1, <1>4, <1>5 DEF DraftInv, DraftTyped
<1>8. \A i \in Jobs : job'[i] = job[i] \/ job'[i] \in {framed, on}
  BY <1>1 DEF DraftInv, DraftTyped
<1> QED
  BY <1>5, <1>6, <1>7, <1>8 DEF DraftInv, JobInv

LEMMA SaveBoxKeeps ==
  ASSUME DraftInv, NEW j \in Jobs, SaveBox(j)
  PROVE  DraftInv'
<1> DEFINE t == TaskOf(j)
           n == snap[t].num
           k == KeyOf(t)
           new == [edits[n] EXCEPT !.box = "generated"]
           wanted == [want[k] EXCEPT !.box = IF edits[n].box = "manual" THEN "none" ELSE @]
<1>1. /\ job[j].status = "running" /\ t \notin stale /\ snap[t] # None
      /\ edits' = [edits EXCEPT ![n].box = "generated"]
      /\ cot' = [cot EXCEPT ![n] = None]
      /\ job' = [job EXCEPT ![j].step = "text", ![j].target.box = "generated"]
      /\ want' = [want EXCEPT ![k].box = IF edits[n].box = "manual" THEN "none" ELSE @]
      /\ last' = [last EXCEPT ![k] = IF @ = "box" /\ edits[n].box = "manual" THEN "none" ELSE @]
      /\ boxed' = IF edits[n] = NoEdit /\ pending[k] # NoEdit THEN boxed \cup {k} ELSE boxed
      /\ Saved({})
      /\ UNCHANGED <<src, due, snap, stale, pending, made>>
  BY DEF SaveBox, SavedRow, Valid
<1>2. /\ t \in Tasks /\ n \in Number /\ k \in Key /\ k[1] = t /\ Alone(t)
      /\ job' \in [Jobs -> JobState] /\ JobInv'
  BY <1>1, TargetIs, KeyIs, FreshIsAlone, JobGoesOn DEF DraftInv
<1>3. edits[n] \in Edit /\ want[k] \in Edit /\ pending[k] \in Edit /\ last[k] \in Fields \cup {"none"}
  BY <1>2 DEF DraftInv, DraftTyped
<1>4. new \in Edit /\ wanted \in Edit
  BY <1>3 DEF Edit
<1>5. edits' = [edits EXCEPT ![n] = new] /\ want' = [want EXCEPT ![k] = wanted]
  BY <1>1, <1>2 DEF DraftInv, DraftTyped
<1>6. /\ new.action = edits[n].action /\ new.deleted = edits[n].deleted /\ new.text = edits[n].text
      /\ new.box = "generated"
      /\ wanted.action = want[k].action /\ wanted.deleted = want[k].deleted /\ wanted.text = want[k].text
      /\ edits[n].box # "manual" => wanted = want[k]
      /\ edits[n].box = "manual" => wanted.box = "none"
  BY <1>3 DEF Edit
<1> HIDE DEF new, wanted
<1>7. DraftTyped'
  <2>1. /\ edits' \in [Number -> Edit] /\ cot' \in [Number -> Text \cup {None}]
        /\ want' \in [Key -> Edit]
    <3>1. edits' \in [Number -> Edit] /\ want' \in [Key -> Edit]
      BY <1>4, <1>5 DEF DraftInv, DraftTyped
    <3>2. cot' \in [Number -> Text \cup {None}]
      BY <1>1 DEF DraftInv, DraftTyped
    <3> QED
      BY <3>1, <3>2
  <2>2. last' \in [Key -> Fields \cup {"none"}] /\ boxed' \subseteq Key
    BY <1>1, <1>2, <1>3 DEF DraftInv, DraftTyped
  <2>3. page' \in [Pages -> PageRecord \cup {None}]
    BY <1>1, SavedIs DEF DraftInv
  <2> QED
    BY <1>1, <1>2, <2>1, <2>2, <2>3 DEF DraftInv, DraftTyped
<1>8. FeedTyped' /\ SrcInv' /\ SnapInv'
  BY <1>1 DEF DraftInv, FeedTyped, SrcInv, SnapInv
<1>9. PageInv'
  <2>1. \A d \in Pages : page'[d] = page[d] \/ ~page'[d].fresh
    BY <1>1, SavedIs DEF DraftInv
  <2> QED
    BY <1>1, <2>1, PagesKept DEF DraftInv
<1>10. RowsInv'
  <2>1. /\ edits'[n] = new /\ cot'[n] = None /\ want'[k] = wanted
        /\ \A m \in Number \ {n} : edits'[m] = edits[m] /\ cot'[m] = cot[m]
        /\ \A l \in Key \ {k} : want'[l] = want[l] /\ last'[l] = last[l] /\ pending'[l] = pending[l]
        /\ boxed' \ {k} = boxed \ {k}
        /\ last'[k] = IF last[k] = "box" /\ edits[n].box = "manual" THEN "none" ELSE last[k]
    BY <1>1, <1>2, <1>5 DEF DraftInv, DraftTyped
  <2>2. /\ edits[n].action => want[k].action
        /\ edits[n].deleted => want[k].deleted
        /\ edits[n].text # None => edits[n].text = want[k].text
    BY <1>1, <1>2 DEF DraftInv, RowsInv, NothingMisplaced, Alone
  <2>3. ASSUME k \notin boxed', Chosen(wanted, last'[k]) PROVE Carries(new, last'[k], wanted)
    <3>1. k \notin boxed /\ (edits[n] # NoEdit \/ pending[k] = NoEdit)
      BY <1>1, <2>3
    <3>2. last'[k] = last[k] /\ last[k] \in {"action", "deleted", "text", "box"}
      <4>1. last'[k] # "none"
        BY <2>3, ChosenIs
      <4> QED
        BY <1>3, <2>1, <4>1, DraftAssumption
    <3>3. Chosen(want[k], last[k]) /\ (edits[n].box = "manual" => last[k] # "box")
      <4>1. Chosen(wanted, last[k]) /\ (edits[n].box = "manual" => last[k] # "box")
        BY <2>1, <2>3, <3>2, ChosenIs
      <4>2. CASE edits[n].box # "manual"
        BY <1>6, <4>1, <4>2
      <4>3. CASE last[k] = "action"
        BY <1>6, <4>1, <4>3, ChosenIs
      <4>4. CASE last[k] = "deleted"
        BY <1>6, <4>1, <4>4, ChosenIs
      <4>5. CASE last[k] = "text"
        BY <1>6, <4>1, <4>5, ChosenIs
      <4> QED
        BY <3>2, <4>1, <4>2, <4>3, <4>4, <4>5
    <3>4. Carries(edits[n], last[k], want[k])
      <4>1. CASE edits[n] # NoEdit
        BY <1>1, <1>2, <3>1, <3>3, <4>1 DEF DraftInv, RowsInv, RowInv
      <4>2. CASE edits[n] = NoEdit
        <5>1. Holds(k, last[k])
          BY <1>2, <3>1, <3>3 DEF DraftInv, RowsInv, LatestWriteKept
        <5> QED
          BY <1>2, <1>3, <3>1, <3>3, <4>2, <5>1, NoEditCarries DEF Holds
      <4> QED
        BY <4>1, <4>2
    <3>5. last[k] # "box"
      <4>1. ASSUME last[k] = "box" PROVE FALSE
        <5>1. edits[n].box = "manual"
          BY <3>3, <3>4, <4>1, ChosenIs
        <5> QED
          BY <3>3, <4>1, <5>1
      <4> QED
        BY <4>1
    <3>6. CASE last[k] = "action"
      BY <1>6, <3>2, <3>4, <3>6, ChosenIs
    <3>7. CASE last[k] = "deleted"
      BY <1>6, <3>2, <3>4, <3>7, ChosenIs
    <3>8. CASE last[k] = "text"
      BY <1>6, <3>2, <3>4, <3>8, ChosenIs
    <3> QED
      BY <3>2, <3>5, <3>6, <3>7, <3>8
  <2> HIDE DEF n, k, t
  <2>4. /\ new.action => wanted.action
        /\ new.deleted => wanted.deleted
        /\ new.box # "manual"
        /\ new.text # None => new.text = wanted.text
    BY <2>2, <1>6
  <2> QED
    BY <1>1, <1>2, <2>1, <2>3, <2>4, RowWritten DEF DraftInv, n, k
<1> QED
  BY <1>2, <1>7, <1>8, <1>9, <1>10 DEF DraftInv

LEMMA SaveCotKeeps ==
  ASSUME DraftInv, NEW j \in Jobs, SaveCot(j)
  PROVE  DraftInv'
<1> DEFINE t == TaskOf(j)
           n == snap[t].num
           k == KeyOf(t)
           asked == job[j].target.edit
           gone == Replaced(j, edits[n].text)
           new == [edits[n] EXCEPT !.text = IF gone THEN None ELSE @]
           wanted == [want[k] EXCEPT !.text = IF gone /\ @ = asked.text THEN None ELSE @]
           row == [src |-> job[j].target.src, action |-> asked.action]
<1>1. /\ job[j].status = "running" /\ t \notin stale /\ snap[t] # None
      /\ snap[t].src = job[j].target.src /\ edits[n].action = asked.action
      /\ cot' = [cot EXCEPT ![n] = row]
      /\ edits' = [edits EXCEPT ![n].text = IF gone THEN None ELSE @]
      /\ want' = [want EXCEPT ![k].text = IF gone /\ @ = asked.text THEN None ELSE @]
      /\ last' = [last EXCEPT ![k] = IF @ = "text" /\ want'[k].text = None THEN "none" ELSE @]
      /\ job' = [job EXCEPT ![j].step = "export"]
      /\ Saved({})
      /\ UNCHANGED <<src, due, snap, stale, pending, boxed, made>>
  BY DEF SaveCot, SavedRow, Valid
<1>2. /\ t \in Tasks /\ n \in Number /\ k \in Key /\ k[1] = t /\ Alone(t)
      /\ job' \in [Jobs -> JobState] /\ JobInv' /\ asked \in Edit /\ job[j].target.src \in Judged
  BY <1>1, TargetIs, KeyIs, FreshIsAlone, JobGoesOn DEF DraftInv
<1>3. edits[n] \in Edit /\ want[k] \in Edit /\ last[k] \in Fields \cup {"none"}
  BY <1>2 DEF DraftInv, DraftTyped
<1>4. new \in Edit /\ wanted \in Edit /\ row \in Text
  BY <1>2, <1>3 DEF Edit, Text
<1>5. edits' = [edits EXCEPT ![n] = new] /\ want' = [want EXCEPT ![k] = wanted]
  BY <1>1, <1>2 DEF DraftInv, DraftTyped
<1>6. /\ new.action = edits[n].action /\ new.deleted = edits[n].deleted /\ new.box = edits[n].box
      /\ new.text = IF gone THEN None ELSE edits[n].text
      /\ wanted.action = want[k].action /\ wanted.deleted = want[k].deleted /\ wanted.box = want[k].box
      /\ wanted.text = IF gone /\ want[k].text = asked.text THEN None ELSE want[k].text
      /\ ~gone => new = edits[n] /\ wanted = want[k]
  BY <1>3 DEF Edit
<1>7. gone => edits[n].text # None /\ edits[n].text = asked.text
  BY DEF Replaced
<1>8. row = [src |-> snap[t].src, action |-> new.action]
  BY <1>1, <1>6
<1> HIDE DEF new, wanted, row, gone
<1>9. DraftTyped'
  <2>1. edits' \in [Number -> Edit] /\ want' \in [Key -> Edit]
    BY <1>4, <1>5 DEF DraftInv, DraftTyped
  <2>2. cot' \in [Number -> Text \cup {None}]
    BY <1>1, <1>4 DEF DraftInv, DraftTyped
  <2>3. last' \in [Key -> Fields \cup {"none"}]
    BY <1>1, <1>3 DEF DraftInv, DraftTyped
  <2>4. page' \in [Pages -> PageRecord \cup {None}]
    BY <1>1, SavedIs DEF DraftInv
  <2> QED
    BY <1>1, <1>2, <2>1, <2>2, <2>3, <2>4 DEF DraftInv, DraftTyped
<1>10. FeedTyped' /\ SrcInv' /\ SnapInv'
  BY <1>1 DEF DraftInv, FeedTyped, SrcInv, SnapInv
<1>11. PageInv'
  <2>1. \A d \in Pages : page'[d] = page[d] \/ ~page'[d].fresh
    BY <1>1, SavedIs DEF DraftInv
  <2> QED
    BY <1>1, <2>1, PagesKept DEF DraftInv
<1>12. RowsInv'
  <2>1. /\ edits'[n] = new /\ want'[k] = wanted
        /\ \A m \in Number \ {n} : edits'[m] = edits[m]
        /\ \A l \in Key \ {k} : want'[l] = want[l]
    BY <1>2, <1>5 DEF DraftInv, DraftTyped
  <2>2. cot'[n] = row /\ \A m \in Number \ {n} : cot'[m] = cot[m]
    BY <1>1, <1>2 DEF DraftInv, DraftTyped
  <2>3. /\ \A l \in Key \ {k} : last'[l] = last[l] /\ pending'[l] = pending[l]
        /\ last'[k] = IF last[k] = "text" /\ wanted.text = None THEN "none" ELSE last[k]
    BY <1>1, <1>2, <2>1 DEF DraftInv, DraftTyped
  <2>4. /\ edits[n].action => want[k].action
        /\ edits[n].deleted => want[k].deleted
        /\ edits[n].box = "manual" => want[k].box = "manual"
        /\ edits[n].text # None => edits[n].text = want[k].text
    BY <1>1, <1>2 DEF DraftInv, RowsInv, NothingMisplaced, Alone
  <2>5. gone => new.text = None /\ wanted.text = None /\ edits[n] # NoEdit
    BY <1>6, <1>7, <2>4 DEF NoEdit
  <2>6. ASSUME k \notin boxed, Chosen(wanted, last'[k])
        PROVE  /\ new # NoEdit => Carries(new, last'[k], wanted)
               /\ Carries(new, last'[k], wanted) \/ Carries(pending[k], last'[k], wanted)
    <3>1. last'[k] = last[k] /\ last[k] # "none" /\ (gone => last[k] # "text")
      BY <2>3, <2>5, <2>6, ChosenIs
    <3>2. CASE ~gone
      <4>1. Chosen(want[k], last[k])
        BY <1>6, <2>6, <3>1, <3>2
      <4>2. Holds(k, last[k]) /\ (edits[n] # NoEdit => Carries(edits[n], last[k], want[k]))
        BY <1>1, <1>2, <2>6, <4>1 DEF DraftInv, RowsInv, LatestWriteKept, RowInv
      <4> QED
        BY <1>2, <1>6, <3>1, <3>2, <4>2 DEF Holds
    <3>3. CASE gone
      <4>1. last[k] \in {"action", "deleted", "box"}
        BY <1>3, <3>1, <3>3, DraftAssumption
      <4>2. Chosen(wanted, last[k])
        BY <2>6, <3>1
      <4>3. Chosen(want[k], last[k])
        <5>1. CASE last[k] = "action"
          BY <1>6, <4>2, <5>1, ChosenIs
        <5>2. CASE last[k] = "deleted"
          BY <1>6, <4>2, <5>2, ChosenIs
        <5>3. CASE last[k] = "box"
          BY <1>6, <4>2, <5>3, ChosenIs
        <5> QED
          BY <4>1, <5>1, <5>2, <5>3
      <4>4. Carries(edits[n], last[k], want[k])
        BY <1>1, <1>2, <2>5, <2>6, <3>3, <4>3 DEF DraftInv, RowsInv, RowInv
      <4>5. Carries(new, last[k], wanted)
        <5>1. CASE last[k] = "action"
          BY <1>6, <4>4, <5>1, ChosenIs
        <5>2. CASE last[k] = "deleted"
          BY <1>6, <4>4, <5>2, ChosenIs
        <5>3. CASE last[k] = "box"
          BY <1>6, <4>4, <5>3, ChosenIs
        <5> QED
          BY <4>1, <5>1, <5>2, <5>3
      <4> QED
        BY <3>1, <4>5
    <3> QED
      BY <3>2, <3>3
  <2>7. /\ new.action => wanted.action
        /\ new.deleted => wanted.deleted
        /\ new.box = "manual" => wanted.box = "manual"
        /\ new.text # None => new.text = wanted.text
    BY <1>6, <2>4, <2>5
  <2>8. /\ snap[t] # None /\ UNCHANGED <<snap, stale>>
        /\ cot'[n] # None => cot'[n] = [src |-> snap[t].src, action |-> edits'[n].action]
    BY <1>1, <1>8, <2>1, <2>2
  <2>9. /\ edits'[n].action => want'[k].action
        /\ edits'[n].deleted => want'[k].deleted
        /\ edits'[n].box = "manual" => want'[k].box = "manual"
        /\ edits'[n].text # None => edits'[n].text = want'[k].text
    BY <2>1, <2>7
  <2>10. k \notin boxed' /\ Chosen(want'[k], last'[k]) =>
           /\ edits'[n] # NoEdit => Carries(edits'[n], last'[k], want'[k])
           /\ Carries(edits'[n], last'[k], want'[k]) \/ Carries(pending'[k], last'[k], want'[k])
    <3>1. pending' = pending /\ boxed' = boxed
      BY <1>1
    <3> QED
      BY <2>1, <2>6, <3>1
  <2>11. /\ \A m \in Number \ {n} : edits'[m] = edits[m] /\ cot'[m] = cot[m]
         /\ \A l \in Key \ {k} : want'[l] = want[l] /\ last'[l] = last[l] /\ pending'[l] = pending[l]
         /\ boxed' \ {k} = boxed \ {k}
    BY <1>1, <2>1, <2>2, <2>3
  <2> HIDE DEF t
  <2> QED
    BY <1>2, <2>8, <2>9, <2>10, <2>11, RowWritten DEF DraftInv
<1> QED
  BY <1>2, <1>9, <1>10, <1>11, <1>12 DEF DraftInv

----------------------------------------------------------------------------
(* What happens upstream. *)

\* The latest write of a row that loses its edits is in their copy.
LEMMA InvalidatedKeeps ==
  ASSUME DraftInv, NEW tasks \in SUBSET Tasks, TasksInvalidated(tasks), UNCHANGED <<job, want, last, boxed>>
  PROVE  DraftTyped' /\ SnapInv' /\ PageInv' /\ JobInv' /\ RowsInv'
<1> DEFINE hit == {t \in tasks : snap[t] # None}
           numbers == {snap[t].num : t \in hit}
           what == [k \in Key |-> IF k[1] \in hit THEN edits[snap[k[1]].num] ELSE NoEdit]
<1>1. PICK first \in [numbers -> hit] :
        /\ \A n \in numbers : snap[first[n]].num = n
        /\ pending' = SetAside(pending, {KeyOf(first[n]) : n \in numbers}, what)
  BY DEF TasksInvalidated
<1> DEFINE moved == {KeyOf(first[n]) : n \in numbers}
<1>2. /\ edits' = [n \in Number |-> IF n \in numbers THEN NoEdit ELSE edits[n]]
      /\ cot' = [n \in Number |-> IF n \in numbers THEN None ELSE cot[n]]
      /\ stale' = stale \cup hit
      /\ page' = page \/ Saved({})
      /\ snap' = snap
  BY DEF TasksInvalidated
<1>3. \A u \in Tasks : snap[u] # None => snap[u].num \in Number /\ KeyOf(u) \in Key /\ KeyOf(u)[1] = u
  BY KeyIs DEF DraftInv
<1>4. /\ \A u \in hit : u \in Tasks /\ snap[u] # None /\ snap[u].num \in numbers
      /\ \A m \in numbers : \E u \in hit : snap[u].num = m
  OBVIOUS
<1>5. what \in [Key -> Edit]
  <2>1. \A k \in Key : k[1] \in hit => edits[snap[k[1]].num] \in Edit
    BY <1>3, <1>4 DEF DraftInv, DraftTyped
  <2> QED
    BY <2>1, EditIs
<1>6. \A k \in Key : k[1] \in hit => what[k] = edits[snap[k[1]].num]
  OBVIOUS
<1> HIDE DEF what, numbers, hit
<1>7. /\ pending' \in [Key -> Edit]
      /\ \A k \in Key : pending'[k] = IF k \in moved /\ what[k] # NoEdit THEN what[k] ELSE pending[k]
  BY <1>1, <1>5, SetAsideIs DEF DraftInv, DraftTyped
<1>8. \A n \in Number : /\ n \in numbers => edits'[n] = NoEdit /\ cot'[n] = None
                        /\ n \notin numbers => edits'[n] = edits[n] /\ cot'[n] = cot[n]
  BY <1>2
<1>9. /\ \A m : RowsAt(m)' = RowsAt(m)
      /\ \A u \in Tasks : KeyOf(u)' = KeyOf(u) /\ Alone(u)' = Alone(u)
  BY <1>2 DEF KeyOf, Alone, RowsAt
<1>10. DraftTyped'
  <2>1. edits' \in [Number -> Edit] /\ cot' \in [Number -> Text \cup {None}]
    BY <1>2, EditIs DEF DraftInv, DraftTyped
  <2>2. page' \in [Pages -> PageRecord \cup {None}]
    BY <1>2, SavedIs DEF DraftInv, DraftTyped
  <2>3. stale' \subseteq Tasks
    BY <1>2, <1>4 DEF DraftInv, DraftTyped
  <2> QED
    BY <1>2, <1>7, <2>1, <2>2, <2>3 DEF DraftInv, DraftTyped
<1>11. SnapInv' /\ JobInv'
  BY <1>2 DEF DraftInv, SnapInv, JobInv
<1>12. PageInv'
  <2>1. \A d \in Pages : page'[d] = page[d] \/ ~page'[d].fresh
    BY <1>2, SavedIs DEF DraftInv
  <2> QED
    BY <1>2, <2>1, PagesKept DEF DraftInv
<1>13. EmptyInv' /\ SharedInv' /\ RowInv'
  BY <1>3, <1>8, <1>9, <1>2 DEF DraftInv, RowsInv, EmptyInv, SharedInv, RowInv
<1>14. NothingMisplaced'
  <2> SUFFICES ASSUME NEW u \in Tasks, snap[u] # None, RowsAt(snap[u].num) = {u}
               PROVE  LET edit == edits'[snap[u].num]
                          wanted == want[KeyOf(u)]
                          text == cot'[snap[u].num]
                      IN /\ edit.action => wanted.action
                         /\ edit.deleted => wanted.deleted
                         /\ edit.box = "manual" => wanted.box = "manual"
                         /\ edit.text # None => edit.text = wanted.text
                         /\ text # None => text = [src |-> snap[u].src, action |-> edit.action]
    BY <1>2, <1>9 DEF NothingMisplaced
  <2>1. CASE snap[u].num \in numbers
    BY <1>3, <1>8, <2>1 DEF NoEdit
  <2>2. CASE snap[u].num \notin numbers
    BY <1>3, <1>8, <2>2 DEF DraftInv, RowsInv, NothingMisplaced
  <2> QED
    BY <2>1, <2>2
<1>15. LatestWriteKept'
  <2> SUFFICES ASSUME NEW l \in Key, l \notin boxed, Chosen(want[l], last[l])
               PROVE  \/ snap[l[1]] # None /\ KeyOf(l[1]) = l /\ Carries(edits'[snap[l[1]].num], last[l], want[l])
                      \/ Carries(pending'[l], last[l], want[l])
    BY KeyParts, <1>2, <1>9 DEF LatestWriteKept, Holds
  <2> DEFINE u == l[1]
  <2>1. u \in Tasks /\ want[l] \in Edit /\ last[l] \in Fields \cup {"none"} /\ last[l] # "none"
    BY KeyParts, ChosenIs DEF DraftInv, DraftTyped
  <2>2. Holds(l, last[l])
    BY DEF DraftInv, RowsInv, LatestWriteKept
  <2>3. ASSUME snap[u] # None, KeyOf(u) = l, edits[snap[u].num] # NoEdit
        PROVE  Alone(u) /\ Carries(edits[snap[u].num], last[l], want[l])
    BY <2>1, <2>3 DEF DraftInv, RowsInv, SharedInv, RowInv
  <2>4. CASE pending'[l] # pending[l]
    <3>1. l \in moved /\ what[l] # NoEdit /\ pending'[l] = what[l]
      BY <1>7, <2>4
    <3>2. u \in hit /\ snap[u] # None /\ KeyOf(u) = l
      BY <1>3, <1>4, <3>1
    <3> QED
      BY <1>6, <2>3, <3>1, <3>2
  <2>5. CASE pending'[l] = pending[l] /\ Carries(pending[l], last[l], want[l])
    BY <2>5
  <2>6. CASE /\ pending'[l] = pending[l]
             /\ snap[u] # None /\ KeyOf(u) = l /\ Carries(edits[snap[u].num], last[l], want[l])
    <3>1. edits[snap[u].num] # NoEdit
      BY <2>1, <2>6, NoEditCarries
    <3>2. RowsAt(snap[u].num) = {u}
      BY <2>3, <2>6, <3>1 DEF Alone
    <3>3. CASE u \in hit
      <4>1. snap[u].num \in numbers /\ first[snap[u].num] = u
        BY <1>1, <1>4, <3>2, <3>3 DEF RowsAt
      <4>2. l \in moved /\ what[l] = edits[snap[u].num]
        BY <1>6, <2>6, <3>3, <4>1
      <4> QED
        BY <1>7, <2>6, <3>1, <4>2
    <3>4. CASE u \notin hit
      <4>1. snap[u].num \notin numbers
        BY <1>4, <3>2, <3>4 DEF RowsAt
      <4> QED
        BY <1>3, <1>8, <2>1, <2>6, <4>1
    <3> QED
      BY <3>3, <3>4
  <2> QED
    BY <2>2, <2>4, <2>5, <2>6 DEF Holds
<1> QED
  BY <1>10, <1>11, <1>12, <1>13, <1>14, <1>15 DEF RowsInv

LEMMA SourcePublishedKeeps ==
  ASSUME DraftInv, NEW t \in Tasks, NEW s \in Feed[t], SourcePublished(t, s)
  PROVE  DraftInv'
<1>1. /\ src' = [src EXCEPT ![t] = s] /\ made' \in {made + 1, made + 2}
      /\ UNCHANGED <<job, want, last, boxed>>
      /\ due' = {} \/ due' = due \cup {t}
  BY DEF SourcePublished, history
<1>2. Feed[t] \subseteq Judged \cup {Unjudged, None}
  BY DraftAssumption
<1>3. FeedTyped' /\ SrcInv'
  BY <1>1, <1>2 DEF DraftInv, FeedTyped, SrcInv
<1>4. due \cup {t} \in SUBSET Tasks
  BY DEF DraftInv, FeedTyped
<1>5. CASE TasksInvalidated(due \cup {t})
  BY <1>1, <1>3, <1>4, <1>5, InvalidatedKeeps DEF DraftInv
<1>6. CASE UNCHANGED <<draft, page>>
  <2>1. UNCHANGED <<snap, stale, edits, cot, pending, page, job, want, last, boxed>>
    BY <1>1, <1>6 DEF draft
  <2>2. DraftTyped' /\ SnapInv' /\ PageInv' /\ JobInv'
    BY <2>1 DEF DraftInv, DraftTyped, SnapInv, PageInv, JobInv
  <2>3. /\ \A m : RowsAt(m)' = RowsAt(m)
        /\ \A u \in Tasks : KeyOf(u)' = KeyOf(u) /\ Alone(u)' = Alone(u)
    BY <2>1 DEF KeyOf, Alone, RowsAt
  <2>4. EmptyInv' /\ NothingMisplaced' /\ SharedInv' /\ RowInv'
    BY <2>1, <2>3 DEF DraftInv, RowsInv, EmptyInv, NothingMisplaced, SharedInv, RowInv
  <2>5. LatestWriteKept'
    BY <2>1, <2>3, KeyParts DEF DraftInv, RowsInv, LatestWriteKept, Holds
  <2> QED
    BY <1>3, <2>2, <2>4, <2>5 DEF DraftInv, RowsInv
<1> QED
  BY <1>5, <1>6 DEF SourcePublished

LEMMA DrainKeeps ==
  ASSUME DraftInv, Drain
  PROVE  DraftInv'
<1>1. /\ TasksInvalidated(due) /\ due' = {} /\ due \in SUBSET Tasks
      /\ UNCHANGED <<src, job, want, last, boxed, made>>
  BY DEF Drain, history, DraftInv, FeedTyped
<1>2. FeedTyped' /\ SrcInv'
  BY <1>1 DEF DraftInv, FeedTyped, SrcInv
<1> QED
  BY <1>1, <1>2, InvalidatedKeeps DEF DraftInv

----------------------------------------------------------------------------
(* A reconciliation. *)

\* The rows that a reconciliation carries with what is stored for them.
KeptRow(t) == snap[t] # None /\ Carried(t)

LEMMA ReconcileIs ==
  ASSUME DraftInv, Reconcile
  PROVE  /\ \A t \in Tasks :
              /\ t \in Ready => snap'[t] = [src |-> src[t], num |-> RowNumber(t)]
              /\ t \notin Ready /\ snap'[t] # None =>
                   /\ t \in stale /\ snap[t] # None
                   /\ snap'[t] \in Group /\ snap'[t].src = snap[t].src /\ snap'[t].num < 0
         /\ \A n \in Number :
              \/ edits'[n] = NoEdit /\ cot'[n] = None /\ \A t \in Tasks : KeptRow(t) => RowNumber(t) # n
              \/ \E t \in Tasks : /\ KeptRow(t) /\ RowNumber(t) = n
                                  /\ edits'[n] = edits[snap[t].num] /\ cot'[n] = cot[snap[t].num]
         /\ pending' \in [Key -> Edit]
         /\ \A t \in Tasks : snap[t] # None /\ ~Carried(t) /\ edits[snap[t].num] # NoEdit =>
              pending'[KeyOf(t)] = edits[snap[t].num]
         /\ \A k \in Key : pending'[k] # pending[k] =>
              \E t \in Tasks : /\ snap[t] # None /\ KeyOf(t) = k /\ edits[snap[t].num] # NoEdit
                               /\ pending'[k] = edits[snap[t].num]
         /\ stale' = stale \ Ready
         /\ snap' \in [Tasks -> Group \cup {None}]
         /\ edits' \in [Number -> Edit] /\ cot' \in [Number -> Text \cup {None}]
<1> DEFINE old == {t \in Tasks : snap[t] # None}
           kept == {t \in old : Carried(t)}
           from(n) == CHOOSE t \in kept : snap'[t].num = n
           what == [k \in Key |-> IF k[1] \in old THEN edits[snap[k[1]].num] ELSE NoEdit]
           moved == {KeyOf(t) : t \in old \ kept}
<1>1. /\ snap' = NewSnapshot
      /\ edits' = [n \in Number |-> IF \E t \in kept : snap'[t].num = n THEN edits[snap[from(n)].num] ELSE NoEdit]
      /\ cot' = [n \in Number |-> IF \E t \in kept : snap'[t].num = n THEN cot[snap[from(n)].num] ELSE None]
      /\ pending' = SetAside(pending, moved, what)
      /\ stale' = stale \ Ready
  BY DEF Reconcile
<1>2. \A t \in Tasks : snap[t] # None =>
        /\ snap[t] \in Group /\ snap[t].src \in Judged /\ snap[t].num \in Number
        /\ KeyOf(t) \in Key /\ KeyOf(t)[1] = t
        /\ edits[snap[t].num] \in Edit /\ cot[snap[t].num] \in Text \cup {None}
  BY KeyIs DEF DraftInv, DraftTyped
<1>3. \A t \in Tasks : RowNumber(t) \in Number /\ RowNumber(t) > 0
  BY RowNumberIs
<1>4. \A t \in Tasks :
        /\ t \in Ready => snap'[t] = [src |-> src[t], num |-> RowNumber(t)]
        /\ t \notin Ready /\ snap'[t] # None => t \in stale /\ snap[t] # None
  BY <1>1 DEF NewSnapshot
<1>5. \A t \in Tasks : t \notin Ready /\ snap'[t] # None =>
        snap'[t] \in Group /\ snap'[t].src = snap[t].src /\ snap'[t].num < 0
  <2> SUFFICES ASSUME NEW t \in Tasks, t \notin Ready, snap'[t] # None
               PROVE  snap'[t] \in Group /\ snap'[t].src = snap[t].src /\ snap'[t].num < 0
    OBVIOUS
  <2> DEFINE n == snap[t].num
             m == IF n > 0 THEN -n ELSE n
  <2>1. n \in Number /\ n \in Int /\ n # 0 /\ (n > 0 => -n \in Number)
    BY <1>2, <1>4, NumberIs
  <2>2. m \in Number /\ m < 0
    BY <2>1
  <2>3. snap[t] \in [src: Judged, num: Number] /\ snap'[t] = [snap[t] EXCEPT !.num = m]
    <3>1. snap'[t] = [snap[t] EXCEPT !.num = m]
      BY <1>1 DEF NewSnapshot
    <3> QED
      BY <1>2, <1>4, <3>1 DEF Group
  <2> HIDE DEF m, n
  <2>4. snap'[t].src = snap[t].src /\ snap'[t].num = m /\ snap'[t] \in Group
    BY <2>2, <2>3 DEF Group
  <2> QED
    BY <2>2, <2>4
<1>6. \A t \in kept : t \in Tasks /\ KeptRow(t) /\ t \in Ready /\ src[t] # None /\ snap'[t].num = RowNumber(t)
  <2>1. \A t \in kept : t \in Tasks /\ KeptRow(t) /\ snap[t].src = src[t]
    BY DEF KeptRow, Carried
  <2>2. \A t \in kept : src[t] \in Judged /\ src[t] # None
    BY <1>2, <2>1, DraftAssumption DEF KeptRow
  <2>3. ASSUME NEW t \in Tasks, t \in Ready PROVE snap'[t].num = RowNumber(t)
    <3>1. snap'[t] = [src |-> src[t], num |-> RowNumber(t)]
      BY <1>4, <2>3
    <3> QED
      BY <3>1
  <2> HIDE DEF kept
  <2> QED
    BY <2>1, <2>2, <2>3 DEF Ready
<1>7. \A t \in Tasks : KeptRow(t) => t \in kept
  BY DEF KeptRow
<1>8. \A n \in Number : \A t \in kept : RowNumber(t) = n => from(n) = t
  <2>1. \A t, u \in kept : RowNumber(t) = RowNumber(u) => t = u
    BY <1>6, RowsDiffer
  <2> QED
    BY <1>6, <2>1
<1> HIDE DEF from
<1>9. \A n \in Number :
        \/ edits'[n] = NoEdit /\ cot'[n] = None /\ \A t \in Tasks : KeptRow(t) => RowNumber(t) # n
        \/ \E t \in Tasks : /\ KeptRow(t) /\ RowNumber(t) = n
                            /\ edits'[n] = edits[snap[t].num] /\ cot'[n] = cot[snap[t].num]
  <2> SUFFICES ASSUME NEW n \in Number
               PROVE  \/ edits'[n] = NoEdit /\ cot'[n] = None /\ \A t \in Tasks : KeptRow(t) => RowNumber(t) # n
                      \/ \E t \in Tasks : /\ KeptRow(t) /\ RowNumber(t) = n
                                          /\ edits'[n] = edits[snap[t].num] /\ cot'[n] = cot[snap[t].num]
    OBVIOUS
  <2>1. /\ edits'[n] = IF \E t \in kept : snap'[t].num = n THEN edits[snap[from(n)].num] ELSE NoEdit
        /\ cot'[n] = IF \E t \in kept : snap'[t].num = n THEN cot[snap[from(n)].num] ELSE None
    BY <1>1
  <2>2. CASE \E t \in kept : snap'[t].num = n
    <3>1. PICK t \in kept : snap'[t].num = n
      BY <2>2
    <3>2. t \in Tasks /\ KeptRow(t) /\ RowNumber(t) = n /\ from(n) = t
      BY <1>6, <1>8, <3>1
    <3> QED
      BY <2>1, <2>2, <3>2
  <2>3. CASE ~\E t \in kept : snap'[t].num = n
    BY <1>6, <1>7, <2>1, <2>3
  <2> QED
    BY <2>2, <2>3
<1>10. what \in [Key -> Edit] /\ \A t \in Tasks : snap[t] # None => what[KeyOf(t)] = edits[snap[t].num]
  <2>1. \A k \in Key : k[1] \in old => edits[snap[k[1]].num] \in Edit
    BY <1>2
  <2> QED
    BY <1>2, <2>1, EditIs
<1> HIDE DEF what
<1>11. /\ pending' \in [Key -> Edit]
       /\ \A k \in Key : pending'[k] = IF k \in moved /\ what[k] # NoEdit THEN what[k] ELSE pending[k]
  BY <1>1, <1>10, SetAsideIs DEF DraftInv, DraftTyped
<1>12. \A t \in Tasks : snap[t] # None /\ ~Carried(t) /\ edits[snap[t].num] # NoEdit =>
         pending'[KeyOf(t)] = edits[snap[t].num]
  <2>1. \A t \in Tasks : snap[t] # None /\ ~Carried(t) => KeyOf(t) \in moved
    OBVIOUS
  <2> QED
    BY <1>2, <1>10, <1>11, <2>1
<1>13. \A k \in Key : pending'[k] # pending[k] =>
         \E t \in Tasks : /\ snap[t] # None /\ KeyOf(t) = k /\ edits[snap[t].num] # NoEdit
                          /\ pending'[k] = edits[snap[t].num]
  <2> SUFFICES ASSUME NEW k \in Key, pending'[k] # pending[k]
               PROVE  \E t \in Tasks : /\ snap[t] # None /\ KeyOf(t) = k /\ edits[snap[t].num] # NoEdit
                                       /\ pending'[k] = edits[snap[t].num]
    OBVIOUS
  <2>1. k \in moved /\ what[k] # NoEdit /\ pending'[k] = what[k]
    BY <1>11
  <2>2. PICK t \in old \ kept : KeyOf(t) = k
    BY <2>1
  <2> QED
    BY <1>10, <2>1, <2>2
<1>14. snap' \in [Tasks -> Group \cup {None}]
  <2>1. \A t \in Tasks : snap'[t] \in Group \cup {None}
    <3> TAKE t \in Tasks
    <3>1. CASE t \in Ready
      <4>1. src[t] \in Judged
        BY <3>1 DEF Ready
      <4>2. snap'[t] = [src |-> src[t], num |-> RowNumber(t)]
        BY <1>4, <3>1
      <4> QED
        BY <1>3, <4>1, <4>2 DEF Group
    <3>2. CASE t \notin Ready
      BY <1>5, <3>2
    <3> QED
      BY <3>1, <3>2
  <2> QED
    BY <1>1, <2>1 DEF NewSnapshot
<1>15. edits' \in [Number -> Edit] /\ cot' \in [Number -> Text \cup {None}]
  <2>1. \A n \in Number : edits'[n] \in Edit /\ cot'[n] \in Text \cup {None}
    BY <1>2, <1>9, EditIs DEF KeptRow
  <2> QED
    BY <1>1, <2>1
<1> QED
  BY <1>1, <1>4, <1>5, <1>9, <1>11, <1>12, <1>13, <1>14, <1>15

\* A row with anything stored for it is one that was carried, with what was stored for it.
LEMMA CarriedRows ==
  ASSUME DraftInv, Reconcile, NEW t \in Tasks, snap'[t] # None,
         edits'[snap'[t].num] # NoEdit \/ cot'[snap'[t].num] # None
  PROVE  /\ snap[t] # None /\ t \notin stale /\ snap'[t].num > 0
         /\ snap'[t].src = snap[t].src /\ KeyOf(t)' = KeyOf(t) /\ Alone(t)
         /\ edits'[snap'[t].num] = edits[snap[t].num] /\ cot'[snap'[t].num] = cot[snap[t].num]
<1> DEFINE n == snap'[t].num
<1>1. n \in Number /\ n \in Int
  <2>1. snap'[t] \in Group
    BY ReconcileIs
  <2> QED
    BY <2>1, NumberIs DEF Group
<1>2. PICK u \in Tasks : /\ KeptRow(u) /\ RowNumber(u) = n
                         /\ edits'[n] = edits[snap[u].num] /\ cot'[n] = cot[snap[u].num]
  BY <1>1, ReconcileIs
<1>3. n > 0
  BY <1>2, RowNumberIs
<1>4. t \in Ready /\ snap'[t] = [src |-> src[t], num |-> RowNumber(t)]
  <2>1. t \in Ready
    BY <1>1, <1>3, ReconcileIs
  <2> QED
    BY <2>1, ReconcileIs
<1>5. snap[u] # None /\ u \notin stale /\ snap[u].src = src[u]
  BY <1>2 DEF KeptRow, Carried
<1>6. src[t] \in Judged /\ src[u] \in Judged
  BY <1>4, <1>5, KeyIs DEF Ready, DraftInv
<1>7. src[t] # None /\ src[u] # None
  BY <1>6, DraftAssumption
<1>8. u = t
  BY <1>2, <1>4, <1>7, RowsDiffer
<1>9. Alone(t)
  BY <1>5, <1>8, FreshIsAlone DEF DraftInv
<1>10. snap'[t].src = snap[t].src
  BY <1>4, <1>5, <1>8
<1> QED
  BY <1>2, <1>3, <1>5, <1>8, <1>9, <1>10 DEF KeyOf

LEMMA ReconcileKeeps ==
  ASSUME DraftInv, Reconcile, UNCHANGED <<src, want, last, boxed>>
  PROVE  SnapInv' /\ RowsInv'
<1>1. \A t \in Tasks : snap'[t] # None =>
        /\ snap'[t] \in Group /\ snap'[t].src \in Judged
        /\ snap'[t].num \in Number /\ snap'[t].num \in Int /\ snap'[t].num # 0
  <2>1. \A t \in Tasks : snap'[t] # None => snap'[t] \in Group
    BY ReconcileIs
  <2> QED
    BY <2>1, NumberIs DEF Group
<1>2. ASSUME NEW t \in Tasks, t \in Ready
      PROVE  snap'[t].src = src[t] /\ snap'[t].num = RowNumber(t) /\ snap'[t].num > 0 /\ src[t] # None
                /\ src[t].task = t
  <2>1. snap'[t] = [src |-> src[t], num |-> RowNumber(t)]
    BY <1>2, ReconcileIs
  <2>2. src[t] \in Judged /\ src[t] \in Feed[t]
    BY <1>2 DEF Ready, DraftInv, SrcInv
  <2>3. src[t].task = t /\ src[t] # None
    BY <2>2, DraftAssumption
  <2> QED
    BY <2>1, <2>3, RowNumberIs
<1>3. \A t \in Tasks : t \notin Ready /\ snap'[t] # None =>
        t \in stale' /\ snap[t] # None /\ snap'[t].src = snap[t].src /\ snap'[t].num < 0
  BY ReconcileIs
<1>4. SnapInv'
  <2>1. ASSUME NEW t \in Tasks, snap'[t] # None
        PROVE  snap'[t].src.task = t /\ (snap'[t].num < 0 => t \in stale')
    <3>1. CASE t \in Ready
      BY <1>1, <1>2, <2>1, <3>1
    <3>2. CASE t \notin Ready
      BY <1>3, <2>1, <3>2 DEF DraftInv, SnapInv
    <3> QED
      BY <3>1, <3>2
  <2>2. ASSUME NEW t \in Tasks, NEW u \in Tasks, t # u, snap'[t] # None, snap'[u] # None,
               snap'[t].num = snap'[u].num
        PROVE  snap'[t].num < 0
    <3>1. ~(t \in Ready /\ u \in Ready)
      BY <1>2, <2>2, RowsDiffer
    <3> QED
      BY <1>3, <2>2, <3>1
  <2> QED
    BY <2>1, <2>2 DEF SnapInv
<1>5. EmptyInv'
  <2> SUFFICES ASSUME NEW n \in Number, RowsAt(n)' = {}
               PROVE  edits'[n] = NoEdit /\ cot'[n] = None
    BY DEF EmptyInv
  <2>1. ASSUME NEW t \in Tasks, KeptRow(t) PROVE RowNumber(t) # n
    <3>1. snap[t] # None /\ snap[t].src = src[t]
      BY <2>1 DEF KeptRow, Carried
    <3>2. src[t] \in Judged
      BY <3>1, KeyIs DEF DraftInv
    <3>3. t \in Ready
      BY <3>2 DEF Ready
    <3>4. snap'[t] = [src |-> src[t], num |-> RowNumber(t)]
      BY <3>3, ReconcileIs
    <3>5. snap'[t] # None
      BY <1>2, <3>3, <3>4, ReconcileIs, RowNumberIs, <3>2, DraftAssumption DEF Group
    <3> QED
      BY <1>2, <3>3, <3>5 DEF RowsAt
  <2> QED
    BY <2>1, ReconcileIs
<1>6. NothingMisplaced'
  <2> SUFFICES ASSUME NEW t \in Tasks, snap'[t] # None
               PROVE  LET edit == edits'[snap'[t].num]
                          wanted == want'[KeyOf(t)']
                          text == cot'[snap'[t].num]
                      IN /\ edit.action => wanted.action
                         /\ edit.deleted => wanted.deleted
                         /\ edit.box = "manual" => wanted.box = "manual"
                         /\ edit.text # None => edit.text = wanted.text
                         /\ text # None => text = [src |-> snap'[t].src, action |-> edit.action]
    BY DEF NothingMisplaced
  <2>1. CASE edits'[snap'[t].num] = NoEdit /\ cot'[snap'[t].num] = None
    BY <2>1 DEF NoEdit
  <2>2. CASE edits'[snap'[t].num] # NoEdit \/ cot'[snap'[t].num] # None
    <3>1. /\ snap[t] # None /\ RowsAt(snap[t].num) = {t}
          /\ snap'[t].src = snap[t].src /\ KeyOf(t)' = KeyOf(t)
          /\ edits'[snap'[t].num] = edits[snap[t].num] /\ cot'[snap'[t].num] = cot[snap[t].num]
      BY <2>2, CarriedRows DEF Alone
    <3> QED
      BY <3>1 DEF DraftInv, RowsInv, NothingMisplaced
  <2> QED
    BY <2>1, <2>2
<1>7. SharedInv'
  <2> SUFFICES ASSUME NEW t \in Tasks, snap'[t] # None, edits'[snap'[t].num] # NoEdit
               PROVE  Alone(t)'
    BY DEF SharedInv
  <2>1. snap'[t].num > 0
    BY CarriedRows
  <2>2. \A u \in Tasks : u # t /\ snap'[u] # None => snap'[u].num # snap'[t].num
    BY <1>1, <1>4, <2>1 DEF SnapInv
  <2> QED
    BY <2>2 DEF Alone, RowsAt
<1>8. RowInv'
  <2> SUFFICES ASSUME NEW t \in Tasks, snap'[t] # None, KeyOf(t)' \notin boxed,
                      edits'[snap'[t].num] # NoEdit, Chosen(want[KeyOf(t)'], last[KeyOf(t)'])
               PROVE  Carries(edits'[snap'[t].num], last[KeyOf(t)'], want[KeyOf(t)'])
    BY DEF RowInv
  <2>1. snap[t] # None /\ KeyOf(t)' = KeyOf(t) /\ edits'[snap'[t].num] = edits[snap[t].num]
    BY CarriedRows
  <2> QED
    BY <2>1 DEF DraftInv, RowsInv, RowInv
<1>9. LatestWriteKept'
  <2> SUFFICES ASSUME NEW l \in Key, l \notin boxed, Chosen(want[l], last[l])
               PROVE  \/ snap'[l[1]] # None /\ KeyOf(l[1])' = l /\ Carries(edits'[snap'[l[1]].num], last[l], want[l])
                      \/ Carries(pending'[l], last[l], want[l])
    BY KeyParts DEF LatestWriteKept, Holds, KeyOf
  <2> DEFINE u == l[1]
  <2>1. u \in Tasks /\ want[l] \in Edit /\ last[l] \in Fields \cup {"none"}
    BY KeyParts DEF DraftInv, DraftTyped
  <2>2. Holds(l, last[l])
    BY DEF DraftInv, RowsInv, LatestWriteKept
  <2>3. CASE pending'[l] # pending[l]
    <3>1. PICK t \in Tasks : /\ snap[t] # None /\ KeyOf(t) = l /\ edits[snap[t].num] # NoEdit
                             /\ pending'[l] = edits[snap[t].num]
      BY <2>3, ReconcileIs
    <3> QED
      BY <3>1 DEF DraftInv, RowsInv, RowInv
  <2>4. CASE pending'[l] = pending[l] /\ Carries(pending[l], last[l], want[l])
    BY <2>4
  <2>5. CASE /\ pending'[l] = pending[l]
             /\ snap[u] # None /\ KeyOf(u) = l /\ Carries(edits[snap[u].num], last[l], want[l])
    <3>1. edits[snap[u].num] # NoEdit
      BY <2>1, <2>5, NoEditCarries
    <3>2. CASE Carried(u)
      <4>1. snap[u].src = src[u] /\ KeptRow(u)
        BY <2>5, <3>2 DEF Carried, KeptRow
      <4>2. src[u] \in Judged
        BY <2>1, <2>5, <4>1, KeyIs DEF DraftInv
      <4>3. u \in Ready
        BY <2>1, <4>2 DEF Ready
      <4>4. snap'[u].src = src[u] /\ snap'[u].num = RowNumber(u) /\ src[u] # None /\ RowNumber(u) \in Number
        BY <1>2, <2>1, <4>3, RowNumberIs
      <4>5. snap'[u] # None
        <5>1. snap'[u] = [src |-> src[u], num |-> RowNumber(u)]
          BY <2>1, <4>3, ReconcileIs
        <5> QED
          BY <4>2, <4>4, <5>1, DraftAssumption DEF Group
      <4>6. PICK t \in Tasks : KeptRow(t) /\ RowNumber(t) = RowNumber(u) /\ edits'[RowNumber(u)] = edits[snap[t].num]
        BY <2>1, <4>1, <4>4, ReconcileIs
      <4>7. src[t] # None
        <5>1. snap[t] # None /\ snap[t].src = src[t]
          BY <4>6 DEF KeptRow, Carried
        <5>2. src[t] \in Judged
          BY <5>1, KeyIs DEF DraftInv
        <5> QED
          BY <5>2, DraftAssumption
      <4>8. t = u
        BY <2>1, <4>4, <4>6, <4>7, RowsDiffer
      <4>9. KeyOf(u)' = l
        BY <2>5, <4>1, <4>4 DEF KeyOf
      <4> QED
        BY <2>5, <4>4, <4>5, <4>6, <4>8, <4>9
    <3>3. CASE ~Carried(u)
      BY <2>1, <2>5, <3>1, <3>3, ReconcileIs
    <3> QED
      BY <3>2, <3>3
  <2> QED
    BY <2>2, <2>3, <2>4, <2>5 DEF Holds
<1> QED
  BY <1>4, <1>5, <1>6, <1>7, <1>8, <1>9 DEF RowsInv

LEMMA OpenPageKeeps ==
  ASSUME DraftInv, NEW c \in Pages, NEW t \in Tasks, OpenPage(c, t)
  PROVE  DraftInv'
<1> DEFINE shown == [task |-> t, traj |-> snap'[t].src.traj, num |-> snap'[t].num, fresh |-> TRUE]
<1>1. /\ UNCHANGED <<src, due, job, want, last, boxed, made>>
      /\ snap'[t] # None
      /\ Reconcile \/ UNCHANGED draft
      /\ page' = [d \in Pages |-> IF d = c THEN shown
                                  ELSE IF page[d] # None /\ draft' # draft THEN [page[d] EXCEPT !.fresh = FALSE]
                                  ELSE page[d]]
  BY DEF OpenPage, history
<1> HIDE DEF shown
<1>2. FeedTyped' /\ SrcInv' /\ JobInv'
  BY <1>1 DEF DraftInv, FeedTyped, SrcInv, JobInv
<1>3. /\ snap' \in [Tasks -> Group \cup {None}] /\ stale' \subseteq Tasks
      /\ edits' \in [Number -> Edit] /\ cot' \in [Number -> Text \cup {None}]
      /\ pending' \in [Key -> Edit]
  <2>1. CASE Reconcile
    BY <2>1, ReconcileIs DEF DraftInv, DraftTyped
  <2>2. CASE UNCHANGED draft
    BY <2>2 DEF DraftInv, DraftTyped, draft
  <2> QED
    BY <1>1, <2>1, <2>2
<1>4. SnapInv' /\ RowsInv'
  <2>1. CASE Reconcile
    BY <1>1, <2>1, ReconcileKeeps
  <2>2. CASE UNCHANGED draft
    <3>1. UNCHANGED <<snap, stale, edits, cot, pending, want, last, boxed>>
      BY <1>1, <2>2 DEF draft
    <3>2. /\ \A m : RowsAt(m)' = RowsAt(m)
          /\ \A u \in Tasks : KeyOf(u)' = KeyOf(u) /\ Alone(u)' = Alone(u)
      BY <3>1 DEF KeyOf, Alone, RowsAt
    <3>3. SnapInv' /\ EmptyInv' /\ NothingMisplaced' /\ SharedInv' /\ RowInv'
      BY <3>1, <3>2 DEF DraftInv, SnapInv, RowsInv, EmptyInv, NothingMisplaced, SharedInv, RowInv
    <3>4. LatestWriteKept'
      BY <3>1, <3>2, KeyParts DEF DraftInv, RowsInv, LatestWriteKept, Holds
    <3> QED
      BY <3>3, <3>4 DEF RowsInv
  <2> QED
    BY <1>1, <2>1, <2>2
<1>5. snap'[t].num \in Number /\ snap'[t].src.traj \in Trajs
  <2>1. snap'[t] \in Group
    BY <1>1, <1>3
  <2>2. snap'[t].src \in Judged /\ snap'[t].num \in Number
    BY <2>1 DEF Group
  <2>3. snap'[t].src \in Source
    BY <2>2, DraftAssumption
  <2> QED
    BY <2>2, <2>3 DEF Source
<1>6. /\ shown \in PageRecord /\ shown.task = t
      /\ shown.num = snap'[t].num /\ shown.traj = snap'[t].src.traj
  BY <1>5 DEF PageRecord, shown
<1>7. \A d \in Pages : page[d] # None =>
        /\ [page[d] EXCEPT !.fresh = FALSE] \in PageRecord
        /\ [page[d] EXCEPT !.fresh = FALSE].fresh = FALSE
  <2>1. \A d \in Pages : page[d] # None => page[d] \in PageRecord
    BY DEF DraftInv, DraftTyped
  <2> QED
    BY <2>1 DEF PageRecord
<1>8. \A d \in Pages : /\ d = c => page'[d] = shown
                       /\ d # c => \/ page'[d] = page[d] /\ (page[d] = None \/ draft' = draft)
                                   \/ page'[d] \in PageRecord /\ page'[d].fresh = FALSE
  BY <1>1, <1>7
<1>9. page' \in [Pages -> PageRecord \cup {None}]
  <2>1. \A d \in Pages : page'[d] \in PageRecord \cup {None}
    BY <1>6, <1>8 DEF DraftInv, DraftTyped
  <2> QED
    BY <1>1, <2>1
<1>10. DraftTyped'
  BY <1>1, <1>3, <1>9 DEF DraftInv, DraftTyped
<1>11. PageInv'
  <2> SUFFICES ASSUME NEW d \in Pages, page'[d] # None, page'[d].fresh
               PROVE  LET u == page'[d].task
                      IN  snap'[u] # None /\ page'[d].num = snap'[u].num /\ page'[d].traj = snap'[u].src.traj
    BY DEF PageInv
  <2>1. CASE d = c
    BY <1>1, <1>6, <1>8, <2>1
  <2>2. CASE d # c
    <3>1. page'[d] = page[d] /\ snap' = snap
      BY <1>8, <2>2 DEF draft
    <3> QED
      BY <3>1 DEF DraftInv, PageInv
  <2> QED
    BY <2>1, <2>2
<1> QED
  BY <1>2, <1>4, <1>10, <1>11 DEF DraftInv

----------------------------------------------------------------------------
(* The theorems. *)

LEMMA DraftStarts ==
  ASSUME DraftInit
  PROVE  DraftInv
<1>1. NoJob \in JobState /\ NoJob.status = "none" /\ NoEdit \in Edit
  BY NoJobIs, EditIs
<1>2. src \in [Tasks -> Judged \cup {Unjudged, None}] /\ SrcInv
  BY DraftAssumption DEF DraftInit, SrcInv
<1>3. DraftTyped /\ FeedTyped
  BY <1>1, <1>2 DEF DraftInit, DraftTyped, FeedTyped
<1>4. SnapInv /\ PageInv /\ JobInv
  BY <1>1 DEF DraftInit, SnapInv, PageInv, JobInv
<1>5. EmptyInv /\ NothingMisplaced /\ SharedInv /\ RowInv
  BY DEF DraftInit, EmptyInv, NothingMisplaced, SharedInv, RowInv
<1>6. LatestWriteKept
  BY ChosenIs DEF DraftInit, LatestWriteKept
<1> QED
  BY <1>2, <1>3, <1>4, <1>5, <1>6 DEF DraftInv, RowsInv

LEMMA DraftStutters ==
  ASSUME DraftInv, UNCHANGED draftVars
  PROVE  DraftInv'
<1>1. UNCHANGED <<src, due, snap, stale, edits, cot, pending, page, job, want, last, boxed, made>>
  BY DEF draftVars, draft, history
<1>2. job' \in [Jobs -> JobState] /\ \A j \in Jobs : job'[j].status # "none" => job'[j].target # None
  BY <1>1 DEF DraftInv, DraftTyped, JobInv
<1> QED
  BY <1>1, <1>2, JobsOnly DEF draft, history

LEMMA DraftStep ==
  ASSUME DraftInv, [DraftNext]_draftVars
  PROVE  DraftInv'
<1>1. ASSUME NEW t \in Tasks, NEW s \in Feed[t], SourcePublished(t, s) PROVE DraftInv'
  BY <1>1, SourcePublishedKeeps
<1>2. CASE Drain
  BY <1>2, DrainKeeps
<1>3. ASSUME NEW c \in Pages, Person(c) PROVE DraftInv'
  <2>1. ASSUME NEW t \in Tasks, OpenPage(c, t) PROVE DraftInv'
    BY <2>1, OpenPageKeeps
  <2>2. ASSUME NEW t \in Tasks, Adopt(c, t) PROVE DraftInv'
    BY <2>2, AdoptKeeps
  <2>3. ASSUME NEW t \in Tasks, Discard(c, t) PROVE DraftInv'
    BY <2>3, DiscardKeeps
  <2>4. ASSUME NEW field \in Fields, NEW text \in Texts, PatchRow(c, field, text) PROVE DraftInv'
    BY <2>4, PatchKeeps
  <2> QED
    BY <1>3, <2>1, <2>2, <2>3, <2>4 DEF Person
<1>4. ASSUME NEW j \in Jobs, JobStep(j) PROVE DraftInv'
  <2>1. ASSUME NEW t \in Tasks, NEW r \in Requests, Submit(j, t, r.bbox, r.force) PROVE DraftInv'
    BY <2>1, SubmitKeeps
  <2>2. CASE SaveBox(j)
    BY <2>2, SaveBoxKeeps
  <2>3. CASE SaveCot(j)
    BY <2>3, SaveCotKeeps
  <2>4. CASE Finish(j) \/ Fail(j)
    BY <2>4, EndKeeps
  <2> QED
    BY <1>4, <2>1, <2>2, <2>3, <2>4 DEF JobStep
<1>5. CASE UNCHANGED draftVars
  BY <1>5, DraftStutters
<1> QED
  BY <1>1, <1>2, <1>3, <1>4, <1>5 DEF DraftNext

\* The inductive invariant: rows and numbers, pages and the draft, and what is stored for each row.
THEOREM DraftInvariance == DraftSpec => []DraftInv
<1>1. DraftInit => DraftInv
  BY DraftStarts
<1>2. DraftInv /\ [DraftNext]_draftVars => DraftInv'
  BY DraftStep
<1> QED
  BY <1>1, <1>2, PTL DEF DraftSpec

\* Every variable of the draft, the pages and the jobs holds what it can hold.
THEOREM DraftTypeCorrect == DraftSpec => []DraftTypeOK
<1>1. DraftInv => DraftTypeOK
  BY TypeIs DEF DraftInv
<1> QED
  BY <1>1, DraftInvariance, PTL

\* What a person wrote last on a step is in the draft of that step or in its review copy
\* until a person discards it: across publications, drains, reconciliations that renumber
\* the rows, pages that are behind, and jobs, but for the box that a job saves in an empty
\* row beside the copy.
THEOREM LatestKept == DraftSpec => []LatestWriteKept
<1>1. DraftInv => LatestWriteKept
  BY DEF DraftInv, RowsInv
<1> QED
  BY <1>1, DraftInvariance, PTL

\* Nothing that a person chose for a step, and no text generated for one, ends at the
\* row of another.
THEOREM Placed == DraftSpec => []NothingMisplaced
<1>1. DraftInv => NothingMisplaced
  BY DEF DraftInv, RowsInv
<1> QED
  BY <1>1, DraftInvariance, PTL

----------------------------------------------------------------------------
(* ArtifactStore. *)

USE ConstantsAssumption

LEMMA InitInv == Init => IInv
<1> SUFFICES ASSUME Init PROVE IInv
  OBVIOUS
<1>1. TypeOK
  BY DEF Init, TypeOK, Nothing, Dir
<1>2. TransactionsInv
  BY DEF Init, TransactionsInv, Nothing
<1>3. UndoInv
  BY DEF Init, UndoInv, Pending, Nothing
<1>4. CallInv
  BY DEF Init, CallInv
<1>5. PublishInv /\ SwapInv /\ RecoverInv
  BY DEF Init, PublishInv, SwapInv, RecoverInv
<1> QED
  BY <1>1, <1>2, <1>3, <1>4, <1>5 DEF IInv

LEMMA DiskSame ==
  ASSUME TransactionsInv, UndoInv, UNCHANGED <<disk, reg, commitOp, used>>
  PROVE  TransactionsInv' /\ UndoInv'
<1>1. TransactionsInv'
  BY DEF TransactionsInv, disk
<1>2. UndoInv'
  BY DEF UndoInv, Pending, MustRemove, disk
<1> QED
  BY <1>1, <1>2

LEMMA UnlockStep ==
  ASSUME IInv, Unlock, TypeOK', UNCHANGED <<disk, reg, commitOp, used>>
  PROVE  IInv'
<1>1. TransactionsInv' /\ UndoInv'
  BY DiskSame DEF IInv
<1>2. CallInv'
  BY DEF Unlock, CallInv, IInv
<1>3. PublishInv' /\ SwapInv' /\ RecoverInv'
  BY DEF Unlock, PublishInv, SwapInv, RecoverInv
<1> QED
  BY <1>1, <1>2, <1>3 DEF IInv

LEMMA RaiseStep ==
  ASSUME IInv, Raise, pc # "idle", UNCHANGED <<disk, db, seen>>, faults' \in Nat
  PROVE  IInv'
<1>1. TypeOK'
  BY DEF Raise, Unlock, TypeOK, IInv, Nothing, disk, db
<1>2. CASE op = NoOp
  BY <1>1, <1>2, UnlockStep DEF Raise, db
<1>3. CASE op # NoOp
  <2>1. TransactionsInv' /\ UndoInv'
    BY DiskSame DEF IInv, db
  <2>2. CallInv'
    BY <1>3 DEF Raise, CallInv, IInv
  <2>3. PublishInv' /\ SwapInv' /\ RecoverInv'
    BY <1>3 DEF Raise, PublishInv, SwapInv, RecoverInv
  <2> QED
    BY <1>1, <2>1, <2>2, <2>3 DEF IInv
<1> QED
  BY <1>2, <1>3
LEMMA LockStep ==
  ASSUME IInv, NEW t \in Threads, Lock(t)
  PROVE  IInv'
<1>1. TypeOK'
  BY DEF Lock, TypeOK, IInv, disk, db
<1>2. TransactionsInv' /\ UndoInv'
  BY DiskSame DEF IInv, Lock, db
<1>3. CallInv' /\ PublishInv' /\ SwapInv' /\ RecoverInv'
  BY DEF Lock, IInv, CallInv, PublishInv, SwapInv, RecoverInv
<1> QED
  BY <1>1, <1>2, <1>3 DEF IInv

\* A thread's reads do not disturb the call of another.
LEMMA ObserveStep ==
  ASSUME IInv, NEW t \in Threads, NEW s \in Stages, Observe(t, s)
  PROVE  IInv'
<1>1. TypeOK'
  <2>1. Revision(reg[s]) \in Nat
    BY DEF IInv, TypeOK, Revision, Manifest
  <2> QED
    BY <2>1 DEF Observe, TypeOK, IInv, disk, db, call
<1>2. TransactionsInv' /\ UndoInv'
  BY DiskSame DEF IInv, Observe, db
<1>3. CallInv' /\ SwapInv' /\ RecoverInv'
  BY DEF Observe, IInv, CallInv, SwapInv, RecoverInv, disk, db, call, Pending
<1>4. PublishInv'
  <2>1. \A r \in Stages : seen'[holder][r] = seen[holder][r]
    BY DEF Observe, IInv, TypeOK
  <2> QED
    BY <2>1 DEF Observe, IInv, PublishInv, TypeOK, disk, db, call, Changed
<1> QED
  BY <1>1, <1>2, <1>3, <1>4 DEF IInv

-----------------------------------------------------------------------------
(* Recovery. *)

LEMMA ScanStep ==
  ASSUME IInv,
         ScanDone \/ \E o \in Ops : ScanUnjournaled(o) \/ ScanTorn(o) \/ ScanJournal(o)
  PROVE  IInv'
<1>1. ASSUME ScanDone \/ \E o \in Ops : ScanTorn(o), Unlock
      PROVE  IInv'
  <2>1. TypeOK'
    BY <1>1 DEF ScanDone, ScanTorn, Unlock, TypeOK, IInv, disk, db, Nothing
  <2> QED
    BY <1>1, <2>1, UnlockStep DEF ScanDone, ScanTorn, db
<1>2. ASSUME ScanDone, ~Unlock
      PROVE  IInv'
  <2>1. TypeOK'
    BY <1>2 DEF ScanDone, TypeOK, IInv, disk, db
  <2>2. TransactionsInv' /\ UndoInv'
    BY <1>2, DiskSame DEF ScanDone, IInv, db
  <2>3. CallInv' /\ PublishInv' /\ SwapInv' /\ RecoverInv'
    BY <1>2 DEF ScanDone, IInv, CallInv, PublishInv, SwapInv, RecoverInv, disk
  <2> QED
    BY <2>1, <2>2, <2>3 DEF IInv
<1>3. ASSUME NEW o \in Ops, ScanUnjournaled(o)
      PROVE  IInv'
  <2>1. TypeOK'
    BY <1>3 DEF ScanUnjournaled, TypeOK, IInv, disk, db
  <2>2. TransactionsInv' /\ UndoInv'
    BY <1>3, DiskSame DEF ScanUnjournaled, IInv, db
  <2>3. CallInv' /\ PublishInv' /\ SwapInv'
    BY <1>3 DEF ScanUnjournaled, IInv, CallInv, PublishInv, SwapInv, disk
  <2>4. final = reg
    BY <1>3 DEF ScanUnjournaled, IInv, UndoInv, TransactionsInv, TypeOK, Pending
  <2>5. RecoverInv'
    BY <1>3, <2>4 DEF ScanUnjournaled, IInv, CallInv, RecoverInv, Pending, disk, db
  <2> QED
    BY <2>1, <2>2, <2>3, <2>5 DEF IInv
<1>4. ASSUME NEW o \in Ops, ScanJournal(o)
      PROVE  IInv'
  <2>1. TypeOK'
    BY <1>4 DEF ScanJournal, TypeOK, IInv, disk, db
  <2>2. TransactionsInv' /\ UndoInv'
    BY <1>4, DiskSame DEF ScanJournal, IInv, db
  <2>3. CallInv' /\ PublishInv' /\ SwapInv'
    BY <1>4 DEF ScanJournal, IInv, CallInv, PublishInv, SwapInv, disk
  <2>4. RecoverInv'
    BY <1>4 DEF ScanJournal, IInv, CallInv, RecoverInv, Pending, TypeOK, disk, db
  <2> QED
    BY <2>1, <2>2, <2>3, <2>4 DEF IInv
<1>5. CASE ScanDone
  BY <1>1, <1>2, <1>5
<1>6. CASE \E o \in Ops : ScanTorn(o)
  BY <1>1, <1>6 DEF ScanTorn
<1> QED
  BY <1>3, <1>4, <1>5, <1>6

LEMMA UndoRemoveStep ==
  ASSUME IInv, NEW s \in Stages, UndoRemove(s)
  PROVE  IInv'
<1> USE DEF IInv
<1>0. op \in Ops /\ op \in dirs /\ Pending(op) /\ s \in changes[op]
  BY DEF UndoRemove, CallInv, RecoverInv, Pending, TypeOK
<1>1. TypeOK'
  BY DEF UndoRemove, TypeOK, Dir, db, call
<1>2. TransactionsInv'
  BY DEF UndoRemove, TransactionsInv, db, call
<1>3. UndoInv'
  BY <1>0 DEF UndoRemove, UndoInv, Pending, MustRemove, TypeOK, db, call
<1>4. CallInv' /\ PublishInv' /\ SwapInv'
  BY DEF UndoRemove, CallInv, PublishInv, SwapInv, db, call
<1>5. RecoverInv'
  BY DEF UndoRemove, RecoverInv, TypeOK, db, call
<1> QED
  BY <1>1, <1>2, <1>3, <1>4, <1>5

LEMMA UndoRenameStep ==
  ASSUME IInv, NEW s \in Stages, UndoRename(s)
  PROVE  IInv'
<1> USE DEF IInv
<1>0. /\ op \in Ops /\ op \in dirs /\ Pending(op) /\ s \in changes[op] /\ previous[op][s] = reg[s]
      /\ \A o \in Ops : Pending(o) => o = op
  BY DEF UndoRename, CallInv, RecoverInv, UndoInv, MustRemove, TransactionsInv, Pending, TypeOK
<1>1. TypeOK'
  BY <1>0 DEF UndoRename, TypeOK, Dir, db
<1>2. TransactionsInv'
  BY <1>0 DEF UndoRename, TransactionsInv, TypeOK, db
<1>3. UndoInv'
  <2>1. ASSUME NEW r \in Stages PROVE
           /\ r # s => previous'[op][r] = previous[op][r] /\ final'[r] = final[r]
           /\ r = s => previous'[op][r] = Absent /\ final'[r] = reg[r]
    BY <1>0 DEF UndoRename, TypeOK
  <2> QED
    BY <1>0, <2>1 DEF UndoRename, UndoInv, Pending, MustRemove, db
<1>4. CallInv' /\ PublishInv' /\ SwapInv'
  BY DEF UndoRename, CallInv, PublishInv, SwapInv, db
<1>5. RecoverInv'
  BY <1>0 DEF UndoRename, RecoverInv, TypeOK, db
<1> QED
  BY <1>1, <1>2, <1>3, <1>4, <1>5

LEMMA UndoNothingStep ==
  ASSUME IInv, NEW s \in Stages, UndoNothing(s)
  PROVE  IInv'
<1> USE DEF IInv
<1>0. /\ op \in Ops /\ Pending(op) /\ s \in changes[op]
      /\ \A o \in Ops : Pending(o) => o = op
  BY DEF UndoNothing, CallInv, RecoverInv, TransactionsInv, Pending, TypeOK
<1>1. TypeOK'
  BY DEF UndoNothing, TypeOK, disk, db
<1>2. TransactionsInv' /\ UndoInv'
  BY DiskSame DEF UndoNothing, db
<1>3. CallInv' /\ PublishInv' /\ SwapInv'
  BY DEF UndoNothing, CallInv, PublishInv, SwapInv, disk
<1>4. final[s] = reg[s]
  BY <1>0 DEF UndoNothing, UndoInv, MustRemove
<1>5. RecoverInv'
  BY <1>0, <1>4 DEF UndoNothing, RecoverInv, disk, db
<1> QED
  BY <1>1, <1>2, <1>3, <1>5

LEMMA UndoDoneStep ==
  ASSUME IInv, UndoDone
  PROVE  IInv'
<1> USE DEF IInv
<1>0. /\ op \in Ops /\ op \in dirs /\ journal[op] = "whole"
      /\ \A o \in Ops : Pending(o) => o = op
  BY DEF UndoDone, CallInv, RecoverInv, TransactionsInv, Pending, TypeOK
<1>1. TypeOK'
  BY DEF UndoDone, TypeOK, disk, db
<1>2. TransactionsInv' /\ UndoInv'
  BY DiskSame DEF UndoDone, db
<1>3. CallInv' /\ PublishInv' /\ SwapInv'
  BY DEF UndoDone, CallInv, PublishInv, SwapInv, disk
<1>4. \A s \in Stages : final[s] = reg[s] /\ (Pending(op) => previous[op][s] = Absent)
  BY <1>0 DEF UndoDone, UndoInv, RecoverInv, Pending
<1>5. RecoverInv'
  BY <1>0, <1>4 DEF UndoDone, CallInv, RecoverInv, Pending, TypeOK, disk, db
<1> QED
  BY <1>1, <1>2, <1>3, <1>5
-----------------------------------------------------------------------------
(* Removal of a transaction that is over: the files already are the
   registered ones, so no entry of it matters any more. *)

LEMMA RemoveEntryStep ==
  ASSUME IInv,
         RemoveJournal \/ \E s \in Stages : RemovePrepared(s) \/ RemovePrevious(s)
  PROVE  IInv'
<1> USE DEF IInv
<1>0. pc = "remove" /\ op \in Ops /\ op \in dirs /\ final = reg
  BY DEF RemoveJournal, RemovePrepared, RemovePrevious, CallInv, RecoverInv, TypeOK
<1>1. ASSUME RemoveJournal PROVE IInv'
  <2>1. TypeOK'
    BY <1>0, <1>1 DEF RemoveJournal, TypeOK, db, call
  <2>2. TransactionsInv'
    BY <1>0, <1>1 DEF RemoveJournal, TransactionsInv, TypeOK, db, call
  <2>3. \A o \in Ops : Pending(o)' => Pending(o) /\ o # op
    BY <1>0, <1>1 DEF RemoveJournal, TypeOK, Pending, db, call
  <2>4. UndoInv'
    BY <1>0, <1>1, <2>3 DEF RemoveJournal, UndoInv, MustRemove, TypeOK, db, call
  <2>5. CallInv' /\ PublishInv' /\ SwapInv'
    BY <1>0, <1>1 DEF RemoveJournal, CallInv, PublishInv, SwapInv, db, call
  <2>6. RecoverInv'
    BY <1>0, <1>1, <2>3 DEF RemoveJournal, RecoverInv, db, call
  <2> QED
    BY <2>1, <2>2, <2>4, <2>5, <2>6
<1>2. ASSUME NEW s \in Stages, RemovePrepared(s) PROVE IInv'
  <2>1. TypeOK'
    BY <1>0, <1>2 DEF RemovePrepared, TypeOK, db, call
  <2>2. TransactionsInv'
    BY <1>0, <1>2 DEF RemovePrepared, TransactionsInv, TypeOK, db, call
  <2>3. \A o \in Ops, r \in Stages : Pending(o) => Pending(o)' /\ o = op /\ previous[o][r] = Absent
    BY <1>0, <1>2 DEF RemovePrepared, Pending, TransactionsInv, RecoverInv, db, call
  <2>4. UndoInv'
    BY <1>0, <1>2, <2>3 DEF RemovePrepared, UndoInv, MustRemove, Pending, TypeOK, db, call
  <2>5. CallInv' /\ PublishInv' /\ SwapInv'
    BY <1>0, <1>2 DEF RemovePrepared, CallInv, PublishInv, SwapInv, db, call
  <2>6. RecoverInv'
    BY <1>0, <1>2 DEF RemovePrepared, RecoverInv, Pending, db, call
  <2> QED
    BY <2>1, <2>2, <2>4, <2>5, <2>6
<1>3. ASSUME NEW s \in Stages, RemovePrevious(s) PROVE IInv'
  <2>1. TypeOK'
    BY <1>0, <1>3 DEF RemovePrevious, TypeOK, Dir, db, call
  <2>2. TransactionsInv'
    BY <1>0, <1>3 DEF RemovePrevious, TransactionsInv, TypeOK, db, call
  <2>3. \A o \in Ops : ~Pending(o)
    BY <1>0, <1>3 DEF RemovePrevious, Pending, TransactionsInv, RecoverInv
  <2>4. UndoInv'
    BY <1>0, <1>3, <2>3 DEF RemovePrevious, UndoInv, Pending, db, call
  <2>5. CallInv' /\ PublishInv' /\ SwapInv'
    BY <1>0, <1>3 DEF RemovePrevious, CallInv, PublishInv, SwapInv, db, call
  <2>6. RecoverInv'
    BY <1>0, <1>3, <2>3 DEF RemovePrevious, RecoverInv, Pending, db, call
  <2> QED
    BY <2>1, <2>2, <2>4, <2>5, <2>6
<1> QED
  BY <1>1, <1>2, <1>3

LEMMA RemoveDirStep ==
  ASSUME IInv, RemoveDir
  PROVE  IInv'
<1> USE DEF IInv
<1>0. /\ pc = "remove" /\ op \in Ops /\ final = reg /\ dirs' = {} /\ todo = {}
      /\ \A o \in Ops : ~Pending(o)
  BY DEF RemoveDir, CallInv, RecoverInv, TransactionsInv, Pending, TypeOK
<1>1. TypeOK'
  BY DEF RemoveDir, Unlock, TypeOK, Nothing, db
<1>2. TransactionsInv'
  BY <1>0 DEF RemoveDir, TransactionsInv, db
<1>3. UndoInv'
  BY <1>0 DEF RemoveDir, UndoInv, Pending, db
<1>4. CallInv'
  BY <1>0 DEF RemoveDir, Unlock, CallInv, TypeOK, db
<1>5. PublishInv' /\ SwapInv' /\ RecoverInv'
  BY <1>0 DEF RemoveDir, Unlock, PublishInv, SwapInv, RecoverInv, db
<1> QED
  BY <1>1, <1>2, <1>3, <1>4, <1>5

-----------------------------------------------------------------------------
(* A recovered call, and publish_many up to its journal. *)

LEMMA LeaveStep ==
  ASSUME IInv, Leave \/ Publish \/ KeepAll \/ Crash
  PROVE  IInv'
<1>1. /\ Unlock /\ UNCHANGED <<disk, reg, commitOp, used, seen>>
  BY DEF Leave, Publish, KeepAll, Crash, db
<1>2. published' \in BOOLEAN
  BY DEF Leave, Publish, KeepAll, Crash, db, IInv, TypeOK
<1>3. faults' \in Nat
  BY DEF Leave, Publish, KeepAll, Crash, IInv, TypeOK
<1>4. TypeOK'
  BY <1>1, <1>2, <1>3 DEF Unlock, TypeOK, IInv, disk, Nothing
<1> QED
  BY <1>1, <1>4, UnlockStep

LEMMA BeginStep ==
  ASSUME IInv, NEW entries \in SUBSET Stages, Begin(entries)
  PROVE  IInv'
<1> USE DEF IInv
<1>1. TypeOK'
  BY DEF Begin, TypeOK, disk, db
<1>2. TransactionsInv' /\ UndoInv'
  BY DiskSame DEF Begin, db
<1>3. CallInv'
  BY DEF Begin, CallInv, disk
<1>4. PublishInv'
  BY DEF Begin, CallInv, PublishInv, Changed, Nothing, disk, db
<1>5. SwapInv' /\ RecoverInv'
  BY DEF Begin, SwapInv, RecoverInv
<1> QED
  BY <1>1, <1>2, <1>3, <1>4, <1>5

LEMMA ConflictStep ==
  ASSUME IInv, (\E s \in Stages : Conflict(s)) \/ Fault
  PROVE  IInv'
<1>1. pc # "idle" /\ Raise /\ UNCHANGED <<disk, db, seen>>
  BY DEF Conflict, Fault
<1>2. faults' \in Nat
  BY DEF Conflict, Fault, IInv, TypeOK
<1> QED
  BY <1>1, <1>2, RaiseStep

LEMMA LoopStep ==
  ASSUME IInv, Prepared \/ \E s \in Stages : Reuse(s)
  PROVE  IInv'
<1> USE DEF IInv
<1>1. TypeOK'
  BY DEF Prepared, Reuse, TypeOK, disk, db
<1>2. TransactionsInv' /\ UndoInv'
  BY DiskSame DEF Prepared, Reuse, db
<1>3. CallInv'
  BY DEF Prepared, Reuse, CallInv, PublishInv, disk
<1>4. PublishInv'
  BY DEF Prepared, Reuse, CallInv, PublishInv, disk, db
<1>5. SwapInv' /\ RecoverInv'
  BY DEF Prepared, Reuse, SwapInv, RecoverInv
<1> QED
  BY <1>1, <1>2, <1>3, <1>4, <1>5

LEMMA SuccessorType ==
  ASSUME NEW m \in Manifest \cup {Absent}, NEW p \in Payloads
  PROVE  Successor(m, p) \in Manifest /\ Successor(m, p) # Absent /\ Successor(m, p).data = p
  BY DEF Successor, Revision, Manifest

LEMMA PrepareStep ==
  ASSUME IInv, NEW s \in Stages, NEW payload \in Payloads, NEW checked \in BOOLEAN,
         Prepare(s, payload, checked)
  PROVE  IInv'
<1> USE DEF IInv
<1> DEFINE m == Successor(reg[s], payload)
<1>1. m \in Manifest /\ m # Absent /\ m.data = payload
  BY SuccessorType DEF TypeOK
<1>2. PICK o \in Ops :
        /\ IF op = NoOp THEN o \notin used ELSE o = op
        /\ op' = o /\ used' = used \cup {o} /\ dirs' = dirs \cup {o}
        /\ prepared' = [prepared EXCEPT ![o][s] = m]
  BY DEF Prepare
<1>3. /\ dirs' = {o} /\ o # NoOp /\ commitOp # o /\ journal[o] = "none"
      /\ \A r \in Stages : prepared[o][r] = writes[r] /\ previous[o][r] = Absent
  BY <1>2 DEF Prepare, PublishInv, TransactionsInv, TypeOK, Nothing
<1>4. /\ writes' = [writes EXCEPT ![s] = m]
      /\ \A r \in Stages : /\ writes'[r] = IF r = s THEN m ELSE writes[r]
                           /\ prepared'[o][r] = writes'[r]
  BY <1>2, <1>3 DEF Prepare, TypeOK
<1>5. Changed(writes)' = Changed(writes) \cup {s}
  BY <1>1, <1>4 DEF Changed
<1>6. final = reg
  BY <1>2, <1>3 DEF UndoInv, TransactionsInv, PublishInv, Prepare, Pending, TypeOK
<1>7. TypeOK'
  BY <1>1, <1>2, <1>4 DEF Prepare, TypeOK
<1>8. TransactionsInv'
  BY <1>2, <1>3 DEF Prepare, TransactionsInv, TypeOK
<1>9. UndoInv'
  BY <1>2, <1>3, <1>6 DEF Prepare, UndoInv, Pending, TransactionsInv, TypeOK
<1>10. CallInv'
  BY <1>2, <1>3 DEF Prepare, CallInv
<1>11. PublishInv'
  <2>1. \A r \in Changed(writes)' : /\ writes'[r] = Successor(reg[r], writes'[r].data)
                                    /\ Differs(reg[r], writes'[r].data)
    BY <1>1, <1>4, <1>5 DEF Prepare, PublishInv
  <2>2. had' = {r \in Changed(writes)' : reg[r] # Absent}
    BY <1>5, <1>6 DEF Prepare, PublishInv
  <2>3. \A r \in tokened' : seen[holder][r] = Revision(reg[r])
    BY DEF Prepare, VersionMatches, PublishInv
  <2> QED
    BY <1>2, <1>3, <1>4, <2>1, <2>2, <2>3 DEF Prepare, PublishInv
<1>12. SwapInv' /\ RecoverInv'
  BY DEF Prepare, SwapInv, RecoverInv
<1> QED
  BY <1>7, <1>8, <1>9, <1>10, <1>11, <1>12
-----------------------------------------------------------------------------
(* The journal, the swap and the commit. *)

LEMMA JournalOpenStep ==
  ASSUME IInv, JournalOpen
  PROVE  IInv'
<1> USE DEF IInv
<1>0. op \in Ops /\ op \in dirs /\ pc = "journal"
  BY DEF JournalOpen, CallInv, TypeOK
<1>1. TypeOK'
  BY DEF JournalOpen, TypeOK, db, call
<1>2. TransactionsInv'
  BY <1>0 DEF JournalOpen, TransactionsInv, TypeOK, db, call
<1>3. \A o \in Ops : Pending(o)' <=> Pending(o)
  BY <1>0 DEF JournalOpen, Pending, TypeOK, db, call
<1>4. UndoInv'
  BY <1>3 DEF JournalOpen, UndoInv, MustRemove, db, call
<1>5. CallInv' /\ SwapInv' /\ RecoverInv'
  BY <1>0 DEF JournalOpen, CallInv, SwapInv, RecoverInv, db, call
<1>6. PublishInv'
  BY <1>0 DEF JournalOpen, PublishInv, Changed, TypeOK, db, call
<1> QED
  BY <1>1, <1>2, <1>4, <1>5, <1>6

LEMMA JournalWrittenStep ==
  ASSUME IInv, JournalWritten
  PROVE  IInv'
<1> USE DEF IInv
<1>0. /\ op \in Ops /\ dirs = {op} /\ commitOp # op /\ op # NoOp /\ journal[op] # "whole"
      /\ \A s \in Stages : prepared[op][s] = writes[s] /\ previous[op][s] = Absent
      /\ had = {s \in Changed(writes) : reg[s] # Absent}
  BY DEF JournalWritten, CallInv, PublishInv, TransactionsInv, TypeOK
<1>1. \A s \in Stages : final[s] = reg[s]
  BY <1>0 DEF UndoInv, TransactionsInv, Pending
<1>2. /\ journal'[op] = "whole" /\ changes'[op] = Changed(writes) /\ hadPrev'[op] = had
      /\ \A o \in Ops : o # op => journal'[o] = journal[o] /\ changes'[o] = changes[o]
  BY <1>0 DEF JournalWritten, TypeOK
<1>3. TypeOK'
  BY DEF JournalWritten, TypeOK, Changed, db
<1>4. TransactionsInv'
  BY <1>0, <1>2 DEF JournalWritten, TransactionsInv, db
<1>5. UndoInv'
  BY <1>0, <1>1, <1>2 DEF JournalWritten, UndoInv, Pending, MustRemove, Changed, db
<1>6. CallInv'
  BY <1>0 DEF JournalWritten, CallInv
<1>7. PublishInv'
  BY <1>0 DEF JournalWritten, PublishInv, Changed, db
<1>8. SwapInv'
  BY <1>0, <1>2 DEF JournalWritten, Changed, SwapInv
<1>9. RecoverInv'
  BY DEF JournalWritten, RecoverInv
<1> QED
  BY <1>3, <1>4, <1>5, <1>6, <1>7, <1>8, <1>9

LEMMA SwapFacts ==
  ASSUME IInv, pc = "swap"
  PROVE  /\ op \in Ops /\ dirs = {op} /\ Pending(op) /\ op # NoOp
         /\ \A o \in Ops : Pending(o) => o = op
         /\ \A s \in todo : s \in Stages /\ writes[s] # Absent /\ prepared[op][s] # Absent
         /\ \A s \in todo : MustRemove(op, s) <=> previous[op][s] # Absent
         /\ \A s \in todo : previous[op][s] = Absent => final[s] = reg[s]
<1> USE DEF IInv
<1>1. /\ op \in Ops /\ op # NoOp /\ dirs = {op} /\ Pending(op)
      /\ \A o \in Ops : Pending(o) => o = op
  BY DEF CallInv, TransactionsInv, PublishInv, SwapInv, Pending, TypeOK
<1>2. \A s \in todo : s \in Stages /\ writes[s] # Absent /\ prepared[op][s] # Absent
  BY DEF SwapInv, Changed
<1>3. \A s \in todo : MustRemove(op, s) <=> previous[op][s] # Absent
  BY <1>2 DEF MustRemove
<1> QED
  BY <1>1, <1>2, <1>3 DEF UndoInv

LEMMA MoveOutStep ==
  ASSUME IInv, NEW s \in Stages, MoveOut(s)
  PROVE  IInv'
<1> USE DEF IInv
<1>0. pc = "swap" /\ op \in Ops /\ dirs = {op} /\ Pending(op) /\ op # NoOp
      /\ \A o \in Ops : Pending(o) => o = op
  BY SwapFacts DEF MoveOut
<1>1. final[s] = reg[s] /\ reg[s] # Absent /\ s \in Changed(writes) /\ s \in hadPrev[op]
      /\ s \in changes[op] /\ previous[op][s] = Absent
  BY <1>0, SwapFacts DEF MoveOut, SwapInv, PublishInv
<1>2. \A r \in Stages : /\ previous'[op][r] = IF r = s THEN reg[s] ELSE previous[op][r]
                        /\ final'[r] = IF r = s THEN Absent ELSE final[r]
  BY <1>0, <1>1 DEF MoveOut, TypeOK
<1>3. TypeOK'
  BY <1>0 DEF MoveOut, TypeOK, Dir, db, call
<1>4. TransactionsInv'
  BY <1>0 DEF MoveOut, TransactionsInv, TypeOK, db, call
<1>5. UndoInv'
  BY <1>0, <1>1, <1>2 DEF MoveOut, UndoInv, Pending, MustRemove, db, call
<1>6. CallInv'
  BY DEF MoveOut, CallInv, db, call
<1>7. PublishInv'
  BY <1>0 DEF MoveOut, PublishInv, Changed, db, call
<1>8. SwapInv'
  BY <1>0, <1>1, <1>2 DEF MoveOut, SwapInv, Changed, db, call
<1>9. RecoverInv'
  BY <1>0 DEF MoveOut, RecoverInv, db, call
<1> QED
  BY <1>3, <1>4, <1>5, <1>6, <1>7, <1>8, <1>9

LEMMA MoveInStep ==
  ASSUME IInv, NEW s \in Stages, MoveIn(s)
  PROVE  IInv'
<1> USE DEF IInv
<1>0. pc = "swap" /\ op \in Ops /\ dirs = {op} /\ Pending(op) /\ op # NoOp
      /\ \A o \in Ops : Pending(o) => o = op
  BY SwapFacts DEF MoveIn
<1>1. /\ s \in Changed(writes) /\ s \in changes[op] /\ prepared[op][s] = writes[s]
      /\ previous[op][s] = reg[s]
  BY <1>0, SwapFacts DEF MoveIn, SwapInv, UndoInv
<1>2. \A r \in Stages : /\ prepared'[op][r] = IF r = s THEN Absent ELSE prepared[op][r]
                        /\ final'[r] = IF r = s THEN writes[s] ELSE final[r]
  BY <1>0, <1>1 DEF MoveIn, TypeOK
<1>3. reg[s] # Absent \/ s \notin hadPrev[op]
  BY <1>0 DEF SwapInv, PublishInv
<1>4. TypeOK'
  BY <1>0 DEF MoveIn, TypeOK, Dir, db
<1>5. TransactionsInv'
  BY <1>0 DEF MoveIn, TransactionsInv, TypeOK, db
<1>6. UndoInv'
  BY <1>0, <1>1, <1>2, <1>3 DEF MoveIn, UndoInv, Pending, MustRemove, db
<1>7. CallInv'
  BY <1>0 DEF MoveIn, CallInv, db
<1>8. PublishInv'
  BY <1>0 DEF MoveIn, PublishInv, Changed, db
<1>9. SwapInv'
  BY <1>0, <1>1, <1>2 DEF MoveIn, SwapInv, Changed, db
<1>10. RecoverInv'
  BY <1>0 DEF MoveIn, RecoverInv, db
<1> QED
  BY <1>4, <1>5, <1>6, <1>7, <1>8, <1>9, <1>10

LEMMA CommitFacts ==
  ASSUME IInv, Commit
  PROVE  /\ op \in Ops /\ dirs = {op} /\ final = reg'
         /\ reg' \in [Stages -> Manifest \cup {Absent}]
<1> USE DEF IInv
<1>1. /\ op \in Ops /\ dirs = {op}
      /\ \A o \in Ops : Pending(o) => o = op
  BY SwapFacts DEF Commit
<1>2. \A s \in Stages \ Changed(writes) : final[s] = reg[s]
  BY <1>1 DEF Commit, SwapInv, UndoInv
<1>3. \A s \in Changed(writes) : final[s] = writes[s]
  BY DEF Commit, SwapInv
<1>4. reg' \in [Stages -> Manifest \cup {Absent}]
  BY DEF Commit, TypeOK
<1> QED
  BY <1>1, <1>2, <1>3, <1>4 DEF Commit, TypeOK

LEMMA CommitStep ==
  ASSUME IInv, Commit
  PROVE  IInv'
<1> USE DEF IInv
<1>0. op \in Ops /\ dirs = {op} /\ final = reg'
  BY CommitFacts
<1>1. TypeOK'
  BY <1>0, CommitFacts DEF Commit, TypeOK, disk
<1>2. TransactionsInv'
  BY <1>0 DEF Commit, TransactionsInv, disk
<1>3. \A o \in Ops : ~Pending(o)'
  BY <1>0 DEF Commit, Pending, disk
<1>4. UndoInv'
  BY <1>0, <1>3 DEF Commit, UndoInv, disk
<1>5. CallInv'
  BY <1>0 DEF Commit, CallInv, disk
<1>6. PublishInv' /\ SwapInv'
  BY DEF Commit, PublishInv, SwapInv
<1>7. RecoverInv'
  BY <1>0, <1>3 DEF Commit, RecoverInv, disk
<1> QED
  BY <1>1, <1>2, <1>4, <1>5, <1>6, <1>7

-----------------------------------------------------------------------------

LEMMA StutterStep ==
  ASSUME IInv, UNCHANGED vars
  PROVE  IInv'
<1>1. TypeOK' /\ TransactionsInv' /\ UndoInv'
  BY DiskSame DEF IInv, TypeOK, vars, disk, db, call
<1>2. CallInv' /\ PublishInv' /\ SwapInv' /\ RecoverInv'
  BY DEF IInv, CallInv, PublishInv, SwapInv, RecoverInv, Pending, Changed, vars, disk, db, call
<1> QED
  BY <1>1, <1>2 DEF IInv

LEMMA NextInv ==
  ASSUME IInv, [Next]_vars
  PROVE  IInv'
<1>1. CASE Recover
  BY <1>1, ScanStep, UndoDoneStep, UndoRemoveStep, UndoRenameStep, UndoNothingStep DEF Recover
<1>2. CASE Remove
  BY <1>2, RemoveEntryStep, RemoveDirStep DEF Remove
<1>3. CASE Leave \/ Publish \/ KeepAll \/ Crash
  BY <1>3, LeaveStep
<1>4. CASE Fault
  BY <1>4, ConflictStep
<1>5. CASE PublishMany
  BY <1>5, BeginStep, ConflictStep, LoopStep, MoveOutStep, MoveInStep, PrepareStep, LeaveStep,
     JournalOpenStep, JournalWrittenStep, CommitStep DEF PublishMany
<1>6. ASSUME NEW t \in Threads, Lock(t) \/ \E s \in Stages : Observe(t, s)
      PROVE  IInv'
  BY <1>6, LockStep, ObserveStep
<1>7. CASE UNCHANGED vars
  BY <1>7, StutterStep
<1> QED
  BY <1>1, <1>2, <1>3, <1>4, <1>5, <1>6, <1>7 DEF Next, Progress

\* The inductive invariant of the store.
THEOREM Invariance == Spec => []IInv
<1>1. IInv /\ [Next]_vars => IInv'
  BY NextInv
<1> QED
  BY <1>1, InitInv, PTL DEF Spec

\* Every variable keeps its type.
THEOREM TypeCorrect == Spec => []TypeOK
<1>1. IInv => TypeOK
  BY DEF IInv
<1> QED
  BY <1>1, Invariance, PTL

LEMMA InvRecovered == IInv => RecoveredIsRegistered
<1> SUFFICES ASSUME IInv PROVE Recovered = reg
  BY DEF RecoveredIsRegistered
<1> USE DEF IInv
<1>1. ASSUME NEW s \in Stages PROVE Recovered[s] = reg[s]
  <2> DEFINE Undo(o) == Pending(o) /\ s \in changes[o] /\ MustRemove(o, s)
  <2>1. CASE \E o \in Ops : Undo(o)
    <3>1. PICK o \in Ops : Undo(o) /\ o = CHOOSE q \in Ops : Undo(q)
      BY <2>1
    <3>2. Recovered[s] = previous[o][s]
      BY <2>1, <3>1 DEF Recovered
    <3> QED
      BY <3>1, <3>2 DEF UndoInv
  <2>2. CASE ~\E o \in Ops : Undo(o)
    BY <2>2 DEF Recovered, UndoInv
  <2> QED
    BY <2>1, <2>2
<1> QED
  BY <1>1 DEF Recovered, TypeOK

\* Whatever a crash or an exception cut short, _recover restores the
\* registered directories of every stage.
THEOREM CrashAtomicity == Spec => []RecoveredIsRegistered
  BY InvRecovered, Invariance, PTL

\* A call that has recovered reads the registered files, never others.
THEOREM ReadersCorrect == Spec => []ReadersFindRegistered
<1>1. IInv => ReadersFindRegistered
  BY DEF IInv, ReadersFindRegistered, CallInv, UndoInv, Pending, TypeOK
<1> QED
  BY <1>1, Invariance, PTL

\* A publication made from a version replaces no other.
THEOREM NoUpdateLost == Spec => NoLostUpdate
<1>1. IInv /\ [Next]_vars =>
        [\A s \in tokened : reg'[s] # reg[s] => seen[holder][s] = Revision(reg[s])]_vars
  <2> SUFFICES ASSUME IInv, Next, reg' # reg, NEW s \in tokened
               PROVE  seen[holder][s] = Revision(reg[s])
    OBVIOUS
  <2>1. Commit
    BY DEF Next, Progress, Recover, Remove, PublishMany, ScanDone, UndoDone, ScanUnjournaled, ScanTorn,
           ScanJournal, UndoRemove, UndoRename, UndoNothing, RemoveJournal, RemoveDir,
           RemovePrepared, RemovePrevious, Leave, Publish, Begin, Conflict, Reuse, MoveOut, MoveIn,
           Prepare, KeepAll, Prepared, JournalOpen, JournalWritten, Crash, Fault, Lock, Observe, db
  <2> QED
    BY <2>1 DEF Commit, IInv, PublishInv
<1> QED
  BY <1>1, Invariance, PTL DEF NoLostUpdate, Spec
-----------------------------------------------------------------------------
(* Refinement: the commit is the one step that publishes. *)

LEMMA CommitRefines ==
  ASSUME IInv, Commit, Recovered = reg, Recovered' = reg'
  PROVE  Current!Publish(Changed(writes))
<1> DEFINE payload == [s \in Changed(writes) |-> writes[s].data]
<1>1. payload \in [Changed(writes) -> Payloads]
  BY DEF IInv, TypeOK, Changed, Manifest
<1>2. \A s \in Changed(writes) : /\ writes[s] = Successor(reg[s], payload[s])
                                 /\ Differs(reg[s], payload[s])
  BY DEF Commit, IInv, PublishInv
<1>3. reg' = [s \in Stages |-> IF s \in Changed(writes) THEN Successor(reg[s], payload[s]) ELSE reg[s]]
  BY <1>2 DEF Commit
<1>4. ~published /\ UNCHANGED published
  BY DEF Commit, IInv, PublishInv
<1> QED
  BY <1>1, <1>2, <1>3, <1>4
     DEF Current!Publish, Current!Successor, Current!Differs, Current!Revision, Successor, Differs, Revision

LEMMA StepRefines ==
  ASSUME IInv, [Next]_vars, Recovered = reg, Recovered' = reg'
  PROVE  [Current!Next]_(Current!vars)
<1>1. CASE Commit
  <2>1. Changed(writes) \in SUBSET Stages
    BY DEF Changed
  <2> QED
    BY <1>1, <2>1, CommitRefines DEF Current!Next
<1>2. CASE Publish
  BY <1>2 DEF Publish, Current!Next, Current!Close
<1>3. CASE ~Commit /\ ~Publish
  <2>1. UNCHANGED <<reg, published>>
    BY <1>3 DEF Next, Progress, Recover, Remove, PublishMany, ScanDone, UndoDone, ScanUnjournaled, ScanTorn,
           ScanJournal, UndoRemove, UndoRename, UndoNothing, RemoveJournal, RemoveDir,
           RemovePrepared, RemovePrevious, Leave, Begin, Conflict, Reuse, MoveOut, MoveIn,
           Prepare, VersionMatches, KeepAll, Prepared, JournalOpen, JournalWritten, Crash, Fault, Lock, Observe, db, vars
  <2> QED
    BY <2>1 DEF Current!vars
<1> QED
  BY <1>1, <1>2, <1>3

\* publish_many, with its crashes and recoveries, implements the atomic
\* publication.
THEOREM Refinement == Spec => ImplementsCurrent
<1>1. Init => Current!Init
  <2>1. Init => Recovered = reg
    BY InitInv, InvRecovered DEF RecoveredIsRegistered
  <2> QED
    BY <2>1 DEF Init, Current!Init, Nothing
<1>2. IInv /\ IInv' /\ [Next]_vars => [Current!Next]_(Current!vars)
  <2>1. IInv' => (Recovered = reg)'
    BY InvRecovered, PTL DEF RecoveredIsRegistered
  <2> QED
    BY <2>1, InvRecovered, StepRefines DEF RecoveredIsRegistered
<1> QED
  BY <1>1, <1>2, Invariance, PTL DEF Spec, ImplementsCurrent, Current!Spec
=============================================================================
