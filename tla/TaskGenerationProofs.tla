------------------------ MODULE TaskGenerationProofs ------------------------
(***************************************************************************)
(* No row of a job and nothing a person wrote in it is ever lost, and a    *)
(* seed shown as generated has its rows: for all seeds and plans, any      *)
(* number of crashes, exceptions and edits.                                *)
(***************************************************************************)
EXTENDS TaskGeneration, TLAPS

SeedMaps == [Seeds -> Seed] \cup [{} -> Seed]
Disks == [job : Job, seeds : SeedMaps, rows : SUBSET Row, folder : SUBSET Row, artifact : SUBSET Row]
Made == {"succeeded", "partial"}

\* Each seed of d that is shown as generated has a row.
Backed(d) == \A s \in DOMAIN d.seeds : d.seeds[s].gen \in Made => \E r \in d.rows : r.unit = s

\* Nothing has rows before its rows were asked for.
Untouched(d) ==
  /\ d.job.status \in {"none", "queued", "awaiting_confirmation"} => d.rows = {}
  /\ Augmentation /\ ~d.job.begun => d.rows = {}
  /\ d.job.status = "none" => ~d.job.begun

Sound(d) == d \in Disks /\ Backed(d) /\ Untouched(d)

\* What d has of rows e has too, with no text taken back.
Grown(d, e) == \A r \in d.rows : \E q \in e.rows : q.unit = r.unit /\ q.part = r.part /\ q.text >= r.text

\* e has the job and the rows of d, and shows no more seeds as generated.
Closes(d, e) ==
  /\ e.job = d.job /\ e.rows = d.rows /\ DOMAIN e.seeds = DOMAIN d.seeds
  /\ \A s \in DOMAIN d.seeds : e.seeds[s].gen \in Made => d.seeds[s].gen \in Made

\* What the executor holds, and where its thread is.
WorkInv ==
  /\ plan \in Plans /\ up \in BOOLEAN /\ queue \subseteq Phases
  /\ worker \in Phases \cup {"idle", "start", "failing"}
  /\ pool \in [Seeds -> {"todo", "open", "done", "broken"}]
  /\ ~up => queue = {} /\ worker = "idle"
  /\ \A t, u \in queue : t = u
  /\ queue # {} => /\ disk.rows = {} /\ disk.job.status \in {"queued", "failed"}
                   /\ worker \in {"idle", "start", "failing"}
  /\ \A t \in queue \cup ({worker} \cap Phases) : t = "initial" <=> ~Augmentation
  /\ worker \in Phases => disk.job.status = "running"
  /\ worker = "start" => Augmentation
  /\ worker = "failing" => disk.job.status # "none"
  /\ Augmentation /\ (queue # {} \/ worker \in Phases \cup {"start"}) => DOMAIN disk.seeds = Seeds
  /\ "classify" \in queue \/ worker = "classify" => ~disk.job.begun
  /\ "generate" \in queue \/ worker = "generate" => disk.job.begun

\* The rows there are while rows are made, and the answers they are of.
AnswerInv ==
  /\ answer \in [Seeds -> [rows : SUBSET Row, issue : BOOLEAN]]
  /\ \A s \in Seeds : \A r \in answer[s].rows : r.unit = s
  /\ worker \in {"classify", "initial"} => disk.rows = {}
  /\ worker = "generate" =>
       \A r \in disk.rows : /\ pool[r.unit] \in {"done", "broken"}
                            /\ pool[r.unit] = "done" => r \in answer[r.unit].rows

GenerationInv == Sound(disk) /\ WorkInv /\ AnswerInv

USE DEF Made

-----------------------------------------------------------------------------
(* What is written to the disk. *)

LEMMA GrownSame == ASSUME NEW d \in Disks, NEW e \in Disks, d.rows \subseteq e.rows PROVE Grown(d, e)
<1>1. \A r \in d.rows : r.text \in Nat
  BY DEF Disks, Row
<1> QED BY <1>1 DEF Grown

LEMMA StopSeed ==
  ASSUME NEW x \in Seed PROVE Stop(x) \in Seed /\ (Stop(x).gen \in Made => x.gen \in Made)
  BY DEF Stop, Seed

LEMMA StopCloses == ASSUME NEW d \in Disks PROVE Stopped(d) \in Disks /\ Closes(d, Stopped(d))
<1>1. CASE ~Augmentation
  BY <1>1 DEF Stopped, Closes
<1>2. CASE Augmentation
  <2> DEFINE f == [s \in DOMAIN d.seeds |-> Stop(d.seeds[s])]
  <2>1. \A s \in DOMAIN d.seeds : d.seeds[s] \in Seed
    BY DEF Disks, SeedMaps
  <2>2. f \in SeedMaps /\ DOMAIN f = DOMAIN d.seeds
    BY <2>1, StopSeed DEF Disks, SeedMaps
  <2>3. \A s \in DOMAIN d.seeds : f[s].gen \in Made => d.seeds[s].gen \in Made
    BY <2>1, StopSeed
  <2>4. Stopped(d) = [d EXCEPT !.seeds = f]
    BY <1>2 DEF Stopped
  <2> HIDE DEF f
  <2> QED BY <2>2, <2>3, <2>4 DEF Disks, Closes
<1> QED BY <1>1, <1>2

\* A new status, and other words on the job.
LEMMA JobWrites ==
  ASSUME NEW d \in Disks
  PROVE  /\ \A st \in Statuses : /\ [d EXCEPT !.job.status = st] \in Disks
                                 /\ [d EXCEPT !.job.status = st].job = [d.job EXCEPT !.status = st]
                                 /\ [d EXCEPT !.job.status = st].seeds = d.seeds
                                 /\ [d EXCEPT !.job.status = st].rows = d.rows
         /\ Queued(d) \in Disks /\ Queued(d).rows = d.rows /\ Queued(d).seeds = d.seeds
         /\ Queued(d).job.status = "queued" /\ Queued(d).job.begun = d.job.begun
         /\ Failed(d) \in Disks /\ Failed(d).rows = d.rows /\ Failed(d).job.status = "failed"
         /\ Failed(d).job.begun = d.job.begun /\ Failed(d).seeds = Stopped(d).seeds
         /\ Interrupted(d) \in Disks /\ Interrupted(d).rows = d.rows
         /\ Interrupted(d).job.status = "interrupted" /\ Interrupted(d).job.begun = d.job.begun
         /\ Interrupted(d).seeds = Stopped(d).seeds
<1>1. \A e \in Disks, st \in Statuses : [e EXCEPT !.job.status = st] \in Disks
  BY DEF Disks, Job
<1>2. d.job \in Job /\ Stopped(d) \in Disks /\ Stopped(d).job = d.job /\ Stopped(d).rows = d.rows
  BY StopCloses DEF Disks, Closes
<1>3. \A e \in Disks : [e EXCEPT !.job.status = "failed", !.job.errors = TRUE] \in Disks
  BY DEF Disks, Job, Statuses
<1>4. ASSUME NEW e \in Disks, NEW st \in Statuses
      PROVE  /\ [e EXCEPT !.job.status = st].job = [e.job EXCEPT !.status = st]
             /\ [e EXCEPT !.job.status = st].job.status = st
             /\ [e EXCEPT !.job.status = st].job.begun = e.job.begun
             /\ [e EXCEPT !.job.status = st].seeds = e.seeds
             /\ [e EXCEPT !.job.status = st].rows = e.rows
  BY DEF Disks, Job
<1>5. ASSUME NEW e \in Disks
      PROVE  /\ [e EXCEPT !.job.status = "failed", !.job.errors = TRUE].job.status = "failed"
             /\ [e EXCEPT !.job.status = "failed", !.job.errors = TRUE].job.begun = e.job.begun
             /\ [e EXCEPT !.job.status = "failed", !.job.errors = TRUE].seeds = e.seeds
             /\ [e EXCEPT !.job.status = "failed", !.job.errors = TRUE].rows = e.rows
  BY DEF Disks, Job
<1>6. "queued" \in Statuses /\ "interrupted" \in Statuses
  BY DEF Statuses
<1>7. /\ Queued(d) \in Disks /\ Queued(d).rows = d.rows /\ Queued(d).seeds = d.seeds
      /\ Queued(d).job.status = "queued" /\ Queued(d).job.begun = d.job.begun
  BY <1>1, <1>4, <1>6 DEF Queued
<1>8. /\ Failed(d) \in Disks /\ Failed(d).rows = d.rows /\ Failed(d).job.status = "failed"
      /\ Failed(d).job.begun = d.job.begun /\ Failed(d).seeds = Stopped(d).seeds
  BY <1>2, <1>3, <1>5 DEF Failed
<1>9. /\ Interrupted(d) \in Disks /\ Interrupted(d).rows = d.rows
      /\ Interrupted(d).job.status = "interrupted" /\ Interrupted(d).job.begun = d.job.begun
      /\ Interrupted(d).seeds = Stopped(d).seeds
  BY <1>1, <1>2, <1>4, <1>6 DEF Interrupted
<1> QED BY <1>1, <1>4, <1>7, <1>8, <1>9

\* The rows stay, and so do the seeds, but for those that were stopped.
Follows(d, e) ==
  /\ d \in Disks /\ e \in Disks /\ e.rows = d.rows
  /\ \A s \in DOMAIN e.seeds : e.seeds[s].gen \in Made => s \in DOMAIN d.seeds /\ d.seeds[s].gen \in Made

LEMMA FollowsSound ==
  ASSUME NEW d, NEW e, Follows(d, e), Sound(d),
         e.job.status \in {"none", "queued", "awaiting_confirmation"} => d.rows = {},
         e.job.begun = d.job.begun \/ d.rows = {},
         e.job.status = "none" => ~e.job.begun
  PROVE  Sound(e) /\ Grown(d, e)
<1>1. Grown(d, e)
  BY GrownSame DEF Follows
<1>2. Backed(e)
  BY DEF Follows, Sound, Backed
<1> QED BY <1>1, <1>2 DEF Sound, Follows, Untouched

\* A stop at any write, and the end of a job that fails or was interrupted.
LEMMA StopSound ==
  ASSUME NEW d, Sound(d)
  PROVE  /\ Sound(Stopped(d)) /\ Grown(d, Stopped(d))
         /\ Sound(Failed(d)) /\ Grown(d, Failed(d))
         /\ Sound(Interrupted(d)) /\ Grown(d, Interrupted(d))
<1>1. d \in Disks /\ Stopped(d) \in Disks /\ Closes(d, Stopped(d))
  BY StopCloses DEF Sound
<1>2. Follows(d, Stopped(d)) /\ Follows(d, Failed(d)) /\ Follows(d, Interrupted(d))
  BY <1>1, JobWrites DEF Follows, Closes
<1>3. Sound(Stopped(d)) /\ Grown(d, Stopped(d))
  BY <1>1, <1>2, FollowsSound DEF Closes, Sound, Untouched
<1>4. Sound(Failed(d)) /\ Grown(d, Failed(d))
  BY <1>1, <1>2, JobWrites, FollowsSound
<1>5. Sound(Interrupted(d)) /\ Grown(d, Interrupted(d))
  BY <1>1, <1>2, JobWrites, FollowsSound
<1> QED BY <1>3, <1>4, <1>5

\* A completed classification: it waits for a person while nothing has rows.
LEMMA ReadySound ==
  ASSUME NEW d, Sound(d), d.rows = {}, d.job.status # "none"
  PROVE  /\ Sound(Ready(d)) /\ Grown(d, Ready(d)) /\ Ready(d).rows = {} /\ Ready(d).seeds = d.seeds
         /\ Ready(d).job.status \in {"awaiting_confirmation", "failed"}
         /\ Ready(d).job.begun = d.job.begun
<1> DEFINE st == IF Eligible(d) # {} THEN "awaiting_confirmation" ELSE "failed"
           er == \E s \in DOMAIN d.seeds : d.seeds[s].cls = "failed"
<1>1. Ready(d) = [d EXCEPT !.job.status = st, !.job.classified = TRUE, !.job.errors = er]
  BY DEF Ready
<1>2. st \in {"awaiting_confirmation", "failed"} /\ er \in BOOLEAN /\ d \in Disks
  BY DEF Sound
<1> HIDE DEF st, er
<1>3. d.job \in Job
  BY <1>2 DEF Disks
<1>4. /\ Ready(d) \in Disks /\ Ready(d).rows = d.rows /\ Ready(d).seeds = d.seeds
      /\ Ready(d).job.status = st /\ Ready(d).job.begun = d.job.begun
  <2> DEFINE j == [d.job EXCEPT !.status = st, !.classified = TRUE, !.errors = er]
  <2>1. j \in Job /\ j.status = st /\ j.begun = d.job.begun
    BY <1>2, <1>3 DEF Job, Statuses
  <2>2. Ready(d) = [d EXCEPT !.job = j]
    BY <1>1, <1>2 DEF Disks
  <2> HIDE DEF j
  <2> QED BY <1>2, <2>1, <2>2 DEF Disks
<1>5. Follows(d, Ready(d))
  BY <1>2, <1>4 DEF Follows
<1> QED BY <1>2, <1>4, <1>5, FollowsSound

\* A seed that is not marked as generated, or has a row.
LEMMA MarkSound ==
  ASSUME NEW d, Sound(d), NEW s \in Seeds, DOMAIN d.seeds = Seeds, NEW x \in Seed,
         x.gen \in Made => d.seeds[s].gen \in Made \/ \E r \in d.rows : r.unit = s
  PROVE  /\ Sound(Mark(d, s, x)) /\ Grown(d, Mark(d, s, x)) /\ Mark(d, s, x).rows = d.rows
         /\ Mark(d, s, x).job = d.job /\ DOMAIN Mark(d, s, x).seeds = Seeds
<1>1. Mark(d, s, x) = [d EXCEPT !.seeds = [d.seeds EXCEPT ![s] = x]]
  BY DEF Mark
<1>2. d \in Disks /\ d.seeds \in SeedMaps
  BY DEF Sound, Disks
<1>3. [d.seeds EXCEPT ![s] = x] \in SeedMaps
  BY <1>2 DEF SeedMaps
<1>4. /\ Mark(d, s, x) \in Disks /\ Mark(d, s, x).rows = d.rows /\ Mark(d, s, x).job = d.job
      /\ Mark(d, s, x).seeds = [d.seeds EXCEPT ![s] = x]
  BY <1>1, <1>2, <1>3 DEF Disks
<1>5. Backed(Mark(d, s, x))
  BY <1>4 DEF Sound, Backed
<1>6. Grown(d, Mark(d, s, x))
  BY <1>2, <1>4, GrownSame
<1> QED BY <1>4, <1>5, <1>6 DEF Sound, Untouched

LEMMA FreshRows ==
  ASSUME NEW s \in Seeds, NEW parts \in SUBSET Kept
  PROVE  Fresh(s, parts) \subseteq Row /\ \A r \in Fresh(s, parts) : r.unit = s
<1>1. 0 \in 0..MaxEdits
  BY BoundsAssumption
<1>2. \A k \in parts : [unit |-> s, part |-> k, text |-> 0, deleted |-> FALSE] \in Row
  BY <1>1 DEF Row
<1>3. \A r \in Fresh(s, parts) : \E k \in parts : r = [unit |-> s, part |-> k, text |-> 0, deleted |-> FALSE]
  BY DEF Fresh
<1>4. ASSUME NEW r \in Fresh(s, parts) PROVE r \in Row /\ r.unit = s
  BY <1>2, <1>3
<1> QED BY <1>4

\* The rows of a seed that has none yet.
LEMMA ReplaceSound ==
  ASSUME NEW d, Sound(d), NEW s \in Seeds, NEW rows \in SUBSET Row, \A r \in rows : r.unit = s,
         \A r \in d.rows : r.unit # s, d.job.status = "running", d.job.begun
  PROVE  /\ Sound(Replaced(d, s, rows)) /\ Grown(d, Replaced(d, s, rows))
         /\ Replaced(d, s, rows).rows = d.rows \cup rows
         /\ Replaced(d, s, rows).job = d.job /\ Replaced(d, s, rows).seeds = d.seeds
<1>1. d \in Disks
  BY DEF Sound
<1>2. /\ Replaced(d, s, rows) \in Disks /\ Replaced(d, s, rows).rows = d.rows \cup rows
      /\ Replaced(d, s, rows).job = d.job /\ Replaced(d, s, rows).seeds = d.seeds
  BY <1>1 DEF Replaced, Disks
<1>3. Backed(Replaced(d, s, rows))
  BY <1>2 DEF Sound, Backed
<1>4. Grown(d, Replaced(d, s, rows))
  BY <1>1, <1>2, GrownSame
<1> QED BY <1>2, <1>3, <1>4 DEF Sound, Untouched

-----------------------------------------------------------------------------
(* A process that dies leaves the disk as it is, and nothing else. *)

LEMMA LostInv == ASSUME GenerationInv, Lost, Sound(disk') PROVE GenerationInv'
<1>1. /\ queue' = {} /\ worker' = "idle" /\ up' = FALSE /\ plan' = plan
      /\ pool' = [s \in Seeds |-> "done"] /\ answer' = [s \in Seeds |-> [rows |-> {}, issue |-> FALSE]]
  BY DEF Lost, Idle, NoAnswer
<1>2. WorkInv'
  BY <1>1 DEF GenerationInv, WorkInv, Phases
<1>3. AnswerInv'
  BY <1>1 DEF AnswerInv
<1>4. Sound(disk)'
  BY <1>1 DEF Sound, Backed, Untouched, Augmentation
<1> QED BY <1>2, <1>3, <1>4 DEF GenerationInv

LEMMA SoundNext == ASSUME plan' = plan, Sound(disk') PROVE Sound(disk)'
  BY DEF Sound, Backed, Untouched, Augmentation

LEMMA CutInv ==
  ASSUME GenerationInv, NEW cuts, Cut(cuts), \A e \in cuts : Sound(e) /\ Grown(disk, e)
  PROVE  GenerationInv' /\ Grown(disk, disk')
  BY LostInv DEF Cut

\* A step that leaves the process up.
LEMMA AliveInv ==
  ASSUME GenerationInv, plan' = plan, Sound(disk') /\ Grown(disk, disk'), WorkInv', AnswerInv'
  PROVE  GenerationInv' /\ Grown(disk, disk')
  BY SoundNext DEF GenerationInv

LEMMA Itself == ASSUME GenerationInv PROVE Sound(disk) /\ Grown(disk, disk) /\ disk \in Disks
  BY GrownSame DEF GenerationInv, Sound

-----------------------------------------------------------------------------
(* Submission and confirmation. *)

LEMMA SubmitStep == ASSUME GenerationInv, Submit PROVE GenerationInv' /\ Grown(disk, disk')
<1> DEFINE registered == Queued(disk)
           written == IF Augmentation THEN [registered EXCEPT !.seeds = Prepared] ELSE registered
           cuts == {disk, registered, written}
<1>1. /\ disk.job.status = "none" /\ disk.rows = {} /\ ~disk.job.begun
      /\ queue = {} /\ worker \in {"idle", "start"}
  BY DEF Submit, GenerationInv, WorkInv, Sound, Untouched
<1>2. Sound(registered) /\ Grown(disk, registered) /\ registered.rows = {} /\ registered.seeds = disk.seeds
      /\ registered.job.status = "queued" /\ ~registered.job.begun /\ registered \in Disks
  BY <1>1, Itself, JobWrites, FollowsSound DEF Follows
<1>3. /\ Sound(written) /\ Grown(disk, written) /\ written \in Disks
      /\ written.job = registered.job /\ written.rows = {}
      /\ Augmentation => DOMAIN written.seeds = Seeds
  <2>1. CASE ~Augmentation
    BY <2>1, <1>2
  <2>2. CASE Augmentation
    <3>1. Prepared \in [Seeds -> Seed] /\ \A s \in Seeds : Prepared[s].gen \notin Made
      BY DEF Prepared, Seed
    <3>2. written = [registered EXCEPT !.seeds = Prepared]
      BY <2>2
    <3>3. /\ written \in Disks /\ written.rows = {} /\ written.job = registered.job
          /\ written.seeds = Prepared
      <4> HIDE DEF registered, written
      <4> QED BY <1>2, <3>1, <3>2 DEF Disks, SeedMaps
    <3>4. Follows(disk, written)
      BY <1>1, <3>1, <3>3, Itself DEF Follows
    <3>5. Sound(written) /\ Grown(disk, written)
      BY <1>1, <1>2, <3>3, <3>4, Itself, FollowsSound
    <3> QED BY <3>1, <3>3, <3>5
  <2> QED BY <2>1, <2>2
<1>4. \A e \in cuts : Sound(e) /\ Grown(disk, e) /\ e.rows = {}
  BY <1>1, <1>2, <1>3, Itself
<1> HIDE DEF registered, written
<1>5. CASE /\ disk' = written /\ Quiet /\ queue' = {IF Augmentation THEN "classify" ELSE "initial"}
           /\ UNCHANGED <<worker, pool, answer>>
  <2>1. PICK t \in Phases : queue' = {t} /\ t # "generate" /\ (t = "initial" <=> ~Augmentation)
    BY <1>5 DEF Phases
  <2>2. /\ disk'.job.status = "queued" /\ ~disk'.job.begun /\ disk'.rows = {}
        /\ Augmentation => DOMAIN disk'.seeds = Seeds
        /\ worker' \in {"idle", "start"} /\ worker' = worker /\ pool' = pool /\ plan' = plan /\ up' /\ up' = up
    BY <1>1, <1>2, <1>3, <1>5 DEF Submit, Quiet, Alive
  <2>3. WorkInv'
    BY <2>1, <2>2 DEF GenerationInv, WorkInv, Phases, Augmentation
  <2>4. AnswerInv'
    BY <1>1, <1>3, <1>5 DEF GenerationInv, AnswerInv
  <2> QED BY <1>3, <1>5, <2>3, <2>4, AliveInv DEF Quiet, Alive
<1>6. CASE /\ IF Augmentation THEN \E d \in cuts \ {disk} : Handled(d) ELSE disk' = registered /\ Raise
           /\ UNCHANGED <<queue, worker, pool, answer>>
  <2>1. PICK d \in cuts : Alive /\ disk' \in {d, Stopped(d), Failed(d)} /\ d # disk
    <3>1. CASE Augmentation
      BY <1>6, <3>1 DEF Handled, Stopping, Raise, Raises
    <3>2. CASE ~Augmentation
      <4>1. registered # disk
        BY <1>1, <1>2
      <4> QED BY <1>6, <3>2, <4>1 DEF Raise, Raises
    <3> QED BY <3>1, <3>2
  <2>2. Sound(d) /\ d.rows = {} /\ d \in Disks /\ d.job.status = "queued"
    BY <1>2, <1>3, <1>4, <2>1 DEF Sound
  <2>3. Sound(disk') /\ disk'.rows = {} /\ disk'.job.status # "none" /\ DOMAIN disk'.seeds = DOMAIN d.seeds
    <3>1. Sound(Stopped(d)) /\ Sound(Failed(d)) /\ Closes(d, Stopped(d))
      BY <2>2, StopSound, StopCloses
    <3>2. CASE disk' = d
      BY <2>2, <3>2
    <3>3. CASE disk' = Stopped(d)
      BY <2>2, <3>1, <3>3 DEF Closes
    <3>4. CASE disk' = Failed(d)
      BY <2>2, <3>1, <3>4, JobWrites DEF Closes
    <3> QED BY <2>1, <3>2, <3>3, <3>4
  <2>4. Grown(disk, disk')
    BY <1>1 DEF Grown
  <2>5. worker = "start" => DOMAIN d.seeds = Seeds
    BY <1>2, <1>3, <2>1 DEF GenerationInv, WorkInv
  <2>6. WorkInv'
    BY <1>1, <1>6, <2>1, <2>3, <2>5 DEF GenerationInv, WorkInv, Alive, Augmentation, Phases
  <2>7. AnswerInv'
    BY <1>1, <1>6, <2>3 DEF GenerationInv, AnswerInv
  <2> QED BY <2>1, <2>3, <2>4, <2>6, <2>7, AliveInv DEF Alive
<1>7. CASE Cut(cuts \union {Stopped(d) : d \in cuts})
  <2>1. \A d \in cuts : Sound(Stopped(d)) /\ Grown(disk, Stopped(d))
    BY <1>1, <1>4, StopSound DEF Grown
  <2> QED BY <1>4, <1>7, <2>1, CutInv
<1> QED BY <1>5, <1>6, <1>7 DEF Submit, registered, written

LEMMA BeginStep ==
  ASSUME GenerationInv, up, Augmentation, NEW next, NEW broken, Begin(next, broken),
         next \in {worker, "idle"}, broken \in {worker, "failing"}
  PROVE  GenerationInv' /\ Grown(disk, disk')
<1> DEFINE begun == [Queued(disk) EXCEPT !.job.begun = TRUE]
<1>1. ASSUME Startable(disk)
      PROVE  /\ queue = {} /\ worker \in {"idle", "start", "failing"} /\ disk.rows = {}
             /\ DOMAIN disk.seeds = Seeds /\ Sound(begun) /\ begun.rows = {} /\ begun.seeds = disk.seeds /\ begun \in Disks
             /\ begun.job.status = "queued" /\ begun.job.begun
  <2>1. /\ queue = {} /\ worker \in {"idle", "start", "failing"} /\ disk.rows = {}
    BY <1>1 DEF Startable, GenerationInv, WorkInv, Sound, Untouched, Phases
  <2>2. disk \in Disks /\ Queued(disk) \in Disks /\ Queued(disk).seeds = disk.seeds
        /\ Queued(disk).job.status = "queued" /\ Queued(disk).rows = disk.rows
    BY Itself, JobWrites
  <2>3. DOMAIN disk.seeds = Seeds
    BY <1>1, <2>2 DEF Startable, Eligible, Disks, SeedMaps
  <2>4. /\ begun \in Disks /\ begun.rows = Queued(disk).rows /\ begun.seeds = Queued(disk).seeds
        /\ begun.job.status = "queued" /\ begun.job.begun
    BY <2>2 DEF Disks, Job
  <2>5. Follows(disk, begun)
    BY <2>2, <2>4 DEF Follows
  <2> HIDE DEF begun
  <2>6. Sound(begun)
    BY <2>1, <2>4, <2>5, Itself, FollowsSound
  <2> QED BY <2>1, <2>2, <2>3, <2>4, <2>6
<1> HIDE DEF begun
<1>2. Startable(disk) => Grown(disk, begun) /\ Grown(disk, Failed(begun)) /\ Grown(disk, Stopped(begun))
  BY <1>1 DEF Grown
<1>3. CASE /\ worker' = next /\ UNCHANGED <<pool, answer>>
           /\ Startable(disk) /\ disk' = begun /\ queue' = queue \union {"generate"} /\ Quiet
  <2>1. WorkInv'
    BY <1>1, <1>3 DEF GenerationInv, WorkInv, Quiet, Alive, Phases, Augmentation
  <2>2. AnswerInv'
    BY <1>1, <1>3 DEF GenerationInv, AnswerInv
  <2> QED BY <1>1, <1>2, <1>3, <2>1, <2>2, AliveInv DEF Quiet, Alive
<1>4. CASE /\ worker' = broken /\ UNCHANGED <<queue, pool, answer>>
           /\ Startable(disk) /\ (Handled(begun) \/ (disk' = disk /\ Raise))
  <2>1. Alive /\ disk' \in {disk, begun, Stopped(begun), Failed(begun)}
    BY <1>4 DEF Handled, Stopping, Raise, Raises
  <2>2. /\ Sound(disk') /\ Grown(disk, disk') /\ disk'.rows = {} /\ disk'.job.status # "none"
        /\ DOMAIN disk'.seeds = Seeds
    <3>1. CASE disk' = disk
      BY <1>1, <1>4, <3>1, Itself DEF Startable
    <3>2. CASE disk' = begun
      BY <1>1, <1>2, <1>4, <3>2
    <3>3. CASE disk' = Stopped(begun)
      BY <1>1, <1>2, <1>4, <3>3, StopSound, StopCloses DEF Closes
    <3>4. CASE disk' = Failed(begun)
      BY <1>1, <1>2, <1>4, <3>4, StopSound, JobWrites, StopCloses DEF Closes
    <3> QED BY <2>1, <3>1, <3>2, <3>3, <3>4
  <2>3. WorkInv'
    BY <1>1, <1>4, <2>1, <2>2 DEF GenerationInv, WorkInv, Alive, Phases, Augmentation
  <2>4. AnswerInv'
    BY <1>1, <1>4, <2>2 DEF GenerationInv, AnswerInv
  <2> QED BY <2>1, <2>2, <2>3, <2>4, AliveInv DEF Alive
<1>5. CASE /\ worker' = next /\ UNCHANGED <<pool, answer>>
           /\ ~Startable(disk) /\ disk.job.begun /\ UNCHANGED <<disk, queue>> /\ Quiet
  <2>1. WorkInv'
    BY <1>5 DEF GenerationInv, WorkInv, Quiet, Alive, Phases, Augmentation
  <2>2. AnswerInv'
    BY <1>5 DEF GenerationInv, AnswerInv
  <2> QED BY <1>5, <2>1, <2>2, Itself, AliveInv DEF Quiet, Alive
<1>6. CASE Startable(disk) /\ Cut({begun, Stopped(begun)})
  BY <1>1, <1>2, <1>6, StopSound, CutInv
<1> QED BY <1>3, <1>4, <1>5, <1>6 DEF Begin, begun

LEMMA StartSteps == ASSUME GenerationInv, Start \/ AutoStart PROVE GenerationInv' /\ Grown(disk, disk')
  BY BeginStep DEF Start, AutoStart, GenerationInv, WorkInv

LEMMA TakeStep ==
  ASSUME GenerationInv, NEW t \in Phases, Take(t) PROVE GenerationInv' /\ Grown(disk, disk')
<1> DEFINE taken == [disk EXCEPT !.job.status = "running"]
<1>1. /\ queue' = {} /\ disk.job.status \in {"queued", "failed"} /\ disk.rows = {} /\ plan' = plan /\ up' = up
      /\ worker' \in {t, "failing", "idle"} /\ disk' \in {disk, taken}
      /\ worker' # "idle" => disk' = taken
  BY DEF Take, GenerationInv, WorkInv, Quiet, Raise, Raises, Alive
<1>2. /\ taken \in Disks /\ taken.job.status = "running" /\ taken.rows = {} /\ taken.seeds = disk.seeds
      /\ taken.job.begun = disk.job.begun
  BY <1>1, Itself, JobWrites DEF Statuses, Disks, Job
<1> HIDE DEF taken
<1>3. Sound(taken) /\ Grown(disk, taken)
  BY <1>1, <1>2, Itself, FollowsSound DEF Follows
<1>4. pool' \in [Seeds -> {"todo", "open", "done", "broken"}]
  BY DEF Take
<1>5. /\ t = "initial" <=> ~Augmentation
      /\ Augmentation => DOMAIN disk.seeds = Seeds
      /\ t = "classify" => ~disk.job.begun
      /\ t = "generate" => disk.job.begun
      /\ up
  BY DEF Take, GenerationInv, WorkInv
<1>6. WorkInv'
  BY <1>1, <1>2, <1>4, <1>5 DEF GenerationInv, WorkInv, Phases, Augmentation
<1>7. AnswerInv'
  BY <1>1, <1>2 DEF Take, AnswerInv, NoAnswer
<1> QED BY <1>1, <1>3, <1>6, <1>7, Itself, AliveInv

-----------------------------------------------------------------------------
(* The pool of threads. *)

\* Seeds are there while a thread of the pool works, in a job that runs.
LEMMA AtWork ==
  ASSUME GenerationInv, worker \in {"classify", "generate"}, NEW s \in Seeds
  PROVE  /\ DOMAIN disk.seeds = Seeds /\ disk.seeds[s] \in Seed /\ disk.job.status = "running" /\ queue = {}
         /\ worker = "classify" => disk.rows = {}
         /\ worker = "generate" => disk.job.begun
         /\ worker = "generate" /\ pool[s] \in {"todo", "open"} => \A r \in disk.rows : r.unit # s
  BY Itself DEF GenerationInv, WorkInv, AnswerInv, Phases, Disks, SeedMaps

\* A thread writes the disk; the job and the seeds there are stay.
LEMMA PoolWork ==
  ASSUME GenerationInv, Alive, worker \in Phases, UNCHANGED <<queue, worker>>,
         disk'.job = disk.job, DOMAIN disk'.seeds = DOMAIN disk.seeds,
         NEW s \in Seeds, NEW st \in {"todo", "open", "done", "broken"}, pool' = [pool EXCEPT ![s] = st]
  PROVE  WorkInv'
  BY DEF GenerationInv, WorkInv, Alive, Augmentation

LEMMA OpenedStep ==
  ASSUME GenerationInv, NEW s \in Seeds, Opened(s) PROVE GenerationInv' /\ Grown(disk, disk')
<1> DEFINE x == disk.seeds[s]
           y == IF worker = "classify" THEN [x EXCEPT !.cls = "classifying"] ELSE [x EXCEPT !.gen = "generating"]
           written == Mark(disk, s, y)
<1>1. worker \in {"classify", "generate"} /\ pool[s] = "todo"
  BY DEF Opened
<1>2. y \in Seed /\ (y.gen \in Made => x.gen \in Made)
  BY <1>1, AtWork DEF Seed
<1> HIDE DEF y
<1>3. /\ Sound(written) /\ Grown(disk, written) /\ written.rows = disk.rows
      /\ written.job = disk.job /\ DOMAIN written.seeds = Seeds
  BY <1>1, <1>2, AtWork, Itself, MarkSound
<1> HIDE DEF written
<1>4. ASSUME NEW next \in {"open", "broken"}, disk' \in {disk, written}, Alive, UNCHANGED <<queue, worker, answer>>,
             pool' = [pool EXCEPT ![s] = next]
      PROVE  GenerationInv' /\ Grown(disk, disk')
  <2>1. WorkInv'
    BY <1>1, <1>3, <1>4, AtWork, PoolWork DEF Phases
  <2>2. disk'.rows = disk.rows /\ disk.rows \subseteq Row
    BY <1>3, <1>4, Itself DEF Disks
  <2>3. \A r \in disk.rows : r.unit \in Seeds
    BY <2>2 DEF Row
  <2>4. \A r \in disk.rows : r.unit # s => pool'[r.unit] = pool[r.unit]
    BY <1>4, <2>3 DEF GenerationInv, WorkInv
  <2>5. AnswerInv'
    BY <1>1, <1>4, <2>2, <2>4, AtWork DEF GenerationInv, AnswerInv
  <2> QED BY <1>3, <1>4, <2>1, <2>5, Itself, AliveInv DEF Alive
<1>5. CASE Checkpoint(s, {disk, written}, written, "open") /\ UNCHANGED answer
  BY <1>4, <1>5 DEF Checkpoint, Quiet, Raise, Raises
<1>6. CASE Cut({disk, written})
  BY <1>3, <1>6, Itself, CutInv
<1> QED BY <1>5, <1>6 DEF Opened, written, y

LEMMA ClassifiedStep ==
  ASSUME GenerationInv, NEW s \in Seeds, Classified(s) PROVE GenerationInv' /\ Grown(disk, disk')
<1>1. worker = "classify"
  BY DEF Classified
<1>2. PICK c \in {"classified", "failed"} :
         LET written == Mark(disk, s, [cls |-> c, gen |-> IF c = "failed" THEN "skipped" ELSE "waiting"])
         IN \/ Checkpoint(s, {disk, written}, written, "done") /\ UNCHANGED answer
            \/ Cut({disk, written})
  BY DEF Classified
<1> DEFINE x == [cls |-> c, gen |-> IF c = "failed" THEN "skipped" ELSE "waiting"]
           written == Mark(disk, s, x)
<1>3. x \in Seed /\ x.gen \notin Made
  BY DEF Seed
<1> HIDE DEF x
<1>4. /\ Sound(written) /\ Grown(disk, written) /\ written.rows = {}
      /\ written.job = disk.job /\ DOMAIN written.seeds = Seeds /\ disk.rows = {}
  BY <1>1, <1>3, AtWork, Itself, MarkSound
<1>5. (Checkpoint(s, {disk, written}, written, "done") /\ UNCHANGED answer) \/ Cut({disk, written})
  BY <1>2 DEF x
<1> HIDE DEF written
<1>6. CASE Checkpoint(s, {disk, written}, written, "done") /\ UNCHANGED answer
  <2>1. PICK next \in {"done", "broken"} : pool' = [pool EXCEPT ![s] = next]
    BY <1>6 DEF Checkpoint
  <2>2. disk' \in {disk, written} /\ Alive /\ UNCHANGED <<queue, worker, answer>>
    BY <1>6 DEF Checkpoint, Quiet, Raise, Raises
  <2>3. WorkInv'
    BY <1>1, <1>4, <2>1, <2>2, AtWork, PoolWork DEF Phases
  <2>4. AnswerInv'
    BY <1>1, <1>4, <2>2 DEF GenerationInv, AnswerInv
  <2> QED BY <1>4, <2>2, <2>3, <2>4, Itself, AliveInv DEF Alive
<1>7. CASE Cut({disk, written})
  BY <1>4, <1>7, Itself, CutInv
<1> QED BY <1>5, <1>6, <1>7

LEMMA GeneratedStep ==
  ASSUME GenerationInv, NEW s \in Seeds, Generated(s) PROVE GenerationInv' /\ Grown(disk, disk')
<1>1. worker = "generate" /\ pool[s] = "open"
  BY DEF Generated
<1>2. PICK rows \in {{}, Fresh(s, {"zero"})}, issue \in BOOLEAN :
         LET x == [disk.seeds[s] EXCEPT !.gen = Outcome(rows, issue)]
             replaced == Replaced(disk, s, rows)
             written == Mark(replaced, s, x)
         IN /\ issue \/ rows # {}
            /\ \/ /\ Checkpoint(s, {disk, replaced} \cup {written}, written, "done")
                  /\ answer' = [answer EXCEPT ![s] = [rows |-> rows, issue |-> issue]]
               \/ Cut({disk, replaced} \cup {written})
  BY DEF Generated, SavedFirst
<1> DEFINE x == [disk.seeds[s] EXCEPT !.gen = Outcome(rows, issue)]
           replaced == Replaced(disk, s, rows)
           written == Mark(replaced, s, x)
<1>3. rows \subseteq Row /\ \A r \in rows : r.unit = s
  BY FreshRows DEF Kept
<1>4. x \in Seed /\ (x.gen \in Made => \E r \in rows : r.unit = s)
  <2>1. x \in Seed /\ x.gen = Outcome(rows, issue)
    BY <1>1, AtWork DEF Seed, Outcome
  <2> QED BY <1>2, <1>3, <2>1 DEF Outcome
<1>5. /\ Sound(replaced) /\ Grown(disk, replaced) /\ replaced.rows = disk.rows \cup rows
      /\ replaced.job = disk.job /\ replaced.seeds = disk.seeds
  BY <1>1, <1>3, AtWork, Itself, ReplaceSound
<1>6. \/ /\ Checkpoint(s, {disk, replaced} \cup {written}, written, "done")
         /\ answer' = [answer EXCEPT ![s] = [rows |-> rows, issue |-> issue]]
      \/ Cut({disk, replaced} \cup {written})
  BY <1>2
<1> HIDE DEF x, replaced
<1>7. /\ Sound(written) /\ written.rows = disk.rows \cup rows
      /\ written.job = disk.job /\ DOMAIN written.seeds = Seeds
  BY <1>1, <1>4, <1>5, AtWork, MarkSound
<1> HIDE DEF written
<1>8. Grown(disk, written)
  BY <1>7, Itself, GrownSame DEF Sound
<1>9. CASE /\ Checkpoint(s, {disk, replaced} \cup {written}, written, "done")
           /\ answer' = [answer EXCEPT ![s] = [rows |-> rows, issue |-> issue]]
  <2>1. PICK next \in {"done", "broken"} : pool' = [pool EXCEPT ![s] = next]
    BY <1>9 DEF Checkpoint
  <2>2. disk' \in {disk, replaced, written} /\ Alive /\ UNCHANGED <<queue, worker>>
    BY <1>9 DEF Checkpoint, Quiet, Raise, Raises
  <2>3. WorkInv'
    BY <1>1, <1>5, <1>7, <2>1, <2>2, AtWork, PoolWork DEF Phases
  <2>4. disk'.rows \subseteq disk.rows \cup rows
    BY <1>5, <1>7, <2>2
  <2>5. \A r \in disk.rows : r.unit \in Seeds \ {s}
    BY <1>1, AtWork, Itself DEF Disks, Row
  <2>6. /\ answer \in [Seeds -> [rows : SUBSET Row, issue : BOOLEAN]]
        /\ pool \in [Seeds -> {"todo", "open", "done", "broken"}]
    BY DEF GenerationInv, WorkInv, AnswerInv
  <2>7. /\ answer'[s].rows = rows /\ pool'[s] \in {"done", "broken"}
        /\ \A u \in Seeds \ {s} : answer'[u] = answer[u] /\ pool'[u] = pool[u]
    BY <1>9, <2>1, <2>6
  <2>8. answer' \in [Seeds -> [rows : SUBSET Row, issue : BOOLEAN]]
    BY <1>3, <1>9, <2>6
  <2>9. \A u \in Seeds : \A r \in answer'[u].rows : r.unit = u
    BY <1>3, <2>7 DEF GenerationInv, AnswerInv
  <2>10. \A r \in disk.rows \cup rows : /\ pool'[r.unit] \in {"done", "broken"}
                                        /\ pool'[r.unit] = "done" => r \in answer'[r.unit].rows
    BY <1>1, <1>3, <2>5, <2>7 DEF GenerationInv, AnswerInv
  <2>11. AnswerInv'
    BY <1>1, <2>2, <2>4, <2>8, <2>9, <2>10 DEF AnswerInv
  <2> QED BY <1>5, <1>7, <1>8, <2>2, <2>3, <2>11, Itself, AliveInv DEF Alive
<1>10. CASE Cut({disk, replaced} \cup {written})
  BY <1>5, <1>7, <1>8, <1>10, Itself, CutInv
<1> QED BY <1>6, <1>9, <1>10

LEMMA UnitDoneStep ==
  ASSUME GenerationInv, NEW s \in Seeds, UnitDone(s) PROVE GenerationInv' /\ Grown(disk, disk')
<1>1. PICK parts \in {{}, {"zero"}, {"pre", "weak"}}, issue \in BOOLEAN :
         answer' = [answer EXCEPT ![s] = [rows |-> Fresh(s, parts), issue |-> issue]]
  BY DEF UnitDone
<1>2. /\ worker = "initial" /\ disk' = disk /\ Alive /\ UNCHANGED <<queue, worker>>
      /\ pool' = [pool EXCEPT ![s] = "done"]
  BY DEF UnitDone, Quiet
<1>3. WorkInv'
  BY <1>2, PoolWork DEF Phases
<1>4. Fresh(s, parts) \subseteq Row /\ \A r \in Fresh(s, parts) : r.unit = s
  BY FreshRows DEF Kept
<1>5. AnswerInv'
  <2>1. answer \in [Seeds -> [rows : SUBSET Row, issue : BOOLEAN]] /\ disk.rows = {}
    BY <1>2 DEF GenerationInv, AnswerInv
  <2>2. answer' \in [Seeds -> [rows : SUBSET Row, issue : BOOLEAN]]
    BY <1>1, <1>4, <2>1
  <2>3. answer'[s].rows = Fresh(s, parts) /\ \A u \in Seeds \ {s} : answer'[u] = answer[u]
    BY <1>1, <2>1
  <2>4. \A u \in Seeds : \A r \in answer'[u].rows : r.unit = u
    BY <1>4, <2>3 DEF GenerationInv, AnswerInv
  <2>5. worker' = "initial" /\ disk'.rows = {}
    BY <1>2, <2>1
  <2> QED BY <2>2, <2>4, <2>5 DEF AnswerInv
<1> QED BY <1>2, <1>3, <1>5, Itself, AliveInv DEF Alive

-----------------------------------------------------------------------------
(* The end of a call, and a restart. *)

\* The thread leaves its call: it has no rows to answer for.
LEMMA Leaving ==
  ASSUME GenerationInv, queue' = {}, UNCHANGED <<pool, answer>>, plan' = plan, up' \in BOOLEAN,
         worker' \in {"idle", "start", "failing"}, worker' = "start" => Augmentation /\ DOMAIN disk'.seeds = Seeds,
         worker' = "failing" => up' /\ disk'.job.status # "none", ~up' => worker' = "idle"
  PROVE  WorkInv' /\ AnswerInv'
<1>1. WorkInv'
  BY DEF GenerationInv, WorkInv, Phases, Augmentation
<1>2. AnswerInv'
  BY DEF GenerationInv, AnswerInv
<1> QED BY <1>1, <1>2

LEMMA ClassifyDoneStep == ASSUME GenerationInv, ClassifyDone PROVE GenerationInv' /\ Grown(disk, disk')
<1>1. /\ worker = "classify" /\ disk' \in {disk, Ready(disk)} /\ worker' \in {"idle", "start", "failing"}
      /\ Alive /\ up /\ UNCHANGED <<queue, pool, answer>>
  BY DEF ClassifyDone, Quiet, Raise, Raises
<1>2. /\ disk.rows = {} /\ queue = {} /\ disk.job.status = "running" /\ Augmentation /\ DOMAIN disk.seeds = Seeds
  BY <1>1 DEF GenerationInv, WorkInv, AnswerInv, Phases
<1>3. /\ Sound(disk') /\ Grown(disk, disk') /\ disk'.seeds = disk.seeds
      /\ disk'.job.status \in {"running", "awaiting_confirmation", "failed"}
  BY <1>1, <1>2, Itself, ReadySound
<1>4. WorkInv' /\ AnswerInv'
  BY <1>1, <1>2, <1>3, Leaving DEF Alive
<1> QED BY <1>1, <1>3, <1>4, AliveInv DEF Alive

\* The rows of the answers stand for all rows there are.
LEMMA SavedSound ==
  ASSUME GenerationInv, worker \in {"generate", "initial"}, Whole,
         NEW rows, rows = UNION {answer[s].rows : s \in Seeds}
  PROVE  /\ rows \subseteq Row /\ disk.rows \subseteq rows /\ disk.job.status = "running"
         /\ disk.job.begun \/ ~Augmentation
<1>1. /\ answer \in [Seeds -> [rows : SUBSET Row, issue : BOOLEAN]] /\ disk.job.status = "running"
      /\ worker = "initial" => disk.rows = {} /\ ~Augmentation
      /\ worker = "generate" => disk.job.begun
      /\ worker = "generate" => \A r \in disk.rows : pool[r.unit] = "done" => r \in answer[r.unit].rows
  BY DEF GenerationInv, WorkInv, AnswerInv, Phases
<1>2. rows \subseteq Row
  BY <1>1
<1>3. \A r \in disk.rows : r.unit \in Seeds
  BY Itself DEF Disks, Row
<1>4. ASSUME NEW r \in disk.rows PROVE r \in rows
  BY <1>1, <1>3, <1>4 DEF Whole
<1> QED BY <1>1, <1>2, <1>4

LEMMA FinishStep == ASSUME GenerationInv, Finish PROVE GenerationInv' /\ Grown(disk, disk')
<1> DEFINE rows == UNION {answer[s].rows : s \in Seeds}
           issues == (Augmentation /\ disk.job.errors) \/ \E s \in Seeds : answer[s].issue
           st == IF ~issues THEN "succeeded" ELSE IF rows # {} THEN "partial" ELSE "failed"
           saved == [disk EXCEPT !.rows = rows]
           written == [saved EXCEPT !.job.status = st, !.job.errors = issues]
<1>1. worker \in {"generate", "initial"} /\ Whole /\ up
  BY DEF Finish
<1>2. /\ rows \subseteq Row /\ disk.rows \subseteq rows /\ disk.job.status = "running"
      /\ disk.job.begun \/ ~Augmentation
  BY <1>1, SavedSound
<1>3. queue = {}
  BY <1>1 DEF GenerationInv, WorkInv
<1>4. issues \in BOOLEAN /\ st \in Ended
  <2>1. disk.job.errors \in BOOLEAN
    BY Itself DEF Disks, Job
  <2>2. (\E s \in Seeds : answer[s].issue) \in BOOLEAN
    OBVIOUS
  <2> QED BY <2>1, <2>2 DEF Ended
<1>5. \/ /\ disk' = written /\ worker' = "idle" /\ UNCHANGED <<queue, pool, answer>> /\ Quiet
      \/ /\ disk' \in {disk, saved, written} /\ worker' = "failing"
         /\ UNCHANGED <<queue, pool, answer>> /\ Raise
      \/ Cut({disk, saved, written})
  BY DEF Finish
<1>6. /\ saved \in Disks /\ saved.rows = rows /\ saved.job = disk.job /\ saved.seeds = disk.seeds
  <2> HIDE DEF rows
  <2> QED BY <1>2, Itself DEF Disks
<1> HIDE DEF rows, issues, st, saved
<1>7. Sound(saved) /\ Grown(disk, saved)
  <2>1. Grown(disk, saved)
    BY <1>2, <1>6, Itself, GrownSame
  <2>2. Backed(saved)
    BY <1>2, <1>6, Itself DEF Sound, Backed
  <2> QED BY <1>2, <1>6, <2>1, <2>2 DEF Sound, Untouched
<1>8. /\ written \in Disks /\ written.rows = rows /\ written.seeds = saved.seeds
      /\ written.job.status = st /\ written.job.begun = disk.job.begun
  <2> DEFINE j == [saved.job EXCEPT !.status = st, !.errors = issues]
  <2>1. j \in Job /\ j.status = st /\ j.begun = saved.job.begun
    BY <1>4, <1>6 DEF Disks, Job, Ended, Statuses
  <2>2. written = [saved EXCEPT !.job = j]
    BY <1>6 DEF Disks
  <2> HIDE DEF j, written
  <2> QED BY <1>6, <2>1, <2>2 DEF Disks
<1> HIDE DEF written
<1>9. Sound(written) /\ Grown(disk, written)
  <2>1. Follows(saved, written)
    BY <1>6, <1>8 DEF Follows
  <2>2. Sound(written)
    BY <1>4, <1>6, <1>7, <1>8, <2>1, FollowsSound DEF Ended
  <2>3. Grown(disk, written)
    BY <1>2, <1>8, Itself, GrownSame
  <2> QED BY <2>2, <2>3
<1>10. CASE /\ disk' = written /\ worker' = "idle" /\ UNCHANGED <<queue, pool, answer>> /\ Quiet
  <2>1. WorkInv' /\ AnswerInv'
    BY <1>1, <1>3, <1>10, Leaving DEF Quiet, Alive
  <2> QED BY <1>9, <1>10, <2>1, AliveInv DEF Quiet, Alive
<1>11. CASE /\ disk' \in {disk, saved, written} /\ worker' = "failing"
            /\ UNCHANGED <<queue, pool, answer>> /\ Raise
  <2>1. disk'.job.status # "none" /\ Alive
    BY <1>2, <1>4, <1>6, <1>8, <1>11 DEF Ended, Raise, Raises
  <2>2. WorkInv' /\ AnswerInv'
    BY <1>1, <1>3, <1>11, <2>1, Leaving DEF Alive
  <2> QED BY <1>7, <1>9, <1>11, <2>1, <2>2, Itself, AliveInv DEF Alive
<1>12. CASE Cut({disk, saved, written})
  BY <1>7, <1>9, <1>12, Itself, CutInv
<1> QED BY <1>5, <1>10, <1>11, <1>12

LEMMA FailStep == ASSUME GenerationInv, Fail PROVE GenerationInv' /\ Grown(disk, disk')
<1>1. up /\ worker # "idle"
  BY DEF Fail
<1>2. \A e \in Stopping(disk) \cup {Failed(disk)} : Sound(e) /\ Grown(disk, e)
  BY Itself, StopSound DEF Stopping
<1>3. CASE /\ disk' \in Stopping(disk) \cup {Failed(disk)} /\ Alive
           /\ worker' = "idle" /\ UNCHANGED <<queue, pool, answer>>
  <2>1. /\ disk'.rows = disk.rows /\ DOMAIN disk'.seeds = DOMAIN disk.seeds
        /\ disk'.job.begun = disk.job.begun
        /\ disk'.job.status \in {disk.job.status, "failed"}
    BY <1>3, Itself, StopCloses, JobWrites DEF Stopping, Closes
  <2>2. WorkInv'
    BY <1>1, <1>3, <2>1 DEF GenerationInv, WorkInv, Phases, Augmentation, Alive
  <2>3. AnswerInv'
    BY <1>3 DEF GenerationInv, AnswerInv
  <2> QED BY <1>2, <1>3, <2>2, <2>3, AliveInv DEF Alive
<1>4. CASE Cut(Stopping(disk) \cup {Failed(disk)})
  BY <1>2, <1>4, CutInv
<1> QED BY <1>3, <1>4 DEF Fail, Quiet, Raise, Raises

LEMMA BootStep == ASSUME GenerationInv, Boot PROVE GenerationInv' /\ Grown(disk, disk')
<1>1. queue = {} /\ worker = "idle"
  BY DEF Boot, GenerationInv, WorkInv
<1>2. Sound(Recovered(disk)) /\ Grown(disk, Recovered(disk))
  <2>1. CASE Running(disk) /\ Matched(disk)
    <3>1. disk.rows = {} /\ disk.job.status # "none"
      BY <2>1, Itself DEF Running, Matched, Sound, Untouched
    <3> QED BY <2>1, <3>1, Itself, ReadySound DEF Recovered
  <2>2. CASE Running(disk) /\ ~Matched(disk)
    BY <2>2, Itself, StopSound DEF Recovered
  <2>3. CASE ~Running(disk)
    BY <2>3, Itself DEF Recovered
  <2> QED BY <2>1, <2>2, <2>3
<1>3. CASE /\ disk' = Recovered(disk) /\ up' = TRUE
           /\ UNCHANGED <<plan, queue, worker, pool, answer, crashes, raises>>
  <2>1. WorkInv' /\ AnswerInv'
    BY <1>1, <1>3, Leaving
  <2> QED BY <1>2, <1>3, <2>1, AliveInv
<1>4. ASSUME NEW cuts, cuts \subseteq {disk, Recovered(disk)} \cup Stopping(disk), Cut(cuts)
      PROVE  GenerationInv' /\ Grown(disk, disk')
  BY <1>2, <1>4, Itself, StopSound, CutInv DEF Stopping
<1> QED BY <1>3, <1>4 DEF Boot

-----------------------------------------------------------------------------
(* A person. *)

\* Rows are there to edit only when no call will ask for them, or is working on them.
LEMMA EditSound ==
  ASSUME GenerationInv, Reviewable, disk.rows # {}, NEW rows \in SUBSET Row, disk' = [disk EXCEPT !.rows = rows],
         UNCHANGED <<queue, worker, pool, answer>>, Quiet, Grown(disk, disk')
  PROVE  GenerationInv' /\ Grown(disk, disk')
<1>1. disk' \in Disks /\ disk'.rows = rows /\ disk'.job = disk.job /\ disk'.seeds = disk.seeds
  BY Itself DEF Disks
<1>2. Backed(disk')
  BY <1>1, Itself DEF Sound, Backed, Grown
<1>3. Sound(disk')
  BY <1>1, <1>2, Itself DEF Sound, Untouched
<1>4. WorkInv'
  BY <1>1 DEF GenerationInv, WorkInv, Quiet, Alive, Augmentation
<1>5. worker \notin {"classify", "initial", "generate"}
  BY DEF GenerationInv, WorkInv, AnswerInv, Reviewable, Phases
<1>6. AnswerInv'
  BY <1>5 DEF GenerationInv, AnswerInv
<1> QED BY <1>3, <1>4, <1>6, AliveInv DEF Quiet, Alive

LEMMA RewriteStep ==
  ASSUME GenerationInv, NEW r \in disk.rows, Rewrite(r) PROVE GenerationInv' /\ Grown(disk, disk')
<1> DEFINE q == [r EXCEPT !.text = @ + 1]
           rows == (disk.rows \ {r}) \cup {q}
<1>1. disk.rows \subseteq Row /\ r \in Row /\ disk \in Disks
  BY Itself DEF Disks
<1>2. q \in Row /\ q.unit = r.unit /\ q.part = r.part /\ q.text >= r.text
  <2>1. r.text + 1 \in 0..MaxEdits /\ r.text + 1 >= r.text
    BY <1>1, BoundsAssumption DEF Rewrite, Row
  <2> QED BY <1>1, <2>1 DEF Row
<1> HIDE DEF q
<1>3. disk' = [disk EXCEPT !.rows = rows]
  BY DEF Rewrite, q
<1>4. disk'.rows = rows
  BY <1>1, <1>3 DEF Disks
<1>5. \A p \in disk.rows : p.text \in Nat
  BY <1>1 DEF Row
<1>6. Grown(disk, disk')
  BY <1>2, <1>4, <1>5 DEF Grown
<1> QED BY <1>1, <1>2, <1>3, <1>6, EditSound DEF Rewrite

LEMMA SetDeletedStep ==
  ASSUME GenerationInv, NEW r \in disk.rows, NEW b \in BOOLEAN, SetDeleted(r, b)
  PROVE  GenerationInv' /\ Grown(disk, disk')
<1> DEFINE marked == {[q EXCEPT !.deleted = b] : q \in Group(r)}
           rows == (disk.rows \ Group(r)) \cup marked
<1>1. disk.rows \subseteq Row /\ Group(r) \subseteq disk.rows /\ disk \in Disks
  BY Itself DEF Disks, Group
<1>2. ASSUME NEW q \in Group(r)
      PROVE  [q EXCEPT !.deleted = b] \in marked /\ [q EXCEPT !.deleted = b] \in Row
             /\ [q EXCEPT !.deleted = b].unit = q.unit /\ [q EXCEPT !.deleted = b].part = q.part
             /\ [q EXCEPT !.deleted = b].text = q.text
  BY <1>1 DEF Row
<1>3. marked \subseteq Row
  BY <1>2
<1>4. disk' = [disk EXCEPT !.rows = rows]
  BY DEF SetDeleted
<1> HIDE DEF marked
<1>5. disk'.rows = rows
  BY <1>1, <1>4 DEF Disks
<1>6. ASSUME NEW p \in disk.rows
      PROVE  \E q \in disk'.rows : q.unit = p.unit /\ q.part = p.part /\ q.text >= p.text
  <2>1. p.text \in Nat
    BY <1>1 DEF Row
  <2>2. CASE p \in Group(r)
    <3> DEFINE q == [p EXCEPT !.deleted = b]
    <3>1. q \in disk'.rows /\ q.unit = p.unit /\ q.part = p.part /\ q.text = p.text
      BY <1>2, <1>5, <2>2
    <3> HIDE DEF q
    <3> QED BY <2>1, <3>1
  <2>3. CASE p \notin Group(r)
    BY <1>5, <2>1, <2>3
  <2> QED BY <2>2, <2>3
<1>7. rows \in SUBSET Row
  BY <1>1, <1>3
<1> QED BY <1>4, <1>6, <1>7, EditSound DEF SetDeleted, Grown

LEMMA FreezeStep == ASSUME GenerationInv, Freeze PROVE GenerationInv' /\ Grown(disk, disk')
<1> DEFINE placed == [disk EXCEPT !.folder = Tasks(disk)]
           written == [placed EXCEPT !.artifact = Tasks(disk)]
           undone == {[d EXCEPT !.folder = {}] : d \in {placed, written}}
<1>1. Tasks(disk) \subseteq Row /\ disk \in Disks
  BY Itself DEF Tasks, Disks
<1> DEFINE Same(d) == d \in Disks /\ d.job = disk.job /\ d.rows = disk.rows /\ d.seeds = disk.seeds
<1>2. Same(placed)
  BY <1>1 DEF Disks
<1>3. Same(written)
  <2> HIDE DEF placed
  <2> QED BY <1>1, <1>2 DEF Disks
<1>4. ASSUME NEW d, Same(d) PROVE Same([d EXCEPT !.folder = {}])
  BY <1>4 DEF Disks
<1>5. ASSUME NEW d, Same(d) PROVE Sound(d) /\ Grown(disk, d)
  <2>1. Follows(disk, d)
    BY <1>1, <1>5 DEF Follows
  <2> QED BY <1>5, <2>1, Itself, FollowsSound DEF Sound, Untouched
<1>6. \/ disk' = written /\ UNCHANGED <<queue, worker, pool, answer>> /\ Quiet
      \/ disk' \in undone /\ UNCHANGED <<queue, worker, pool, answer>> /\ Raise
      \/ Cut({placed, written})
  BY DEF Freeze
<1> HIDE DEF placed, written
<1>7. CASE disk' \in {written} \cup undone /\ UNCHANGED <<queue, worker, pool, answer>> /\ Alive
  <2>1. Same(disk')
    BY <1>2, <1>3, <1>4, <1>7
  <2>2. WorkInv'
    BY <1>7, <2>1 DEF GenerationInv, WorkInv, Alive, Augmentation
  <2>3. AnswerInv'
    BY <1>7, <2>1 DEF GenerationInv, AnswerInv
  <2> QED BY <1>5, <1>7, <2>1, <2>2, <2>3, AliveInv DEF Alive
<1>8. CASE Cut({placed, written})
  BY <1>2, <1>3, <1>5, <1>8, CutInv
<1> QED BY <1>6, <1>7, <1>8 DEF Quiet, Raise, Raises

-----------------------------------------------------------------------------

LEMMA GenerationStarts == ASSUME Init PROVE GenerationInv
<1>1. disk = [job |-> [status |-> "none", begun |-> FALSE, classified |-> FALSE, errors |-> FALSE],
              seeds |-> <<>>, rows |-> {}, folder |-> {}, artifact |-> {}]
  BY DEF Init
<1>2. DOMAIN disk.seeds = {} /\ disk.seeds \in SeedMaps
  BY <1>1 DEF SeedMaps
<1>3. disk.job \in Job
  BY <1>1 DEF Job, Statuses
<1>4. disk \in Disks /\ disk.job.status = "none" /\ ~disk.job.begun /\ disk.rows = {}
  BY <1>1, <1>2, <1>3 DEF Disks
<1>5. Sound(disk)
  BY <1>2, <1>4 DEF Sound, Backed, Untouched
<1>6. WorkInv
  BY <1>4 DEF Init, WorkInv, Idle, Phases
<1>7. AnswerInv
  BY DEF Init, AnswerInv, NoAnswer
<1> QED BY <1>5, <1>6, <1>7 DEF GenerationInv

LEMMA GenerationKept == ASSUME GenerationInv, Next PROVE GenerationInv' /\ Grown(disk, disk')
<1>1. CASE Submit
  BY <1>1, SubmitStep
<1>2. CASE Start \/ AutoStart
  BY <1>2, StartSteps
<1>3. CASE \E t \in Phases : Take(t)
  BY <1>3, TakeStep
<1>4. CASE \E s \in Seeds : Opened(s) \/ Classified(s) \/ Generated(s) \/ UnitDone(s)
  BY <1>4, OpenedStep, ClassifiedStep, GeneratedStep, UnitDoneStep
<1>5. CASE ClassifyDone \/ Finish \/ Fail
  BY <1>5, ClassifyDoneStep, FinishStep, FailStep
<1>6. CASE Crash
  BY <1>6, Itself, CutInv DEF Crash
<1>7. CASE Boot \/ Freeze
  BY <1>7, BootStep, FreezeStep
<1>8. CASE \E r \in disk.rows : Rewrite(r) \/ \E b \in BOOLEAN : SetDeleted(r, b)
  BY <1>8, RewriteStep, SetDeletedStep
<1> QED BY <1>1, <1>2, <1>3, <1>4, <1>5, <1>6, <1>7, <1>8 DEF Next, Work

LEMMA GenerationStutters == ASSUME GenerationInv, UNCHANGED vars PROVE GenerationInv' /\ Grown(disk, disk')
<1>1. WorkInv'
  BY DEF vars, GenerationInv, WorkInv, Augmentation
<1>2. AnswerInv'
  BY DEF vars, GenerationInv, AnswerInv
<1> QED BY <1>1, <1>2, Itself, AliveInv DEF vars

\* Every reachable state is sound: the disk, what works on it, and the answers that wait for it.
THEOREM GenerationInvariance == Spec => []GenerationInv
  BY GenerationStarts, GenerationKept, GenerationStutters, PTL DEF Spec

\* A seed the preview shows as generated has rows, whatever write a crash or an exception
\* came after: _checkpoint_seed saves the rows before it marks the seed (jobs.py:401-406).
THEOREM Backing == Spec => []RowsBehindSeeds
<1>1. GenerationInv => RowsBehindSeeds
  BY DEF GenerationInv, Sound, Backed, RowsBehindSeeds
<1> QED BY <1>1, GenerationInvariance, PTL

\* No step loses a row, or a word a person wrote in it: the rows a job replaces at its end
\* are among the answers it holds, and no job works on rows a person may edit.
THEOREM NothingLost == Spec => RowsKept
<1>1. ASSUME GenerationInv, [Next]_vars PROVE Grown(disk, disk')
  BY <1>1, GenerationKept, GenerationStutters
<1>2. GenerationInv /\ [Next]_vars =>
        [\A r \in disk.rows : \E q \in disk'.rows :
            q.unit = r.unit /\ q.part = r.part /\ q.text >= r.text]_vars
  BY <1>1 DEF Grown
<1> QED BY <1>2, GenerationInvariance, PTL DEF Spec, RowsKept
=============================================================================
