---------------------------- MODULE PipelineProofs ----------------------------
(* Proofs about Pipeline, for every set of plans. *)
EXTENDS Pipeline, TLAPS, WellFoundedInduction, NaturalsInduction, SequenceTheorems

-----------------------------------------------------------------------------
(* The records, but for the bounds that other variables set. *)

StepStatuses == {"pending", "running", "succeeded", "skipped", "failed", "retry_waiting", "waiting"}
StepShape ==
    [status : StepStatuses, jobs : SUBSET Nat, previous : SUBSET Nat, tries : Nat \cup {NoInfo},
     due : BOOLEAN, retry : BOOLEAN, last : Nat]
PipeShape ==
    [status : Statuses, current : StepIds, wait : Statuses \cup {"none"}, error : Kinds \cup {"none"},
     pausedFrom : {"running", "retry_waiting", "waiting_for_correction"}, released : BOOLEAN,
     bound : BOOLEAN, input : Nat, selection : Nat, confirmed : BOOLEAN, step : [StepIds -> StepShape]]
Shape ==
    /\ plan \in DOMAIN Plans /\ p \in PipeShape /\ jobs \in Seq(JobRecord) /\ run \in RunRecord
    /\ pc \in {"idle", "dispatch", "sent", "resent", "submit", "publish"}
    /\ have \in [JobSteps -> Nat] /\ data \in Nat /\ intent \in Nat
    /\ remote \in Known \cup {"none", "late"} /\ head \in {"none", "active", "stable"}
    /\ clean \in BOOLEAN /\ release \in BOOLEAN
    /\ conv \in Kinds \cup {"none", "running", "succeeded"}
    /\ made \in [StepIds -> Nat] /\ crashes \in Nat /\ grants \in Nat

\* A step's record is replaced, and the other steps' are not.
Put(q, s, st) == [q EXCEPT !.step[s] = st]

\* The plan's steps: each has its place, and publication is before the overview.
LEMMA PlanFacts ==
  ASSUME plan \in DOMAIN Plans
  PROVE  /\ Steps \in Seq({STEPS[k] : k \in 1..8}) /\ Len(Steps) \in Nat
         /\ \A k \in 1..Len(Steps) : \A l \in 1..k - 1 :
              \E a \in 1..8 : \E b \in 1..a - 1 : Steps[k] = STEPS[a] /\ Steps[l] = STEPS[b]
         /\ {"collection", "correction", "publication", "overview"} \subseteq StepIds
         /\ JobSteps # {} /\ JobSteps \subseteq StepIds
         /\ Start \in {"collect", "existing"} /\ Mode \in {"automatic", "manual"}
<1> DEFINE c == Plans[plan]
           S == {c.steps[k] : k \in 1..Len(c.steps)}
<1>1. /\ c.steps \in Seq({STEPS[k] : k \in 1..8})
      /\ \A k \in 1..Len(c.steps) : \A l \in 1..k - 1 :
           \E a \in 1..8 : \E b \in 1..a - 1 : c.steps[k] = STEPS[a] /\ c.steps[l] = STEPS[b]
      /\ {"collection", "correction", "publication", "overview"} \subseteq S
      /\ S \cap {"preprocessing", "tree", "quality"} # {}
      /\ c.mode \in {"automatic", "manual"} /\ c.start \in {"collect", "existing"}
  BY PipelineAssumption
<1>2. Len(c.steps) \in Nat
  BY <1>1, LenProperties
<1> QED
  BY <1>1, <1>2 DEF Steps, StepIds, JobSteps, Start, Mode

LEMMA IndexIs ==
  ASSUME NEW s \in StepIds
  PROVE  Index(s) \in 1..Len(Steps) /\ Steps[Index(s)] = s
  BY DEF Index, StepIds

LEMMA PlacesDiffer ==
  ASSUME plan \in DOMAIN Plans, NEW s \in StepIds, NEW t \in StepIds
  PROVE  /\ s # t => Before(s, t) \/ Before(t, s)
         /\ ~(Before(s, t) /\ Before(t, s))
<1>1. Len(Steps) \in Nat
  BY PlanFacts
<1> QED
  BY <1>1, IndexIs DEF Before

LEMMA FirstAndLast ==
  ASSUME plan \in DOMAIN Plans
  PROVE  /\ \A s \in StepIds : ~Before(s, "collection")
         /\ Before("publication", "overview")
<1>1. ASSUME NEW s \in StepIds, NEW t \in StepIds, Before(s, t)
      PROVE  \E a \in 1..8 : \E b \in 1..a - 1 : t = STEPS[a] /\ s = STEPS[b]
  <2>1. Index(s) \in 1..Len(Steps) /\ Steps[Index(s)] = s /\ Index(t) \in 1..Len(Steps) /\ Steps[Index(t)] = t
    BY IndexIs
  <2>2. Index(s) \in 1..Index(t) - 1
    BY <1>1, <2>1 DEF Before
  <2>3. \A k \in 1..Len(Steps) : \A l \in 1..k - 1 :
          \E a \in 1..8 : \E b \in 1..a - 1 : Steps[k] = STEPS[a] /\ Steps[l] = STEPS[b]
    BY PlanFacts
  <2>4. \A l \in 1..Index(t) - 1 :
          \E a \in 1..8 : \E b \in 1..a - 1 : Steps[Index(t)] = STEPS[a] /\ Steps[l] = STEPS[b]
    BY <2>1, <2>3
  <2> QED
    BY <2>1, <2>2, <2>4
<1>2. STEPS[1] = "collection" /\ STEPS[7] = "publication" /\ STEPS[8] = "overview"
  BY DEF STEPS
<1>3. \A a \in 1..8 : (STEPS[a] = "collection" => a = 1) /\ (STEPS[a] = "overview" => a = 8)
  BY DEF STEPS
<1>4. ASSUME NEW s \in StepIds PROVE ~Before(s, "collection")
  BY <1>1, <1>3, PlanFacts
<1>5. ~Before("overview", "publication")
  <2>1. \A a \in 1..8 : \A b \in 1..a - 1 : b # 8
    OBVIOUS
  <2> QED
    BY <1>1, <1>3, <2>1, PlanFacts
<1> QED
  BY <1>4, <1>5, PlacesDiffer, PlanFacts

-----------------------------------------------------------------------------
(* Numbers, and the steps they choose. *)

LEMMA MinIs ==
  ASSUME NEW S \in SUBSET Nat, S # {}
  PROVE  \E m \in S : \A x \in S : m <= x
<1>1. PICK m \in S : \A x \in S : ~ (<<x, m>> \in OpToRel(<, Nat))
  BY NatLessThanWellFounded, WFMin
<1>2. \A x \in S : ~(x < m)
  BY <1>1 DEF OpToRel
<1> QED
  BY <1>2

LEMMA MaxIs ==
  ASSUME NEW S \in SUBSET Nat, S # {}, NEW n \in Nat, \A x \in S : x <= n
  PROVE  \E m \in S : \A x \in S : x <= m
<1> DEFINE T == {k \in 0..n : n - k \in S}
<1>1. PICK s \in S : TRUE
  OBVIOUS
<1>2. T \in SUBSET Nat /\ n - s \in T
  BY <1>1
<1> HIDE DEF T
<1>3. PICK k \in T : \A i \in T : k <= i
  BY <1>2, MinIs
<1>4. k \in 0..n /\ n - k \in S
  BY <1>3 DEF T
<1>5. ASSUME NEW x \in S PROVE x <= n - k
  <2>1. n - x \in 0..n /\ n - (n - x) = x
    OBVIOUS
  <2>2. n - x \in T
    BY <2>1 DEF T
  <2>3. k <= n - x
    BY <1>3, <2>2
  <2> QED
    BY <1>4, <2>1, <2>3
<1> QED
  BY <1>4, <1>5

LEMMA LastIs ==
  ASSUME NEW S \in SUBSET Nat, S # {}, NEW n \in Nat, \A x \in S : x <= n
  PROVE  Last(S) \in S /\ \A x \in S : x <= Last(S)
  BY MaxIs DEF Last

LEMMA FirstIs ==
  ASSUME NEW S \in SUBSET Nat, S # {}
  PROVE  First(S) \in S
  BY MinIs DEF First

\* Of several steps one comes first, and one comes last.
LEMMA Ends ==
  ASSUME plan \in DOMAIN Plans, NEW S \in SUBSET StepIds, S # {}
  PROVE  /\ \E s \in S : \A t \in S : Index(s) <= Index(t)
         /\ \E s \in S : \A t \in S : Index(t) <= Index(s)
<1> DEFINE N == {Index(s) : s \in S}
<1>1. \A s \in S : Index(s) \in 1..Len(Steps)
  BY IndexIs
<1>2. Len(Steps) \in Nat
  BY PlanFacts
<1>3. N \in SUBSET Nat /\ N # {} /\ \A x \in N : x <= Len(Steps)
  BY <1>1, <1>2
<1> HIDE DEF N
<1>4. PICK m \in N : \A x \in N : m <= x
  BY <1>3, MinIs
<1>5. PICK n \in N : \A x \in N : x <= n
  BY <1>2, <1>3, MaxIs
<1> QED
  BY <1>4, <1>5 DEF N

LEMMA JobStepEnds ==
  ASSUME plan \in DOMAIN Plans
  PROVE  FirstJobStep \in JobSteps /\ LastJobStep \in JobSteps
<1>1. JobSteps \in SUBSET StepIds /\ JobSteps # {}
  BY PlanFacts
<1> QED
  BY <1>1, Ends DEF FirstJobStep, LastJobStep

\* The walk is at the first step that is open.
LEMMA StepOfIs ==
  ASSUME plan \in DOMAIN Plans, NEW q, ~q.released, Open(q) # {}
  PROVE  /\ StepOf(q) \in Open(q)
         /\ \A t \in StepIds : Before(t, StepOf(q)) => q.step[t].status \in Closed
<1>1. Open(q) \in SUBSET StepIds
  BY DEF Open
<1>2. StepOf(q) \in Open(q) /\ \A t \in Open(q) : Index(StepOf(q)) <= Index(t)
  BY <1>1, Ends DEF StepOf
<1>3. \A t \in StepIds : Index(t) \in Nat
  BY IndexIs, PlanFacts
<1>4. ASSUME NEW t \in StepIds, Before(t, StepOf(q)), q.step[t].status \notin Closed PROVE FALSE
  <2>1. t \in Open(q)
    BY <1>4 DEF Open
  <2> QED
    BY <1>1, <1>2, <1>3, <1>4, <2>1 DEF Before
<1> QED
  BY <1>2, <1>4

LEMMA SourceIsNat ==
  ASSUME Shape, NEW s \in StepIds
  PROVE  Source(s) \in Nat
<1> DEFINE earlier == {i \in 1..Index(s) - 1 : Steps[i] \in JobSteps}
<1>1. Index(s) \in 1..Len(Steps) /\ Len(Steps) \in Nat
  BY IndexIs, PlanFacts DEF Shape
<1>2. earlier \in SUBSET Nat /\ Index(s) \in Nat /\ \A x \in earlier : x <= Index(s)
  BY <1>1
<1>3. ASSUME earlier # {} PROVE have[Steps[Last(earlier)]] \in Nat
  <2>1. Last(earlier) \in earlier
    BY <1>2, <1>3, LastIs
  <2>2. Steps[Last(earlier)] \in JobSteps
    BY <2>1
  <2> QED
    BY <2>2 DEF Shape
<1> QED
  BY <1>3 DEF Source, Shape

-----------------------------------------------------------------------------
(* What a step does to the record. *)

\* A pipeline whose record of one step is replaced.
LEMMA PutIs ==
  ASSUME NEW q \in PipeShape, NEW s \in StepIds, NEW st \in StepShape
  PROVE  LET r == Put(q, s, st)
         IN  /\ r \in PipeShape /\ r.step[s] = st
             /\ \A t \in StepIds \ {s} : r.step[t] = q.step[t]
             /\ r.status = q.status /\ r.current = q.current /\ r.wait = q.wait
             /\ r.error = q.error /\ r.pausedFrom = q.pausedFrom /\ r.released = q.released
             /\ r.bound = q.bound /\ r.input = q.input /\ r.selection = q.selection
             /\ r.confirmed = q.confirmed
  BY DEF Put, PipeShape

LEMMA DoneIs ==
  ASSUME NEW q \in PipeShape, NEW s \in StepIds, NEW how \in StepStatuses
  PROVE  \E st \in StepShape :
           /\ Done(q, s, how) = Put(q, s, st)
           /\ st.status = how /\ st.jobs = q.step[s].jobs /\ st.previous = q.step[s].previous
           /\ st.tries = q.step[s].tries /\ st.last = q.step[s].last
<1> DEFINE st == [q.step[s] EXCEPT !.status = how, !.due = FALSE]
<1>1. q.step[s] \in StepShape
  BY DEF PipeShape
<1>2. /\ st \in StepShape /\ st.status = how /\ st.jobs = q.step[s].jobs
      /\ st.previous = q.step[s].previous /\ st.tries = q.step[s].tries /\ st.last = q.step[s].last
  BY <1>1 DEF StepShape
<1>3. Done(q, s, how) = Put(q, s, st)
  BY DEF Done, Put, PipeShape, StepShape
<1> QED
  BY <1>2, <1>3

\* An attempt that is counted is one more, and a step that lost its counter has none.
LEMMA AttemptIs ==
  ASSUME NEW q \in PipeShape, NEW s \in StepIds
  PROVE  \E st \in StepShape :
           /\ Attempt(q, s) = Put(q, s, st)
           /\ st.status = q.step[s].status /\ st.jobs = q.step[s].jobs
           /\ st.previous = q.step[s].previous /\ st.last = q.step[s].last
           /\ st.retry = q.step[s].retry
           /\ st.tries = IF q.step[s].tries = NoInfo THEN NoInfo ELSE q.step[s].tries + 1
<1>1. q.step[s] \in StepShape
  BY DEF PipeShape
<1>2. CASE q.step[s].tries = NoInfo
  <2>1. Put(q, s, q.step[s]) = q
    BY DEF Put, PipeShape
  <2> QED
    BY <1>1, <1>2, <2>1 DEF Attempt
<1>3. CASE q.step[s].tries # NoInfo
  <2> DEFINE st == [q.step[s] EXCEPT !.tries = q.step[s].tries + 1, !.due = FALSE]
  <2>1. q.step[s].tries + 1 \in Nat
    BY <1>1, <1>3 DEF StepShape
  <2>2. /\ st \in StepShape /\ st.status = q.step[s].status /\ st.jobs = q.step[s].jobs
        /\ st.previous = q.step[s].previous /\ st.last = q.step[s].last
        /\ st.retry = q.step[s].retry /\ st.tries = q.step[s].tries + 1
    BY <1>1, <2>1 DEF StepShape
  <2>3. Attempt(q, s) = Put(q, s, st)
    BY <1>3 DEF Attempt, Put, PipeShape, StepShape
  <2> QED
    BY <1>3, <2>2, <2>3
<1> QED
  BY <1>2, <1>3

LEMMA RunningIs ==
  ASSUME NEW q \in PipeShape, NEW s \in StepIds
  PROVE  \E st \in StepShape :
           /\ Running(q, s) = Put(q, s, st)
           /\ st.status = "running" /\ st.jobs = q.step[s].jobs
           /\ st.previous = q.step[s].previous /\ st.last = q.step[s].last
           /\ st.retry = q.step[s].retry /\ st.tries = q.step[s].tries
<1> DEFINE st == [q.step[s] EXCEPT !.status = "running"]
<1>1. q.step[s] \in StepShape
  BY DEF PipeShape
<1>2. /\ st \in StepShape /\ st.status = "running" /\ st.jobs = q.step[s].jobs
      /\ st.previous = q.step[s].previous /\ st.last = q.step[s].last
      /\ st.retry = q.step[s].retry /\ st.tries = q.step[s].tries
  BY <1>1 DEF StepShape, StepStatuses
<1>3. Running(q, s) = Put(q, s, st)
  BY DEF Running, Put, PipeShape
<1> QED
  BY <1>2, <1>3

\* A step that fails, for good or until its retry is due.
Failed(q, s, r, status, failure) ==
    /\ r \in PipeShape /\ r.status = status /\ r.error = failure
    /\ \A t \in StepIds \ {s} : r.step[t] = q.step[t]
    /\ r.current = q.current /\ r.wait = q.wait /\ r.pausedFrom = q.pausedFrom
    /\ r.released = q.released /\ r.bound = q.bound /\ r.input = q.input
    /\ r.selection = q.selection /\ r.confirmed = q.confirmed
    /\ r.step[s] \in StepShape
    /\ r.step[s].status = IF status = "retry_waiting" THEN status ELSE "failed"
    /\ r.step[s].jobs = q.step[s].jobs /\ r.step[s].previous = q.step[s].previous
    /\ r.step[s].last = q.step[s].last /\ r.step[s].retry = q.step[s].retry

\* The parts of Mark: the pipeline's own fields and the step's.
Headed(q, status, failure) == [q EXCEPT !.status = status, !.error = failure]
Halted(st, how, due) == [st EXCEPT !.status = how, !.due = due]
Marked(q, s, status, failure, how, due) ==
    [q EXCEPT !.status = status, !.error = failure, !.step[s].status = how, !.step[s].due = due]

LEMMA MarkPuts ==
  ASSUME NEW q \in PipeShape, NEW s \in StepIds, NEW status, NEW failure, NEW how, NEW due
  PROVE  Marked(q, s, status, failure, how, due)
           = Put(Headed(q, status, failure), s, Halted(q.step[s], how, due))
  BY DEF Marked, Headed, Halted, Put, PipeShape, StepShape

LEMMA HeadedIs ==
  ASSUME NEW q \in PipeShape, NEW status \in Statuses, NEW failure \in Kinds \cup {"none"}
  PROVE  LET b == Headed(q, status, failure)
         IN  /\ b \in PipeShape /\ b.step = q.step /\ b.status = status /\ b.error = failure
             /\ b.current = q.current /\ b.wait = q.wait /\ b.pausedFrom = q.pausedFrom
             /\ b.released = q.released /\ b.bound = q.bound /\ b.input = q.input
             /\ b.selection = q.selection /\ b.confirmed = q.confirmed
  BY DEF Headed, PipeShape

LEMMA MarkIs ==
  ASSUME NEW q \in PipeShape, NEW s \in StepIds, NEW status \in Statuses,
         NEW failure \in Kinds, NEW due \in BOOLEAN
  PROVE  LET r == Mark(q, s, status, failure, due)
         IN  Failed(q, s, r, status, failure) /\ r.step[s].tries = q.step[s].tries
<1> DEFINE how == IF status = "retry_waiting" THEN status ELSE "failed"
           st  == Halted(q.step[s], how, due)
<1>1. q.step[s] \in StepShape /\ how \in StepStatuses
  BY DEF PipeShape, StepStatuses
<1>2. /\ st \in StepShape /\ st.status = how /\ st.jobs = q.step[s].jobs
      /\ st.retry = q.step[s].retry /\ st.previous = q.step[s].previous
      /\ st.tries = q.step[s].tries /\ st.last = q.step[s].last
  <2> HIDE DEF how
  <2> QED
    BY <1>1 DEF StepShape, Halted
<1>3. Mark(q, s, status, failure, due) = Marked(q, s, status, failure, how, due)
  BY DEF Mark, Marked
<1> HIDE DEF how
<1>4. Mark(q, s, status, failure, due) = Put(Headed(q, status, failure), s, st)
  BY <1>3, MarkPuts
<1> HIDE DEF st
<1> QED
  BY <1>2, <1>4, HeadedIs, PutIs DEF Failed, how

LEMMA ScheduleIs ==
  ASSUME NEW q \in PipeShape, NEW s \in StepIds, NEW failure \in Kinds
  PROVE  LET r == ScheduleOrFail(q, s, failure)
         IN  \E status \in {"retry_waiting", "failed", "published_summary_failed"} :
               /\ Failed(q, s, r, status, failure)
               /\ status = "retry_waiting" <=> Retries(q, s, failure)
               /\ status = "published_summary_failed" => s = "overview" /\ q.released
               /\ status = "failed" => ~(s = "overview" /\ q.released)
               /\ r.step[s].tries = IF Retries(q, s, failure) /\ q.step[s].tries = 0
                                    THEN 1 ELSE q.step[s].tries
<1>1. /\ "retry_waiting" \in Statuses /\ "failed" \in Statuses
      /\ "published_summary_failed" \in Statuses /\ TRUE \in BOOLEAN /\ FALSE \in BOOLEAN
  BY DEF Statuses, TERMINAL
<1>2. CASE Retries(q, s, failure)
  <2> DEFINE st == [q.step[s] EXCEPT !.tries = IF @ = 0 THEN 1 ELSE @]
             a  == Put(q, s, st)
  <2>1. q.step[s] \in StepShape
    BY DEF PipeShape
  <2>2. /\ st \in StepShape /\ st.jobs = q.step[s].jobs /\ st.previous = q.step[s].previous
        /\ st.last = q.step[s].last /\ st.retry = q.step[s].retry
        /\ st.tries = IF q.step[s].tries = 0 THEN 1 ELSE q.step[s].tries
    BY <2>1 DEF StepShape
  <2>3. ScheduleOrFail(q, s, failure) = Mark(a, s, "retry_waiting", failure, TRUE)
    BY <1>2 DEF ScheduleOrFail, Put
  <2> HIDE DEF st
  <2>4. /\ a \in PipeShape /\ a.step[s] = st /\ \A t \in StepIds \ {s} : a.step[t] = q.step[t]
        /\ a.current = q.current /\ a.wait = q.wait /\ a.pausedFrom = q.pausedFrom
        /\ a.released = q.released /\ a.bound = q.bound /\ a.input = q.input
        /\ a.selection = q.selection /\ a.confirmed = q.confirmed
    BY <2>2, PutIs
  <2> HIDE DEF a
  <2> DEFINE r == Mark(a, s, "retry_waiting", failure, TRUE)
  <2>5. Failed(a, s, r, "retry_waiting", failure) /\ r.step[s].tries = a.step[s].tries
    BY <1>1, <2>4, MarkIs
  <2> HIDE DEF r
  <2>6. Failed(q, s, r, "retry_waiting", failure)
    BY <2>2, <2>4, <2>5 DEF Failed
  <2> QED
    BY <1>2, <2>2, <2>3, <2>4, <2>5, <2>6 DEF r
<1>3. CASE ~Retries(q, s, failure)
  <2> DEFINE status == IF s = "overview" /\ q.released THEN "published_summary_failed" ELSE "failed"
             r == Mark(q, s, status, failure, FALSE)
  <2>1. ScheduleOrFail(q, s, failure) = r
    BY <1>3 DEF ScheduleOrFail
  <2>2. status \in {"published_summary_failed", "failed"} /\ status \in Statuses
    BY <1>1
  <2> HIDE DEF status
  <2>3. Failed(q, s, r, status, failure) /\ r.step[s].tries = q.step[s].tries
    BY <1>1, <2>2, MarkIs
  <2> HIDE DEF r
  <2> QED
    BY <1>3, <2>1, <2>2, <2>3 DEF status
<1> QED
  BY <1>2, <1>3

Bounded(S) == \E n \in Nat : S \subseteq 1..n

\* A step that starts anew: its jobs are those of an earlier attempt.
LEMMA RestartedIs ==
  ASSUME NEW st \in StepShape, NEW tries \in Nat \cup {NoInfo}, Bounded(st.jobs)
  PROVE  LET r == Restarted(st, tries)
         IN  /\ r \in StepShape /\ r.status = "pending" /\ r.jobs = {}
             /\ r.previous = st.previous \cup st.jobs /\ r.tries = tries /\ r.retry
             /\ r.last \in {0} \cup st.jobs
<1> DEFINE l == IF st.jobs = {} THEN 0 ELSE Last(st.jobs)
<1>1. l \in {0} \cup st.jobs /\ st.jobs \subseteq Nat
  <2>1. PICK n \in Nat : st.jobs \subseteq 1..n
    BY DEF Bounded
  <2>2. st.jobs \in SUBSET Nat /\ \A x \in st.jobs : x <= n
    BY <2>1 DEF StepShape
  <2> QED
    BY <2>2, LastIs
<1> HIDE DEF l
<1>2. l \in Nat
  BY <1>1
<1>3. Restarted(st, tries) =
        [st EXCEPT !.previous = @ \cup st.jobs, !.jobs = {}, !.status = "pending", !.last = l,
                   !.retry = TRUE, !.due = FALSE, !.tries = tries]
  BY DEF Restarted, l
<1>4. st.previous \cup st.jobs \in SUBSET Nat
  BY DEF StepShape
<1> QED
  BY <1>1, <1>2, <1>3, <1>4 DEF StepShape, StepStatuses

\* A due retry restarts its step; for the collection that is an attempt.
LEMMA RetriedIs ==
  ASSUME NEW q \in PipeShape, NEW s \in StepIds, Bounded(q.step[s].jobs)
  PROVE  LET r == Retried(q, s)
         IN  \E st \in StepShape :
               /\ r = Put(Headed(q, "running", "none"), s, st)
               /\ st.status = "pending" /\ st.jobs = {} /\ st.retry
               /\ st.previous = q.step[s].previous \cup q.step[s].jobs
               /\ st.last \in {0} \cup q.step[s].jobs
               /\ st.tries = IF s = "collection" /\ q.step[s].tries # NoInfo
                             THEN q.step[s].tries + 1 ELSE q.step[s].tries
<1> DEFINE h == Headed(q, "running", "none")
           again == Restarted(q.step[s], q.step[s].tries)
           a == Put(h, s, again)
<1>1. q.step[s] \in StepShape /\ q.step[s].tries \in Nat \cup {NoInfo}
  BY DEF PipeShape, StepShape
<1>2. /\ again \in StepShape /\ again.status = "pending" /\ again.jobs = {} /\ again.retry
      /\ again.previous = q.step[s].previous \cup q.step[s].jobs
      /\ again.tries = q.step[s].tries /\ again.last \in {0} \cup q.step[s].jobs
  <2> DEFINE old == q.step[s]
             tries == q.step[s].tries
  <2>1. old \in StepShape /\ tries \in Nat \cup {NoInfo} /\ Bounded(old.jobs)
    BY <1>1
  <2> HIDE DEF old, tries
  <2>2. LET r == Restarted(old, tries)
        IN  /\ r \in StepShape /\ r.status = "pending" /\ r.jobs = {}
            /\ r.previous = old.previous \cup old.jobs /\ r.tries = tries /\ r.retry
            /\ r.last \in {0} \cup old.jobs
    BY <2>1, RestartedIs
  <2> QED
    BY <2>2 DEF old, tries
<1>3. Retried(q, s) = IF s = "collection" THEN Attempt(a, s) ELSE a
  <2> HIDE DEF again
  <2>1. [q EXCEPT !.status = "running", !.error = "none", !.step[s] = again] = a
    BY DEF Headed, Put, PipeShape
  <2>2. [q EXCEPT !.status = "running", !.error = "none", !.step[s] = Restarted(@, @.tries)] = a
    BY <2>1 DEF again
  <2> QED
    BY <2>2 DEF Retried
<1> HIDE DEF again
<1>4. h \in PipeShape /\ h.step = q.step
  <2>1. "running" \in Statuses /\ "none" \in Kinds \cup {"none"}
    BY DEF Statuses
  <2> QED
    BY <2>1, HeadedIs
<1> HIDE DEF h
<1>5. a \in PipeShape /\ a.step[s] = again
  BY <1>2, <1>4, PutIs
<1>6. CASE s # "collection"
  BY <1>2, <1>3, <1>6 DEF h
<1>7. CASE s = "collection"
  <2>1. PICK st \in StepShape :
          /\ Attempt(a, s) = Put(a, s, st)
          /\ st.status = again.status /\ st.jobs = again.jobs
          /\ st.previous = again.previous /\ st.last = again.last /\ st.retry = again.retry
          /\ st.tries = IF again.tries = NoInfo THEN NoInfo ELSE again.tries + 1
    <3> HIDE DEF a
    <3> QED
      BY <1>5, AttemptIs
  <2>2. Put(a, s, st) = Put(h, s, st)
    BY <1>4 DEF Put, PipeShape
  <2>3. Retried(q, s) = Put(h, s, st)
    BY <1>3, <1>7, <2>1, <2>2
  <2> HIDE DEF a
  <2> QED
    BY <1>2, <1>7, <2>1, <2>3 DEF h
<1> QED
  BY <1>6, <1>7

-----------------------------------------------------------------------------
(* The invariant. *)

\* A step names only jobs there are.
JobsInv ==
    \A s \in StepIds : /\ p.step[s].jobs \cup p.step[s].previous \subseteq 1..Len(jobs)
                       /\ p.step[s].last \in 0..Len(jobs)

\* The status below a pause, and a pipeline that is neither held nor given up.
Eff  == IF p.status = "paused" THEN p.pausedFrom ELSE p.status
Live == p.wait = "none" /\ p.status \notin (TERMINAL \cup {"terminating"})

\* A call is made, and a batch released, only by a pipeline that runs and is not held.
HeadInv ==
    /\ pc # "idle" => p.status = "running" /\ p.wait = "none" /\ ~p.released /\ ~release
    /\ p.wait # "none" => head # "none" /\ ~release
    /\ release => head # "active" /\ (p.released \/ Current(p.input))
    /\ p.released => release
    /\ p.status \in {"published_summary_failed", "succeeded"} => p.released /\ p.current = "overview"

\* The steps before the current one are closed, and only it waits or has failed.
Unsettled == {"failed", "retry_waiting", "waiting"}
WalkInv ==
    /\ ~p.released /\ p.status \notin TERMINAL => p.step["publication"].status \notin Closed
    /\ Live /\ ~p.released =>
         /\ \A s \in StepIds : p.step[s].status \in Unsettled => s = p.current
         /\ LET st == p.step[p.current].status
            IN  IF Eff \in {"retry_waiting", "failed"} THEN st = Eff
                ELSE IF Eff = "waiting_for_correction" THEN st = "waiting" /\ p.current = "correction"
                ELSE st \notin Unsettled
         /\ \A s \in StepIds : Before(s, p.current) => p.step[s].status \in Closed
         /\ release => p.current = "publication"
         /\ p.current # "overview"
    /\ Live /\ p.released =>
         /\ p.current \in {"publication", "overview"}
         /\ Eff \in {"running", "retry_waiting", "published_summary_failed"}
         /\ Eff = "retry_waiting" => /\ p.current = "overview"
                                     /\ p.step["overview"].status = "retry_waiting"
\* The call under way is one of the current step's.
CallInv ==
    /\ pc \in {"dispatch", "sent", "resent"} => p.current = "collection"
    /\ pc = "submit" => p.current \in JobSteps \cup (StepIds \cap {"cot"}) /\ p.step[p.current].jobs = {}
    /\ pc = "publish" => p.current = "publication"
    /\ pc # "idle" => p.step[p.current].status = "running"
\* Attempts are counted within the policy, and a step that starts anew has no jobs.
Tried(st) ==
    /\ st.tries <= MaxAttempts
    /\ st.status = "pending" => st.tries \in {0, NoInfo} /\ st.jobs = {}
    /\ st.status = "retry_waiting" => st.tries \in 1..MaxAttempts - 1
TriesInv == \A s \in StepIds : Tried(p.step[s])
\* What the run's record says of the run at the collector.
RunInv ==
    /\ p.status = "terminated" /\ ~p.released => ~ActiveJobs /\ remote \notin {"running", "late"}
    /\ run.rejected => remote = "none"
    /\ remote # "none" => run.attempted
    /\ run.settled => remote = "ended"
    /\ pc \in {"sent", "resent"} => run.attempted /\ ~run.rejected /\ (run.status = "dispatching" \/ run.settled)
    /\ pc = "sent" => remote = "none"
    /\ remote \in {"running", "late"} =>
         run.status \in {"dispatching", "running"} \/ (run.error /\ run.status # "completed")
    /\ run.status = "none" => remote = "none"
    /\ run.status = "completed" => run.settled
\* Each attempt that is counted was made (Counted says when): a job that nobody is bound to,
\* one of U(s), is of an attempt that a restart cut off, and while Q holds it is adopted by
\* the attempt that counts next.
G == grants = 0 \/ crashes <= 1
Q == grants = 0 \/ crashes = 0
U(s) == {j \in 1..Len(jobs) : jobs[j].step = s /\ j \notin p.step[s].previous \cup p.step[s].jobs}
Counted == G /\ head = "none" /\ Live /\ ~p.released
MadeStep(s) ==
    LET st == p.step[s]
    IN  /\ st.tries # NoInfo
        /\ st.tries <= made[s] + (IF st.status \in {"pending", "retry_waiting"} THEN 0 ELSE 1)
        /\ st.status = "running" /\ s # "collection" => st.tries >= 1
        /\ /\ s \in {"preprocessing", "tree", "quality", "cot"} /\ st.status = "running"
           /\ st.jobs # {} \/ ((pc = "idle" \/ s # p.current) /\ U(s) # {})
           => st.tries <= made[s]
        /\ Q /\ U(s) # {} => /\ st.status \notin {"pending", "retry_waiting"}
                             /\ st.status = "running" => st.jobs = {} /\ \E j \in U(s) : U(s) = {j}
        /\ crashes = 0 => U(s) = {}
MadeCalls ==
    /\ pc \in {"dispatch", "sent", "resent"} =>
         made["collection"] >= 1 /\ p.step["collection"].tries <= made["collection"]
    /\ Q /\ pc = "submit" => U(p.current) = {}
    /\ p.status = "failed" /\ p.error = "transient" => made[p.current] >= MaxAttempts
MadeInv == Counted => (\A s \in StepIds : MadeStep(s)) /\ MadeCalls

IInv == /\ Shape /\ JobsInv /\ HeadInv /\ WalkInv /\ CallInv
        /\ TriesInv /\ RunInv /\ MadeInv

-----------------------------------------------------------------------------
(* What a tick walks with. *)

\* Before the release the record is the stored one; after it, publication is closed.
LEMMA ReconciledIs ==
  ASSUME IInv
  PROVE  /\ ~release => Reconciled = p
         /\ release => /\ Reconciled \in PipeShape /\ Reconciled.released
                       /\ Reconciled.current = "overview"
                       /\ Reconciled.wait = p.wait
                       /\ Reconciled.error \in {p.error, "none"}
                       /\ \A t \in StepIds \ {"publication"} : Reconciled.step[t] = p.step[t]
                       /\ Reconciled.step["publication"].status = "succeeded"
                       /\ Reconciled.step["publication"].jobs = p.step["publication"].jobs
                       /\ Reconciled.step["publication"].previous = p.step["publication"].previous
                       /\ Reconciled.step["publication"].last = p.step["publication"].last
                       /\ Reconciled.step["publication"].tries = p.step["publication"].tries
                       /\ Reconciled.status =
                            IF p.status = "paused" THEN "paused"
                            ELSE IF p.status \in {"retry_waiting", "published_summary_failed"} /\ p.current # "publication"
                                 THEN p.status ELSE "running"
                       /\ Reconciled.pausedFrom =
                            IF p.status = "paused" /\ p.current = "publication" THEN "running" ELSE p.pausedFrom
<1>1. CASE ~release
  BY <1>1 DEF Reconciled
<1>2. CASE release
  <2> DEFINE d == Done(p, "publication", "succeeded")
             q == [d EXCEPT !.released = TRUE, !.current = "overview"]
             late == p.current = "publication"
  <2>1. p \in PipeShape /\ {"publication", "overview"} \subseteq StepIds
    BY PlanFacts DEF IInv, Shape
  <2>2. PICK st \in StepShape :
          /\ d = Put(p, "publication", st)
          /\ st.status = "succeeded" /\ st.jobs = p.step["publication"].jobs
          /\ st.previous = p.step["publication"].previous
          /\ st.tries = p.step["publication"].tries /\ st.last = p.step["publication"].last
    BY <2>1, DoneIs DEF StepStatuses
  <2>3. /\ d \in PipeShape /\ d.step["publication"] = st
        /\ \A t \in StepIds \ {"publication"} : d.step[t] = p.step[t]
        /\ d.wait = p.wait /\ d.status = p.status /\ d.error = p.error /\ d.pausedFrom = p.pausedFrom
    BY <2>1, <2>2, PutIs
  <2>4. Reconciled =
          CASE p.status = "paused" -> [q EXCEPT !.pausedFrom = IF late THEN "running" ELSE @]
            [] p.status = "retry_waiting" /\ ~late -> q
            [] p.status = "published_summary_failed" /\ ~late -> q
            [] OTHER -> [q EXCEPT !.status = "running", !.error = "none"]
    BY <1>2 DEF Reconciled
  <2> HIDE DEF d
  <2>5. /\ q \in PipeShape /\ q.released /\ q.current = "overview" /\ q.step = d.step
        /\ q.wait = p.wait /\ q.status = p.status /\ q.error = p.error /\ q.pausedFrom = p.pausedFrom
    BY <2>1, <2>3 DEF PipeShape
  <2> HIDE DEF q
  <2> DEFINE R == Reconciled
  <2>6. CASE p.status = "paused"
    <3>1. R = [q EXCEPT !.pausedFrom = IF late THEN "running" ELSE @]
      BY <2>4, <2>6
    <3>2. /\ R \in PipeShape /\ R.released /\ R.current = "overview" /\ R.step = d.step
          /\ R.wait = p.wait /\ R.status = p.status /\ R.error = p.error
          /\ R.pausedFrom = IF late THEN "running" ELSE p.pausedFrom
      BY <2>5, <3>1 DEF PipeShape
    <3> HIDE DEF R
    <3> QED
      BY <1>2, <2>2, <2>3, <2>6, <3>2 DEF R
  <2>7. CASE p.status \in {"retry_waiting", "published_summary_failed"} /\ ~late
    <3>1. R = q
      BY <2>4, <2>7
    <3> QED
      BY <1>2, <2>2, <2>3, <2>5, <2>7, <3>1
  <2>8. CASE ~(p.status = "paused" \/ (p.status \in {"retry_waiting", "published_summary_failed"} /\ ~late))
    <3>1. R = [q EXCEPT !.status = "running", !.error = "none"]
      BY <2>4, <2>8
    <3>2. /\ R \in PipeShape /\ R.released /\ R.current = "overview" /\ R.step = d.step
          /\ R.wait = p.wait /\ R.status = "running" /\ R.error = "none"
          /\ R.pausedFrom = p.pausedFrom
      BY <2>5, <3>1 DEF PipeShape, Statuses
    <3> HIDE DEF R
    <3> QED
      BY <1>2, <2>2, <2>3, <2>8, <3>2 DEF R
  <2> QED
    BY <2>6, <2>7, <2>8
<1> QED
  BY <1>1, <1>2

\* The restarted record of a step whose retry is due.
Fresh(old, st, s) ==
    /\ st.status = "pending" /\ st.jobs = {} /\ st.retry
    /\ st.previous = old.previous \cup old.jobs /\ st.last \in {0} \cup old.jobs
    /\ st.tries = IF s = "collection" /\ old.tries # NoInfo THEN old.tries + 1 ELSE old.tries

\* Before the release: the walk stands at the first open step.
Unreleased(q) ==
    /\ pc = "idle" /\ ~release /\ ~p.released /\ p.wait = "none"
    /\ q.wait = "none" /\ ~q.released /\ q.pausedFrom = p.pausedFrom /\ q.confirmed = p.confirmed
    /\ q.input = p.input /\ q.selection = p.selection /\ q.bound = p.bound
AtFirstOpen(q, s) ==
    /\ s \in StepIds \ {"overview"} /\ q.current = s
    /\ p.step[s].status \notin Closed
    /\ \A t \in StepIds : Before(t, s) => p.step[t].status \in Closed
    /\ \A t \in StepIds \ {s} : q.step[t] = p.step[t]
    /\ q.step[s] \in StepShape
Walking(q, s) ==
    /\ q \in PipeShape /\ q.status = "running" /\ Unreleased(q) /\ AtFirstOpen(q, s)
    /\ \/ p.status = "running" /\ q.step[s] = p.step[s]
       \/ /\ p.status = "retry_waiting" /\ Fresh(p.step[s], q.step[s], s)

\* After it: only the overview is left.
WalkingLate(q) ==
    /\ q \in PipeShape /\ q.status \in {"running", "published_summary_failed"}
    /\ pc = "idle" /\ release /\ p.wait = "none" /\ q.wait = "none" /\ q.released /\ q.current = "overview"
    /\ \A t \in StepIds : /\ q.step[t].jobs \subseteq p.step[t].jobs
                          /\ q.step[t].previous \subseteq p.step[t].previous \cup p.step[t].jobs
                          /\ q.step[t].last \in {p.step[t].last, 0} \cup p.step[t].jobs
    /\ \A t \in StepIds \ {"overview"} : q.step[t].tries = p.step[t].tries
    /\ \A t \in StepIds \ {"overview", "publication"} : q.step[t].status = p.step[t].status
    /\ q.step["publication"].status = "succeeded"
    /\ q.step["overview"] \in StepShape
    /\ \/ q.step["overview"] = p.step["overview"] /\ (q.status = "published_summary_failed" =>
                                                     p.status = "published_summary_failed")
       \/ /\ p.status = "retry_waiting" /\ p.current = "overview" /\ q.status = "running"
          /\ Fresh(p.step["overview"], q.step["overview"], "overview")

LEMMA StepOfUnreleased ==
  ASSUME IInv, ~p.released, p.status \notin TERMINAL
  PROVE  /\ Open(p) # {} /\ StepOf(p) \in StepIds \ {"overview"}
         /\ p.step[StepOf(p)].status \notin Closed
         /\ \A t \in StepIds : Before(t, StepOf(p)) => p.step[t].status \in Closed
<1>1. plan \in DOMAIN Plans
  BY DEF IInv, Shape
<1>2. "publication" \in StepIds /\ p.step["publication"].status \notin Closed
  BY <1>1, PlanFacts DEF IInv, WalkInv
<1>3. Open(p) # {}
  BY <1>2 DEF Open
<1>4. StepOf(p) \in Open(p) /\ \A t \in StepIds : Before(t, StepOf(p)) => p.step[t].status \in Closed
  BY <1>1, <1>3, StepOfIs
<1>5. StepOf(p) # "overview"
  BY <1>1, <1>2, <1>4, FirstAndLast
<1> QED
  BY <1>3, <1>4, <1>5 DEF Open

\* The record with which a tick walks, before a due retry restarts its step.
CurrentPut(q, s) == [q EXCEPT !.current = s]
LEMMA CurrentPutIs ==
  ASSUME NEW q \in PipeShape, NEW s \in StepIds
  PROVE  LET r == CurrentPut(q, s)
         IN  /\ r \in PipeShape /\ r.current = s /\ r.step = q.step /\ r.status = q.status
             /\ r.wait = q.wait /\ r.error = q.error /\ r.pausedFrom = q.pausedFrom
             /\ r.released = q.released /\ r.bound = q.bound /\ r.input = q.input
             /\ r.selection = q.selection /\ r.confirmed = q.confirmed
  BY DEF CurrentPut, PipeShape

\* A tick walks only when no fence holds the record.
LEMMA WalksFree ==
  ASSUME IInv, Walks, p.status # "terminating"
  PROVE  pc = "idle" /\ p.wait = "none"
<1>1. CASE p.wait # "none"
  <2>1. head # "none" /\ ~release /\ ~p.released
    BY <1>1 DEF IInv, HeadInv
  <2>2. p.status \notin {"published_summary_failed"}
    BY <2>1 DEF IInv, HeadInv
  <2> QED
    BY <1>1, <2>1, <2>2 DEF Walks, Fenced
<1> QED
  BY <1>1 DEF Walks

LEMMA BoundedJobs ==
  ASSUME IInv, NEW s \in StepIds
  PROVE  Bounded(p.step[s].jobs)
<1>1. Len(jobs) \in Nat
  BY LenProperties DEF IInv, Shape
<1> QED
  BY <1>1 DEF IInv, JobsInv, Bounded

LEMMA AtIs ==
  ASSUME IInv, NEW q, NEW s, At(q, s), s # "overview"
  PROVE  Walking(q, s)
<1>1. /\ Walks /\ p.status # "terminating" /\ ~Rests(Reconciled) /\ s = StepOf(Reconciled)
  BY DEF At
<1>2. ~Reconciled.released
  BY <1>1 DEF StepOf
<1>3. ~release /\ Reconciled = p /\ ~p.released
  BY <1>2, ReconciledIs
<1>4. pc = "idle" /\ p.wait = "none"
  BY <1>1, WalksFree
<1>5. p \in PipeShape
  BY DEF IInv, Shape
<1>6. p.status \in {"running", "retry_waiting"} /\ p.status \notin TERMINAL
  <2>1. p.status \notin TERMINAL \ {"published_summary_failed"} /\ p.status # "published_summary_failed"
    BY <1>1, <1>3 DEF Walks, IInv, HeadInv
  <2>2. p.status \in Statuses /\ p.status \notin {"paused", "failed", "waiting_for_correction"}
    BY <1>1, <1>3, <1>5 DEF Rests, PipeShape
  <2> QED
    BY <1>1, <2>1, <2>2 DEF Statuses
<1>7. /\ s \in StepIds \ {"overview"} /\ p.step[s].status \notin Closed
      /\ \A t \in StepIds : Before(t, s) => p.step[t].status \in Closed
  BY <1>1, <1>3, <1>6, StepOfUnreleased
<1> DEFINE r == CurrentPut(p, s)
<1>8. IF r.status = "retry_waiting" THEN q = Retried(r, s) ELSE q = r
  BY <1>3 DEF At, CurrentPut
<1>9. /\ r \in PipeShape /\ r.current = s /\ r.step = p.step /\ r.status = p.status
      /\ r.wait = p.wait /\ r.pausedFrom = p.pausedFrom /\ r.released = p.released
      /\ r.bound = p.bound /\ r.input = p.input /\ r.selection = p.selection /\ r.confirmed = p.confirmed
  BY <1>5, <1>7, CurrentPutIs
<1> HIDE DEF r
<1>10. p.step[s] \in StepShape
  BY <1>5, <1>7 DEF PipeShape
<1>11. CASE p.status = "running"
  BY <1>3, <1>4, <1>5, <1>7, <1>8, <1>9, <1>10, <1>11 DEF Walking, Unreleased, AtFirstOpen
<1>12. CASE p.status = "retry_waiting"
  <2>1. q = Retried(r, s)
    BY <1>8, <1>9, <1>12
  <2>2. Bounded(r.step[s].jobs)
    BY <1>7, <1>9, BoundedJobs
  <2>3. PICK st \in StepShape :
          /\ q = Put(Headed(r, "running", "none"), s, st)
          /\ Fresh(r.step[s], st, s)
    BY <1>7, <1>9, <2>1, <2>2, RetriedIs DEF Fresh
  <2> DEFINE h == Headed(r, "running", "none")
  <2>4. /\ h \in PipeShape /\ h.step = r.step /\ h.status = "running" /\ h.current = r.current
        /\ h.wait = r.wait /\ h.pausedFrom = r.pausedFrom /\ h.released = r.released
        /\ h.bound = r.bound /\ h.input = r.input /\ h.selection = r.selection /\ h.confirmed = r.confirmed
    <3>1. "running" \in Statuses /\ "none" \in Kinds \cup {"none"}
      BY DEF Statuses
    <3> QED
      BY <1>9, <3>1, HeadedIs
  <2>5. q = Put(h, s, st)
    BY <2>3
  <2> HIDE DEF h
  <2>6. /\ q \in PipeShape /\ q.step[s] = st /\ \A t \in StepIds \ {s} : q.step[t] = h.step[t]
        /\ q.status = h.status /\ q.current = h.current /\ q.wait = h.wait
        /\ q.pausedFrom = h.pausedFrom /\ q.released = h.released
        /\ q.bound = h.bound /\ q.input = h.input /\ q.selection = h.selection
        /\ q.confirmed = h.confirmed
    BY <1>7, <2>4, <2>5, PutIs
  <2> QED
    BY <1>3, <1>4, <1>7, <1>9, <1>12, <2>3, <2>4, <2>6 DEF Walking, Unreleased, AtFirstOpen
<1> QED
  BY <1>6, <1>11, <1>12

LEMMA ReleasedIs ==
  ASSUME IInv
  PROVE  Reconciled.released <=> release
  BY ReconciledIs DEF IInv, HeadInv

LEMMA OverviewIs ==
  ASSUME IInv, NEW q, At(q, "overview")
  PROVE  WalkingLate(q)
<1>1. /\ Walks /\ p.status # "terminating" /\ ~Rests(Reconciled) /\ "overview" = StepOf(Reconciled)
  BY DEF At
<1>2. p.status \notin TERMINAL \ {"published_summary_failed"}
  BY <1>1 DEF Walks
<1>3. release
  <2> SUFFICES ASSUME ~release PROVE FALSE
    OBVIOUS
  <2>1. Reconciled = p /\ ~p.released /\ p.status # "published_summary_failed"
    BY ReconciledIs DEF IInv, HeadInv
  <2>2. StepOf(p) # "overview"
    BY <1>2, <2>1, StepOfUnreleased
  <2> QED
    BY <1>1, <2>1, <2>2
<1>4. pc = "idle" /\ p.wait = "none"
  BY <1>1, WalksFree
<1>5. p \in PipeShape /\ {"overview", "publication"} \subseteq StepIds
  BY PlanFacts DEF IInv, Shape
<1> DEFINE R == Reconciled
           r == CurrentPut(R, "overview")
<1>6. /\ R \in PipeShape /\ R.released /\ R.current = "overview" /\ R.wait = p.wait
      /\ \A t \in StepIds \ {"publication"} : R.step[t] = p.step[t]
      /\ R.step["publication"].status = "succeeded"
      /\ R.step["publication"].jobs = p.step["publication"].jobs
      /\ R.step["publication"].previous = p.step["publication"].previous
      /\ R.step["publication"].last = p.step["publication"].last
      /\ R.step["publication"].tries = p.step["publication"].tries
      /\ R.status = IF p.status = "paused" THEN "paused"
                    ELSE IF p.status \in {"retry_waiting", "published_summary_failed"} /\ p.current # "publication"
                         THEN p.status ELSE "running"
  BY <1>3, ReconciledIs
<1>7. p.status # "paused"
  BY <1>1, <1>6 DEF Rests
<1>8. IF r.status = "retry_waiting" THEN q = Retried(r, "overview") ELSE q = r
  BY DEF At, CurrentPut
<1> HIDE DEF R
<1>9. /\ r \in PipeShape /\ r.current = "overview" /\ r.step = R.step /\ r.status = R.status
      /\ r.wait = R.wait /\ r.released = R.released
  BY <1>5, <1>6, CurrentPutIs
<1> HIDE DEF r
<1>10. ASSUME NEW t \in StepIds
       PROVE  /\ R.step[t].jobs = p.step[t].jobs /\ R.step[t].previous = p.step[t].previous
              /\ R.step[t].last = p.step[t].last /\ R.step[t].tries = p.step[t].tries
  BY <1>6
<1>11. p.step["overview"] \in StepShape /\ R.step["overview"] = p.step["overview"]
  BY <1>5, <1>6 DEF PipeShape
<1>12. CASE r.status # "retry_waiting"
  <2>1. q = r /\ q.status \in {"running", "published_summary_failed"}
    BY <1>6, <1>7, <1>8, <1>9, <1>12
  <2>2. q.status = "published_summary_failed" => p.status = "published_summary_failed"
    BY <1>6, <1>9, <2>1
  <2>3. q.step = R.step
    BY <1>9, <2>1
  <2>4. /\ \A t \in StepIds : /\ q.step[t].jobs \subseteq p.step[t].jobs
                              /\ q.step[t].previous \subseteq p.step[t].previous \cup p.step[t].jobs
                              /\ q.step[t].last \in {p.step[t].last, 0} \cup p.step[t].jobs
        /\ \A t \in StepIds \ {"overview"} : q.step[t].tries = p.step[t].tries
        /\ \A t \in StepIds \ {"overview", "publication"} : q.step[t].status = p.step[t].status
        /\ q.step["publication"].status = "succeeded" /\ q.step["overview"] = p.step["overview"]
    BY <1>6, <1>10, <1>11, <2>3
  <2> QED
    BY <1>3, <1>4, <1>6, <1>9, <1>11, <2>1, <2>2, <2>4 DEF WalkingLate
<1>13. CASE r.status = "retry_waiting"
  <2>1. q = Retried(r, "overview") /\ p.status = "retry_waiting" /\ p.current # "publication"
    BY <1>6, <1>7, <1>8, <1>9, <1>13
  <2>2. p.current = "overview"
    <3>1. Live
      BY <1>4, <2>1 DEF Live, TERMINAL
    <3>2. p.released
      BY <1>3, <2>1, <3>1 DEF IInv, WalkInv
    <3> QED
      BY <2>1, <3>1, <3>2 DEF IInv, WalkInv
  <2>3. Bounded(r.step["overview"].jobs)
    BY <1>5, <1>9, <1>11, BoundedJobs
  <2>4. PICK st \in StepShape :
          /\ q = Put(Headed(r, "running", "none"), "overview", st)
          /\ Fresh(r.step["overview"], st, "overview")
    BY <1>5, <1>9, <2>1, <2>3, RetriedIs DEF Fresh
  <2> DEFINE h == Headed(r, "running", "none")
  <2>5. /\ h \in PipeShape /\ h.step = r.step /\ h.status = "running" /\ h.current = r.current
        /\ h.wait = r.wait /\ h.released = r.released
    <3>1. "running" \in Statuses /\ "none" \in Kinds \cup {"none"}
      BY DEF Statuses
    <3> QED
      BY <1>9, <3>1, HeadedIs
  <2>6. q = Put(h, "overview", st)
    BY <2>4
  <2> HIDE DEF h
  <2>7. /\ q \in PipeShape /\ q.step["overview"] = st
        /\ \A t \in StepIds \ {"overview"} : q.step[t] = h.step[t]
        /\ q.status = h.status /\ q.current = h.current /\ q.wait = h.wait /\ q.released = h.released
    BY <1>5, <2>5, <2>6, PutIs
  <2>8. Fresh(p.step["overview"], st, "overview")
    BY <1>9, <1>11, <2>4
  <2>9. \A t \in StepIds \ {"overview"} : q.step[t] = R.step[t]
    BY <1>9, <2>5, <2>7
  <2>10. /\ st.jobs = {} /\ st.last \in {0} \cup p.step["overview"].jobs
         /\ st.previous = p.step["overview"].previous \cup p.step["overview"].jobs
    BY <2>8 DEF Fresh
  <2>11. \A t \in StepIds : /\ q.step[t].jobs \subseteq p.step[t].jobs
                            /\ q.step[t].previous \subseteq p.step[t].previous \cup p.step[t].jobs
                            /\ q.step[t].last \in {p.step[t].last, 0} \cup p.step[t].jobs
    BY <1>10, <2>7, <2>9, <2>10
  <2>12. /\ \A t \in StepIds \ {"overview"} : q.step[t].tries = p.step[t].tries
         /\ \A t \in StepIds \ {"overview", "publication"} : q.step[t].status = p.step[t].status
         /\ q.step["publication"].status = "succeeded"
    BY <1>5, <1>6, <1>10, <2>9
  <2> QED
    BY <1>3, <1>4, <1>6, <1>9, <2>1, <2>2, <2>5, <2>7, <2>8, <2>11, <2>12 DEF WalkingLate
<1> QED
  BY <1>12, <1>13

-----------------------------------------------------------------------------
(* Steps that keep the plan. *)

LEMMA PlanKept ==
  ASSUME plan' = plan
  PROVE  /\ Steps' = Steps /\ StepIds' = StepIds /\ JobSteps' = JobSteps
         /\ PipeShape' = PipeShape /\ JobRecord' = JobRecord
         /\ FirstJobStep' = FirstJobStep /\ LastJobStep' = LastJobStep
         /\ Mode' = Mode /\ Start' = Start
<1>1. Steps' = Steps /\ Mode' = Mode /\ Start' = Start
  BY DEF Steps, Mode, Start
<1>2. StepIds' = StepIds
  BY <1>1 DEF StepIds
<1>3. JobSteps' = JobSteps
  BY <1>2 DEF JobSteps
<1>4. PipeShape' = PipeShape
  BY <1>2 DEF PipeShape
<1>5. JobRecord' = JobRecord
  BY <1>2, <1>3 DEF JobRecord
<1>6. FirstJobStep' = FirstJobStep /\ LastJobStep' = LastJobStep
  BY <1>1, <1>3 DEF FirstJobStep, LastJobStep, Index
<1> QED
  BY <1>1, <1>2, <1>3, <1>4, <1>5, <1>6

LEMMA BeforeKept ==
  ASSUME plan' = plan
  PROVE  \A s, t : Before(s, t)' <=> Before(s, t)
<1>1. Steps' = Steps
  BY DEF Steps
<1> QED
  BY <1>1 DEF Before, Index

\* The record after a step at s, that of a batch not released.
Post(s) ==
    /\ plan' = plan /\ p' \in PipeShape /\ p'.current = s /\ p'.wait = "none" /\ ~p'.released
    /\ \A t \in StepIds \ {s} : p'.step[t] = p.step[t]
    /\ \/ p'.status \in {"failed", "retry_waiting"} /\ p'.step[s].status = p'.status
       \/ p'.status = "waiting_for_correction" /\ p'.step[s].status = "waiting" /\ s = "correction"
       \/ p'.status = "running" /\ p'.step[s].status \notin Unsettled

\* The step at which a tick works: the first open one, and the others are settled.
Standing(s) ==
    /\ ~p.released /\ p.status \notin TERMINAL /\ s \in StepIds \ {"overview"}
    /\ \A t \in StepIds : Before(t, s) => p.step[t].status \in Closed
    /\ \A t \in StepIds \ {s} : p.step[t].status \notin Unsettled

LEMMA WalkPost ==
  ASSUME IInv, NEW s, Standing(s), Post(s),
         s = "publication" => p'.step[s].status \notin Closed, release' => s = "publication"
  PROVE  WalkInv'
<1>1. StepIds' = StepIds /\ \A u, t : Before(u, t)' <=> Before(u, t)
  BY PlanKept, BeforeKept DEF Post
<1>2. p'.step["publication"].status \notin Closed
  <2>1. "publication" \in StepIds
    BY PlanFacts DEF IInv, Shape
  <2>2. p.step["publication"].status \notin Closed
    BY DEF IInv, WalkInv, Standing
  <2> QED
    BY <2>1, <2>2 DEF Post
<1>3. ASSUME NEW t \in StepIds, p'.step[t].status \in Unsettled PROVE t = p'.current
  BY <1>3 DEF Post, Standing
<1>4. LET st == p'.step[p'.current].status
      IN  IF Eff' \in {"retry_waiting", "failed"} THEN st = Eff'
          ELSE IF Eff' = "waiting_for_correction" THEN st = "waiting" /\ p'.current = "correction"
          ELSE st \notin Unsettled
  BY DEF Post, Eff
<1>5. ASSUME NEW t \in StepIds, Before(t, p'.current) PROVE p'.step[t].status \in Closed
  <2>1. p'.current = s /\ s \in StepIds
    BY DEF Post, Standing
  <2>2. t # s
    <3>1. plan \in DOMAIN Plans
      BY DEF IInv, Shape
    <3> QED
      BY <1>5, <2>1, <3>1, PlacesDiffer
  <2> QED
    BY <1>5, <2>1, <2>2 DEF Post, Standing
<1>6. p'.current = s /\ s # "overview" /\ ~p'.released
  BY DEF Post, Standing
<1> QED
  BY <1>1, <1>2, <1>3, <1>4, <1>5, <1>6 DEF WalkInv

LEMMA WalkingStands ==
  ASSUME IInv, NEW q, NEW s, Walking(q, s)
  PROVE  /\ Standing(s) /\ Live
         /\ p.status = "running" => q.step[s].status \in {"pending", "running"}
         /\ p.status = "retry_waiting" => p.step[s].status = "retry_waiting" /\ s = p.current
<1>1. /\ p.wait = "none" /\ ~p.released /\ p.status \in {"running", "retry_waiting"}
      /\ s \in StepIds \ {"overview"} /\ p.step[s].status \notin Closed
      /\ \A t \in StepIds : Before(t, s) => p.step[t].status \in Closed
      /\ q.step[s] \in StepShape
  BY DEF Walking, Unreleased, AtFirstOpen
<1>2. Live /\ Eff = p.status /\ p.status \notin TERMINAL
  BY <1>1 DEF Live, Eff, TERMINAL
<1>3. /\ \A t \in StepIds : p.step[t].status \in Unsettled => t = p.current
      /\ LET st == p.step[p.current].status
         IN  IF Eff \in {"retry_waiting", "failed"} THEN st = Eff
             ELSE IF Eff = "waiting_for_correction" THEN st = "waiting" /\ p.current = "correction"
             ELSE st \notin Unsettled
      /\ \A t \in StepIds : Before(t, p.current) => p.step[t].status \in Closed
  BY <1>1, <1>2 DEF IInv, WalkInv
<1>4. p.current \in StepIds
  BY DEF IInv, Shape, PipeShape
<1>5. CASE p.status = "running"
  <2>1. \A t \in StepIds : p.step[t].status \notin Unsettled
    BY <1>2, <1>3, <1>5
  <2>2. q.step[s] = p.step[s] /\ q.step[s].status \in StepStatuses
    BY <1>1, <1>5 DEF Walking, StepShape
  <2> QED
    BY <1>1, <1>2, <1>5, <2>1, <2>2 DEF Standing, Unsettled, Closed, StepStatuses
<1>6. CASE p.status = "retry_waiting"
  <2>1. p.step[p.current].status = "retry_waiting"
    BY <1>2, <1>3, <1>6
  <2>2. p.step[p.current].status \notin Closed
    BY <2>1 DEF Closed
  <2>3. s = p.current
    <3>1. plan \in DOMAIN Plans
      BY DEF IInv, Shape
    <3> QED
      BY <1>1, <1>3, <1>4, <2>2, <3>1, PlacesDiffer
  <2> QED
    BY <1>1, <1>2, <1>3, <1>6, <2>1, <2>3 DEF Standing
<1> QED
  BY <1>1, <1>5, <1>6

\* A call that a tick makes is made at the step it stands at.
LEMMA CallingStands ==
  ASSUME IInv, pc # "idle"
  PROVE  /\ Standing(p.current) /\ Live /\ p.status = "running" /\ ~release
         /\ p.step[p.current].status = "running"
<1>1. p.status = "running" /\ p.wait = "none" /\ ~p.released /\ ~release
  BY DEF IInv, HeadInv
<1>2. Live /\ Eff = "running" /\ p.status \notin TERMINAL
  BY <1>1 DEF Live, Eff, TERMINAL
<1>3. p.step[p.current].status = "running"
  BY DEF IInv, CallInv
<1>4. p.current \in StepIds
  BY DEF IInv, Shape, PipeShape
<1>5. /\ p.current # "overview"
      /\ \A t \in StepIds : Before(t, p.current) => p.step[t].status \in Closed
      /\ \A t \in StepIds : p.step[t].status \in Unsettled => t = p.current
  BY <1>1, <1>2 DEF IInv, WalkInv
<1> QED
  BY <1>1, <1>2, <1>3, <1>4, <1>5 DEF Standing

-----------------------------------------------------------------------------
(* What a tick saves before the release. *)

\* A record to which a step at s is applied.
Base(r, s) ==
    /\ r \in PipeShape /\ r.current = s /\ r.wait = "none" /\ ~r.released
    /\ \A t \in StepIds \ {s} : r.step[t] = p.step[t]
\* One record is another but for what is named in it.
Alike(q, r) ==
    /\ r \in PipeShape /\ r.step = q.step /\ r.current = q.current
    /\ r.wait = q.wait /\ r.pausedFrom = q.pausedFrom /\ r.released = q.released

LEMMA AlikeBase ==
  ASSUME NEW q, NEW r, NEW s, Base(q, s), Alike(q, r)
  PROVE  Base(r, s) /\ r.step = q.step
  BY DEF Base, Alike

LEMMA NamedAlike ==
  ASSUME NEW q \in PipeShape, NEW n \in Nat, NEW b \in BOOLEAN
  PROVE  /\ Alike(q, [q EXCEPT !.input = n]) /\ Alike(q, [q EXCEPT !.selection = n])
         /\ Alike(q, [q EXCEPT !.bound = b])
         /\ [q EXCEPT !.input = n].status = q.status /\ [q EXCEPT !.selection = n].status = q.status
         /\ [q EXCEPT !.bound = b].status = q.status
  BY DEF Alike, PipeShape

LEMMA BoundAlike ==
  ASSUME NEW q \in PipeShape
  PROVE  Alike(q, Bound(q)) /\ Bound(q).status = q.status
  BY DEF Alike, Bound, PipeShape

LEMMA WalkingBase ==
  ASSUME NEW q, NEW s, Walking(q, s)
  PROVE  Base(q, s) /\ q.status = "running"
  BY DEF Walking, Unreleased, AtFirstOpen, Base

LEMMA CallingBase ==
  ASSUME IInv, pc # "idle"
  PROVE  Base(p, p.current)
<1>1. p \in PipeShape
  BY DEF IInv, Shape
<1>2. p.status = "running" /\ p.wait = "none" /\ ~p.released
  BY DEF IInv, HeadInv
<1> QED
  BY <1>1, <1>2 DEF Base

\* The step is finished.
Finishes(r, s, how) ==
    /\ Post(s) /\ p'.status = "running" /\ p'.step[s].status = how
    /\ p'.step[s].jobs = r.step[s].jobs /\ p'.step[s].previous = r.step[s].previous
    /\ p'.step[s].last = r.step[s].last /\ p'.step[s].tries = r.step[s].tries

LEMMA BaseDone ==
  ASSUME NEW r, NEW s \in StepIds, Base(r, s), plan' = plan, NEW how \in Closed,
         Alike(Done(r, s, how), p'), p'.status = "running"
  PROVE  Finishes(r, s, how)
<1>1. r \in PipeShape /\ how \in StepStatuses
  BY DEF Base, Closed, StepStatuses
<1>2. PICK st \in StepShape :
        /\ Done(r, s, how) = Put(r, s, st) /\ st.status = how
        /\ st.jobs = r.step[s].jobs /\ st.previous = r.step[s].previous
        /\ st.tries = r.step[s].tries /\ st.last = r.step[s].last
  BY <1>1, DoneIs
<1> DEFINE d == Done(r, s, how)
<1>3. /\ d.step[s] = st /\ \A t \in StepIds \ {s} : d.step[t] = r.step[t]
      /\ d.current = r.current /\ d.wait = r.wait /\ d.released = r.released
  BY <1>1, <1>2, PutIs
<1>4. Alike(d, p')
  OBVIOUS
<1> HIDE DEF d
<1>5. /\ p' \in PipeShape /\ p'.step = d.step /\ p'.current = d.current
      /\ p'.wait = d.wait /\ p'.released = d.released
  BY <1>4 DEF Alike
<1>6. p'.step[s].status \notin Unsettled
  BY <1>2, <1>3, <1>5 DEF Closed, Unsettled
<1> QED
  BY <1>2, <1>3, <1>5, <1>6 DEF Post, Base, Finishes

\* The step fails, for good or until a retry.
Fails(r, s, failure) ==
    /\ Post(s) /\ p'.error = failure
    /\ p'.status = IF Retries(r, s, failure) THEN "retry_waiting" ELSE "failed"
    /\ p'.step[s].jobs = r.step[s].jobs /\ p'.step[s].previous = r.step[s].previous
    /\ p'.step[s].last = r.step[s].last /\ p'.step[s].status = p'.status
    /\ p'.step[s].tries = IF Retries(r, s, failure) /\ r.step[s].tries = 0 THEN 1 ELSE r.step[s].tries

LEMMA BaseFails ==
  ASSUME NEW r, NEW s \in StepIds, Base(r, s), plan' = plan, NEW failure \in Kinds,
         p' = ScheduleOrFail(r, s, failure)
  PROVE  Fails(r, s, failure)
<1>1. r \in PipeShape /\ ~r.released
  BY DEF Base
<1>2. PICK status \in {"retry_waiting", "failed", "published_summary_failed"} :
               /\ Failed(r, s, p', status, failure)
               /\ status = "retry_waiting" <=> Retries(r, s, failure)
               /\ status = "published_summary_failed" => s = "overview" /\ r.released
               /\ p'.step[s].tries = IF Retries(r, s, failure) /\ r.step[s].tries = 0
                                     THEN 1 ELSE r.step[s].tries
  BY <1>1, ScheduleIs
<1>3. status = IF Retries(r, s, failure) THEN "retry_waiting" ELSE "failed"
  BY <1>1, <1>2
<1> QED
  BY <1>2, <1>3 DEF Fails, Failed, Post, Base

\* The step is under way.
Runs(r, s) ==
    /\ Post(s) /\ p'.status = "running" /\ p'.step[s].status = "running"
    /\ p'.step[s].jobs = r.step[s].jobs /\ p'.step[s].previous = r.step[s].previous
    /\ p'.step[s].last = r.step[s].last /\ p'.step[s].tries = r.step[s].tries

LEMMA BaseRuns ==
  ASSUME NEW r, NEW s \in StepIds, Base(r, s), r.status = "running", plan' = plan, p' = Running(r, s)
  PROVE  Runs(r, s) /\ p'.step[s].retry = r.step[s].retry
<1>1. r \in PipeShape
  BY DEF Base
<1>2. PICK st \in StepShape :
        /\ Running(r, s) = Put(r, s, st) /\ st.status = "running"
        /\ st.jobs = r.step[s].jobs /\ st.previous = r.step[s].previous /\ st.last = r.step[s].last
        /\ st.retry = r.step[s].retry /\ st.tries = r.step[s].tries
  BY <1>1, RunningIs
<1>3. /\ p' \in PipeShape /\ p'.step[s] = st /\ \A t \in StepIds \ {s} : p'.step[t] = r.step[t]
      /\ p'.status = r.status /\ p'.current = r.current /\ p'.wait = r.wait /\ p'.released = r.released
  BY <1>1, <1>2, PutIs
<1> QED
  BY <1>2, <1>3 DEF Post, Base, Runs, Unsettled

\* Of the jobs, only those of the step at work are new.
OnlyJobsOf(s) ==
    /\ Len(jobs') \in Nat /\ Len(jobs) \in Nat /\ Len(jobs) <= Len(jobs')
    /\ \A j \in 1..Len(jobs') : jobs'[j].step # s => j \in 1..Len(jobs) /\ jobs[j].step = jobs'[j].step

LEMMA JobsPost ==
  ASSUME IInv, NEW s \in StepIds, Post(s), OnlyJobsOf(s),
         p'.step[s].jobs \cup p'.step[s].previous \subseteq 1..Len(jobs'),
         p'.step[s].last \in 0..Len(jobs')
  PROVE  JobsInv'
<1>1. StepIds' = StepIds
  BY PlanKept DEF Post
<1>2. ASSUME NEW t \in StepIds
      PROVE  /\ p'.step[t].jobs \cup p'.step[t].previous \subseteq 1..Len(jobs')
             /\ p'.step[t].last \in 0..Len(jobs')
  <2>1. CASE t = s
    BY <2>1
  <2>2. CASE t # s
    <3>1. p'.step[t] = p.step[t]
      BY <2>2 DEF Post
    <3>2. /\ p.step[t].jobs \cup p.step[t].previous \subseteq 1..Len(jobs)
          /\ p.step[t].last \in 0..Len(jobs)
      BY DEF IInv, JobsInv
    <3>3. 1..Len(jobs) \subseteq 1..Len(jobs') /\ 0..Len(jobs) \subseteq 0..Len(jobs')
      BY DEF OnlyJobsOf
    <3> QED
      BY <3>1, <3>2, <3>3
  <2> QED
    BY <2>1, <2>2
<1> QED
  BY <1>1, <1>2 DEF JobsInv

LEMMA TriesPost ==
  ASSUME IInv, NEW s \in StepIds, Post(s), Tried(p'.step[s])
  PROVE  TriesInv'
<1>1. StepIds' = StepIds
  BY PlanKept DEF Post
<1>2. ASSUME NEW t \in StepIds PROVE Tried(p'.step[t])
  <2>1. CASE t = s
    BY <2>1
  <2>2. CASE t # s
    BY <2>2 DEF Post, IInv, TriesInv
  <2> QED
    BY <2>1, <2>2
<1> QED
  BY <1>1, <1>2 DEF TriesInv, Tried

LEMMA UIsLess ==
  ASSUME NEW s, NEW t \in StepIds, s # t, OnlyJobsOf(s), p'.step[t] = p.step[t]
  PROVE  U(t)' \subseteq U(t)
  BY DEF U, OnlyJobsOf

LEMMA MadePost ==
  ASSUME IInv, NEW s, Standing(s), Live, Post(s), OnlyJobsOf(s),
         head' = head, crashes' = crashes, grants' = grants,
         \A t \in StepIds \ {s} : made'[t] = made[t],
         pc # "idle" => s = p.current,
         Counted => MadeStep(s)' /\ MadeCalls'
  PROVE  MadeInv'
<1>1. StepIds' = StepIds
  BY PlanKept DEF Post
<1>2. Counted' => Counted
  BY DEF Counted, G, Standing
<1>3. ASSUME Counted, NEW t \in StepIds \ {s} PROVE MadeStep(t)'
  <2>1. MadeStep(t)
    BY <1>3 DEF IInv, MadeInv
  <2>2. p'.step[t] = p.step[t] /\ made'[t] = made[t] /\ crashes' = crashes /\ (Q' <=> Q)
    BY DEF Post, Q
  <2>3. U(t)' \subseteq U(t)
    BY <2>2, UIsLess
  <2>4. U(t)' # {} => U(t) # {}
    BY <2>3
  <2>5. (\E j \in U(t) : U(t) = {j}) /\ U(t)' # {} => \E j \in U(t)' : U(t)' = {j}
    BY <2>3
  <2>6. pc = "idle" \/ t # p.current
    BY <1>3
  <2> QED
    BY <2>1, <2>2, <2>3, <2>4, <2>5, <2>6 DEF MadeStep
<1> QED
  BY <1>1, <1>2, <1>3 DEF MadeInv

\* What is known of the record with which a tick works at a step.
UOf(st, s) == {j \in 1..Len(jobs) : jobs[j].step = s /\ j \notin st.previous \cup st.jobs}
Loose(st, s) ==
    /\ st.jobs \cup st.previous \subseteq 1..Len(jobs) /\ st.last \in 0..Len(jobs)
    /\ st.tries \in Int /\ st.tries <= MaxAttempts
    /\ UOf(st, s) = U(s)
    /\ Counted => st.tries # NoInfo /\ st.tries <= made[s] + 1 /\ (crashes = 0 => U(s) = {})
Counts(st, s) ==
    /\ st.status = "pending" /\ s # "collection" => st.tries <= made[s]
    /\ st.status = "running" /\ s # "collection" => st.tries >= 1
    /\ s \in {"preprocessing", "tree", "quality", "cot"} /\ st.status = "running" /\ (st.jobs # {} \/ U(s) # {})
         => st.tries <= made[s]
    /\ Q /\ U(s) # {} => st.status = "running" /\ st.jobs = {} /\ \E j \in U(s) : U(s) = {j}

LEMMA NumbersAre ==
  ASSUME IInv, NEW s \in StepIds
  PROVE  /\ made[s] \in Nat /\ p.step[s] \in StepShape /\ p.step[s].tries \in Int /\ Len(jobs) \in Nat
         /\ MaxAttempts \in Nat /\ MaxAttempts >= 2
<1>1. p.step[s] \in StepShape
  BY DEF IInv, Shape, PipeShape
<1>2. p.step[s].tries \in Int
  BY <1>1 DEF StepShape, NoInfo
<1>3. made[s] \in Nat /\ Len(jobs) \in Nat
  BY LenProperties DEF IInv, Shape
<1> QED
  BY <1>1, <1>2, <1>3, PipelineAssumption

LEMMA StoredIsLoose ==
  ASSUME IInv, NEW s \in StepIds
  PROVE  Loose(p.step[s], s)
<1>1. /\ p.step[s].jobs \cup p.step[s].previous \subseteq 1..Len(jobs)
      /\ p.step[s].last \in 0..Len(jobs) /\ p.step[s].tries <= MaxAttempts
  BY DEF IInv, JobsInv, TriesInv, Tried
<1>2. ASSUME Counted PROVE p.step[s].tries # NoInfo /\ p.step[s].tries <= made[s] + 1 /\ (crashes = 0 => U(s) = {})
  <2>1. MadeStep(s)
    BY <1>2 DEF IInv, MadeInv
  <2> QED
    BY <2>1, NumbersAre DEF MadeStep
<1>3. UOf(p.step[s], s) = U(s)
  BY DEF UOf, U
<1> QED
  BY <1>1, <1>2, <1>3, NumbersAre DEF Loose

LEMMA WalkingCounts ==
  ASSUME IInv, NEW q, NEW s, Walking(q, s)
  PROVE  /\ Loose(q.step[s], s) /\ (Counted => Counts(q.step[s], s))
         /\ q.step[s].status \in {"pending", "running"}
         /\ q.step[s].status = "pending" =>
              /\ q.step[s].jobs = {}
              /\ \/ q.step[s].tries \in {0, NoInfo}
                 \/ /\ q.step[s].retry /\ q.step[s].tries \notin {0, NoInfo}
                    /\ s # "collection" => q.step[s].tries < MaxAttempts
<1>1. /\ Standing(s) /\ Live /\ p.status \in {"running", "retry_waiting"}
      /\ p.status = "running" => q.step[s].status \in {"pending", "running"}
      /\ p.status = "retry_waiting" => p.step[s].status = "retry_waiting" /\ s = p.current
  BY WalkingStands DEF Walking
<1>2. s \in StepIds
  BY <1>1 DEF Standing
<1>3. Loose(p.step[s], s) /\ Tried(p.step[s])
  BY <1>2, StoredIsLoose DEF IInv, TriesInv
<1>4. pc = "idle" /\ made[s] \in Nat /\ p.step[s].tries \in Int /\ Len(jobs) \in Nat /\ MaxAttempts \in Nat
  BY <1>2, NumbersAre DEF Walking, Unreleased
<1>5. Counted => MadeStep(s)
  BY <1>2 DEF IInv, MadeInv
<1>6. CASE p.status = "running" /\ q.step[s] = p.step[s]
  <2>1. ASSUME Counted PROVE Counts(q.step[s], s)
    <3>1. MadeStep(s)
      BY <1>5, <2>1
    <3>2. q.step[s] = p.step[s] /\ q.step[s].status \in {"pending", "running"}
      BY <1>1, <1>6
    <3> QED
      BY <1>4, <3>1, <3>2 DEF MadeStep, Counts
  <2> QED
    BY <1>1, <1>3, <1>6, <2>1 DEF Tried
<1>7. CASE p.status = "retry_waiting" /\ Fresh(p.step[s], q.step[s], s)
  <2>1. /\ q.step[s].status = "pending" /\ q.step[s].jobs = {} /\ q.step[s].retry
        /\ q.step[s].previous = p.step[s].previous \cup p.step[s].jobs
        /\ q.step[s].last \in {0} \cup p.step[s].jobs
        /\ q.step[s].tries = IF s = "collection" /\ p.step[s].tries # NoInfo
                             THEN p.step[s].tries + 1 ELSE p.step[s].tries
    BY <1>7 DEF Fresh
  <2>2. p.step[s].tries \in 1..MaxAttempts - 1 /\ p.step[s].tries # NoInfo
    BY <1>1, <1>3, <1>4, <1>7 DEF Tried, NoInfo
  <2>3. /\ q.step[s].tries \in Int /\ q.step[s].tries <= MaxAttempts /\ q.step[s].tries \notin {0, NoInfo}
        /\ s # "collection" => q.step[s].tries < MaxAttempts
    BY <1>4, <2>1, <2>2 DEF NoInfo
  <2>4. UOf(q.step[s], s) = U(s)
    BY <2>1 DEF U, UOf
  <2>5. ASSUME Counted PROVE Counts(q.step[s], s) /\ q.step[s].tries <= made[s] + 1
    <3>1. /\ p.step[s].tries <= made[s] /\ (Q => U(s) = {})
      BY <1>1, <1>4, <1>5, <1>7, <2>2, <2>5 DEF MadeStep
    <3>2. q.step[s].tries <= made[s] + (IF s # "collection" THEN 0 ELSE 1)
      BY <1>4, <2>1, <2>2, <3>1 DEF NoInfo
    <3>3. q.step[s].tries <= made[s] + 1
      BY <1>4, <2>3, <3>2
    <3> QED
      BY <1>4, <2>1, <2>3, <3>1, <3>2, <3>3 DEF Counts
  <2>6. q.step[s].last \in 0..Len(jobs) /\ q.step[s].jobs \cup q.step[s].previous \subseteq 1..Len(jobs)
    BY <1>3, <1>4, <2>1 DEF Loose
  <2>7. Loose(q.step[s], s)
    BY <1>3, <2>3, <2>4, <2>5, <2>6 DEF Loose
  <2> QED
    BY <2>1, <2>3, <2>5, <2>7
<1> QED
  BY <1>6, <1>7 DEF Walking

\* The call a tick is about to make fits the step it stands at.
Calls(s) ==
    /\ pc' \in {"dispatch", "sent", "resent"} => s = "collection"
    /\ pc' = "submit" => s \in JobSteps \cup (StepIds \cap {"cot"}) /\ p'.step[s].jobs = {}
    /\ pc' = "publish" => s = "publication"
    /\ pc' # "idle" => p'.status = "running" /\ p'.step[s].status = "running" /\ ~release'

\* A step of a tick at s, of a batch that it does not see released.
Ticks(s) ==
    /\ Standing(s) /\ Live /\ Post(s) /\ OnlyJobsOf(s) /\ Calls(s)
    /\ (pc # "idle" => s = p.current) /\ ~release
    /\ head' = head /\ crashes' = crashes /\ grants' = grants
    /\ \A t \in StepIds \ {s} : made'[t] = made[t]
    /\ release' => s = "publication" /\ head # "active" /\ Current(p.input)'
    /\ s = "publication" => p'.step[s].status \notin Closed
    /\ p'.step[s].jobs \cup p'.step[s].previous \subseteq 1..Len(jobs')
    /\ p'.step[s].last \in 0..Len(jobs')

LEMMA TickPost ==
  ASSUME IInv, NEW s, Ticks(s), Shape', RunInv', Tried(p'.step[s]),
         Counted => MadeStep(s)' /\ MadeCalls'
  PROVE  IInv'
<1>1. s \in StepIds
  BY DEF Ticks, Standing
<1>2. StepIds' = StepIds /\ JobSteps' = JobSteps
  BY PlanKept DEF Ticks, Post
<1>3. JobsInv'
  BY <1>1, JobsPost DEF Ticks
<1>4. HeadInv'
  <2>1. p'.wait = "none" /\ ~p'.released /\ p'.status \notin {"published_summary_failed", "succeeded"}
    BY DEF Ticks, Post
  <2>2. pc' # "idle" => p'.status = "running" /\ ~release'
    BY DEF Ticks, Calls
  <2>3. release' => head' # "active" /\ Current(p.input)'
    BY DEF Ticks
  <2> QED
    BY <2>1, <2>2, <2>3 DEF HeadInv
<1>5. WalkInv'
  BY WalkPost DEF Ticks
<1>6. CallInv'
  <2>1. p'.current = s
    BY DEF Ticks, Post
  <2> QED
    BY <1>2, <2>1 DEF Ticks, Calls, CallInv
<1>7. TriesInv'
  BY <1>1, TriesPost DEF Ticks
<1>8. MadeInv'
  BY MadePost DEF Ticks
<1> QED
  BY <1>3, <1>4, <1>5, <1>6, <1>7, <1>8 DEF IInv

\* A run that a step leaves alone, and that it does not give back.
LEMMA RunKept ==
  ASSUME IInv, UNCHANGED <<run, remote>>, pc' \notin {"sent", "resent"},
         p'.status = "terminated" => p'.released
  PROVE  RunInv'
  BY DEF IInv, RunInv

\* A step of a tick that calls no service.
LEMMA WalkPosts ==
  ASSUME IInv, NEW s, Standing(s), Live, pc = "idle", ~release, Post(s), Calls(s),
         UNCHANGED <<jobs, world>>, Beside, made' \in [StepIds -> Nat],
         \A t \in StepIds \ {s} : made'[t] = made[t],
         pc' \in {"idle", "dispatch", "submit", "publish"},
         s = "publication" => p'.step[s].status \notin Closed,
         p'.step[s].jobs \cup p'.step[s].previous \subseteq 1..Len(jobs),
         p'.step[s].last \in 0..Len(jobs),
         Tried(p'.step[s]),
         Counted => MadeStep(s)' /\ MadeCalls'
  PROVE  IInv'
<1>2. /\ jobs' = jobs /\ have' = have /\ run' = run /\ remote' = remote /\ head' = head
      /\ data' = data /\ clean' = clean /\ release' = release /\ intent' = intent /\ conv' = conv
      /\ plan' = plan /\ crashes' = crashes /\ grants' = grants
  BY DEF world, Beside
<1>3. StepIds' = StepIds /\ JobSteps' = JobSteps /\ PipeShape' = PipeShape /\ JobRecord' = JobRecord
  BY <1>2, PlanKept
<1>4. Shape'
  BY <1>2, <1>3 DEF IInv, Shape, Post
<1>5. RunInv'
  <2>1. p'.status # "terminated"
    BY DEF Post
  <2> QED
    BY <1>2, <2>1, RunKept
<1>6. OnlyJobsOf(s)
  <2>1. Len(jobs) \in Nat
    BY LenProperties DEF IInv, Shape
  <2> QED
    BY <1>2, <2>1 DEF OnlyJobsOf
<1>7. Ticks(s)
  BY <1>2, <1>6 DEF Ticks
<1> QED
  BY <1>4, <1>5, <1>7, TickPost
-----------------------------------------------------------------------------
(* How a step of a tick ends. *)

\* A tick that works at a step with the record r.
Works(r, s) ==
    /\ Standing(s) /\ Live /\ pc = "idle" /\ ~release /\ Base(r, s) /\ Loose(r.step[s], s)

LEMMA WalkingWorks ==
  ASSUME IInv, NEW q, NEW s, Walking(q, s)
  PROVE  Works(q, s)
  BY WalkingStands, WalkingCounts, WalkingBase DEF Works, Walking, Unreleased

LEMMA AlikeWorks ==
  ASSUME NEW q, NEW r, NEW s, Works(q, s), Alike(q, r)
  PROVE  Works(r, s) /\ r.step = q.step
  BY AlikeBase DEF Works

\* What is unknown of a job is not changed by a step that leaves the jobs alone.
LEMMA UStays ==
  ASSUME NEW s, NEW st, jobs' = jobs,
         p'.step[s].jobs = st.jobs, p'.step[s].previous = st.previous, UOf(st, s) = U(s)
  PROVE  U(s)' = U(s)
  BY DEF U, UOf

LEMMA InsideIs ==
  ASSUME Inside
  PROVE  /\ UNCHANGED <<jobs, world>> /\ Beside /\ jobs' = jobs /\ made' = made
         /\ plan' = plan /\ crashes' = crashes /\ grants' = grants
  BY DEF Inside, Beside

LEMMA FinishTick ==
  ASSUME IInv, NEW r, NEW s, Works(r, s), s # "publication", NEW how \in Closed,
         Alike(Done(r, s, how), p'), p'.status = "running", pc' = "idle", Inside
  PROVE  IInv'
<1>1. /\ Standing(s) /\ Live /\ pc = "idle" /\ ~release /\ Base(r, s) /\ Loose(r.step[s], s)
  BY DEF Works
<1>2. /\ UNCHANGED <<jobs, world>> /\ Beside /\ jobs' = jobs /\ made' = made /\ plan' = plan
      /\ crashes' = crashes /\ s \in StepIds /\ made \in [StepIds -> Nat]
  BY <1>1, InsideIs DEF Standing, IInv, Shape
<1>3. Finishes(r, s, how)
  BY <1>1, <1>2, BaseDone
<1>4. /\ Post(s) /\ p'.step[s].status = how
      /\ p'.step[s].jobs = r.step[s].jobs /\ p'.step[s].previous = r.step[s].previous
      /\ p'.step[s].last = r.step[s].last /\ p'.step[s].tries = r.step[s].tries
  BY <1>3 DEF Finishes
<1>5. U(s)' = U(s)
  BY <1>1, <1>2, <1>4, UStays DEF Loose
<1>6. how \notin {"pending", "retry_waiting", "running"}
  BY DEF Closed
<1>7. Tried(p'.step[s])
  BY <1>1, <1>4, <1>6 DEF Tried, Loose
<1>8. ASSUME Counted PROVE MadeStep(s)' /\ MadeCalls'
  <2>1. MadeStep(s)'
    BY <1>1, <1>2, <1>4, <1>5, <1>6, <1>8 DEF MadeStep, Loose
  <2>2. MadeCalls'
    BY DEF MadeCalls
  <2> QED
    BY <2>1, <2>2
<1>9. Calls(s)
  BY DEF Calls
<1> QED
  BY <1>1, <1>2, <1>4, <1>7, <1>8, <1>9, WalkPosts DEF Loose

LEMMA FailTick ==
  ASSUME IInv, NEW r, NEW s, Works(r, s), NEW failure \in Kinds,
         p' = ScheduleOrFail(r, s, failure), pc' = "idle", Inside,
         failure = "transient" /\ Counted =>
             s # "correction" /\ r.step[s].tries \in 1..made[s] /\ (Q => U(s) = {})
  PROVE  IInv'
<1>1. /\ Standing(s) /\ Live /\ pc = "idle" /\ ~release /\ Base(r, s) /\ Loose(r.step[s], s)
  BY DEF Works
<1>2. /\ UNCHANGED <<jobs, world>> /\ Beside /\ jobs' = jobs /\ made' = made /\ plan' = plan
      /\ crashes' = crashes /\ s \in StepIds /\ made \in [StepIds -> Nat] /\ (Q' <=> Q)
  BY <1>1, InsideIs DEF Standing, IInv, Shape, Q
<1>3. Fails(r, s, failure)
  BY <1>1, <1>2, BaseFails
<1>4. /\ Post(s) /\ p'.error = failure
      /\ p'.status = IF Retries(r, s, failure) THEN "retry_waiting" ELSE "failed"
      /\ p'.step[s].jobs = r.step[s].jobs /\ p'.step[s].previous = r.step[s].previous
      /\ p'.step[s].last = r.step[s].last /\ p'.step[s].status = p'.status
      /\ p'.step[s].tries = IF Retries(r, s, failure) /\ r.step[s].tries = 0 THEN 1 ELSE r.step[s].tries
      /\ p'.current = s
  BY <1>3 DEF Fails, Post
<1>5. U(s)' = U(s)
  BY <1>1, <1>2, <1>4, UStays DEF Loose
<1>6. /\ made[s] \in Nat /\ MaxAttempts \in Nat /\ MaxAttempts >= 2 /\ r.step[s].tries \in Int
      /\ r.step[s].tries \in Nat \cup {NoInfo} /\ r.step[s].tries <= MaxAttempts
  <2>1. r.step[s] \in StepShape
    BY <1>1, <1>2 DEF Base, PipeShape
  <2> QED
    BY <1>1, <1>2, <2>1, NumbersAre DEF Loose, StepShape
<1>7. Tried(p'.step[s])
  <2>1. CASE Retries(r, s, failure)
    <3>1. r.step[s].tries \in Nat /\ r.step[s].tries < MaxAttempts
      BY <1>6, <2>1 DEF Retries
    <3> QED
      BY <1>4, <1>6, <2>1, <3>1 DEF Tried
  <2>2. CASE ~Retries(r, s, failure)
    BY <1>4, <1>6, <2>2 DEF Tried
  <2> QED
    BY <2>1, <2>2
<1>8. ASSUME Counted PROVE MadeStep(s)' /\ MadeCalls'
  <2>1. r.step[s].tries # NoInfo /\ r.step[s].tries <= made[s] + 1 /\ (crashes = 0 => U(s) = {})
    BY <1>1, <1>8 DEF Loose
  <2>2. CASE Retries(r, s, failure)
    <3>1. failure = "transient"
      BY <2>2 DEF Retries
    <3>2. r.step[s].tries \in 1..made[s] /\ (Q => U(s) = {})
      BY <1>8, <3>1
    <3>3. p'.step[s].tries = r.step[s].tries /\ p'.step[s].status = "retry_waiting"
      BY <1>4, <2>2, <3>2
    <3>4. MadeStep(s)'
      BY <1>2, <1>5, <1>6, <2>1, <3>2, <3>3 DEF MadeStep
    <3>5. MadeCalls'
      BY <1>4, <2>2 DEF MadeCalls
    <3> QED
      BY <3>4, <3>5
  <2>3. CASE ~Retries(r, s, failure)
    <3>1. p'.step[s].tries = r.step[s].tries /\ p'.step[s].status = "failed"
      BY <1>4, <2>3
    <3>2. MadeStep(s)'
      BY <1>2, <1>5, <1>6, <2>1, <3>1 DEF MadeStep
    <3>3. failure = "transient" => made[s] >= MaxAttempts
      <4>1. ASSUME failure = "transient" PROVE made[s] >= MaxAttempts
        <5>1. r.step[s].tries \in 1..made[s]
          BY <1>8, <4>1
        <5>2. r.step[s].tries >= MaxAttempts
          BY <1>6, <1>8, <2>1, <2>3, <4>1 DEF Retries
        <5> QED
          BY <1>6, <5>1, <5>2
      <4> QED
        BY <4>1
    <3>4. MadeCalls'
      BY <1>2, <1>4, <3>3 DEF MadeCalls
    <3> QED
      BY <3>2, <3>4
  <2> QED
    BY <2>2, <2>3
<1>9. Calls(s)
  BY DEF Calls
<1>10. s = "publication" => p'.step[s].status \notin Closed
  BY <1>4 DEF Closed
<1> QED
  BY <1>1, <1>2, <1>4, <1>7, <1>8, <1>9, <1>10, WalkPosts DEF Loose
\* The record a tick works with when it does not restart a step.
LEMMA WaitingWorks ==
  ASSUME IInv, Walks, p.status # "terminating", ~Rests(Reconciled), ~release
  PROVE  /\ Works(Waiting, Waiting.current) /\ Waiting.current = StepOf(Reconciled)
         /\ p.status \in {"running", "retry_waiting"} /\ Waiting.input = p.input
<1> DEFINE s == StepOf(p)
<1>1. Reconciled = p /\ ~p.released
  BY ReconciledIs DEF IInv, HeadInv
<1>2. pc = "idle" /\ p.wait = "none" /\ p \in PipeShape
  BY WalksFree DEF IInv, Shape
<1>3. p.status \in {"running", "retry_waiting"} /\ p.status \notin TERMINAL
  <2>1. p.status \notin TERMINAL \ {"published_summary_failed"} /\ p.status # "published_summary_failed"
    BY <1>1 DEF Walks, IInv, HeadInv
  <2>2. p.status \in Statuses /\ p.status \notin {"paused", "failed", "waiting_for_correction"}
    BY <1>1, <1>2 DEF Rests, PipeShape
  <2> QED
    BY <2>1, <2>2 DEF Statuses
<1>4. /\ s \in StepIds \ {"overview"} /\ p.step[s].status \notin Closed
      /\ \A t \in StepIds : Before(t, s) => p.step[t].status \in Closed
  BY <1>1, <1>3, StepOfUnreleased
<1>5. Waiting = CurrentPut(p, s)
  BY <1>1 DEF Waiting, CurrentPut
<1>6. /\ Waiting \in PipeShape /\ Waiting.current = s /\ Waiting.step = p.step
      /\ Waiting.wait = p.wait /\ Waiting.released = p.released /\ Waiting.input = p.input
  BY <1>2, <1>4, <1>5, CurrentPutIs
<1> HIDE DEF s
<1>7. Live /\ Eff = p.status
  BY <1>2, <1>3 DEF Live, Eff
<1>8. Standing(s)
  <2>1. \A t \in StepIds : p.step[t].status \in Unsettled => t = p.current
    BY <1>1, <1>7 DEF IInv, WalkInv
  <2>2. ASSUME p.status = "running", NEW t \in StepIds PROVE p.step[t].status \notin Unsettled
    BY <1>1, <1>7, <2>1, <2>2 DEF IInv, WalkInv
  <2>3. ASSUME p.status = "retry_waiting" PROVE s = p.current
    <3>1. p.step[p.current].status = "retry_waiting" /\ p.current \in StepIds
      BY <1>1, <1>2, <1>7, <2>3 DEF IInv, WalkInv, PipeShape
    <3>2. p.step[p.current].status \notin Closed
      BY <3>1 DEF Closed
    <3>3. ~Before(p.current, s) /\ ~Before(s, p.current)
      BY <1>1, <1>4, <1>7, <3>1, <3>2 DEF IInv, WalkInv
    <3> QED
      BY <1>4, <3>1, <3>3, PlacesDiffer DEF IInv, Shape
  <2> QED
    BY <1>1, <1>3, <1>4, <2>1, <2>2, <2>3 DEF Standing
<1>9. Base(Waiting, s) /\ Loose(Waiting.step[s], s)
  BY <1>1, <1>2, <1>4, <1>6, StoredIsLoose DEF Base
<1> QED
  BY <1>1, <1>2, <1>3, <1>6, <1>7, <1>8, <1>9 DEF Works, s

LEMMA ChangedKeeps ==
  ASSUME IInv, Changed
  PROVE  IInv'
<1>1. /\ Walks /\ p.status # "terminating" /\ ~Rests(Reconciled) /\ ~Reconciled.released
      /\ Save(ScheduleOrFail(Waiting, Waiting.current, "permanent")) /\ Inside
  BY DEF Changed
<1>2. ~release
  BY <1>1, ReleasedIs
<1>3. Works(Waiting, Waiting.current)
  BY <1>1, <1>2, WaitingWorks
<1> DEFINE w == Waiting
           s == w.current
<1>4. Works(w, s) /\ p' = ScheduleOrFail(w, s, "permanent") /\ pc' = "idle"
  BY <1>1, <1>3 DEF Save
<1>5. "permanent" \in Kinds /\ "permanent" # "transient"
  BY DEF Kinds
<1> HIDE DEF w, s
<1> QED
  BY <1>1, <1>4, <1>5, FailTick

LEMMA SkipCotKeeps ==
  ASSUME IInv, NEW q, SkipCot(q)
  PROVE  IInv'
<1>1. At(q, "cot") /\ p' = Done(q, "cot", "skipped") /\ pc' = "idle" /\ Inside
  BY DEF SkipCot, Save
<1>2. Walking(q, "cot") /\ q.status = "running"
  BY <1>1, AtIs, WalkingBase
<1>3. Works(q, "cot")
  BY <1>2, WalkingWorks
<1>4. "skipped" \in Closed
  BY DEF Closed
<1>5. q \in PipeShape /\ "cot" \in StepIds
  BY <1>3 DEF Works, Base, Standing
<1>6. Alike(Done(q, "cot", "skipped"), p') /\ p'.status = "running"
  <2>1. PICK st \in StepShape : Done(q, "cot", "skipped") = Put(q, "cot", st)
    BY <1>5, DoneIs DEF StepStatuses
  <2> QED
    BY <1>1, <1>2, <1>5, <2>1, PutIs DEF Alike
<1> QED
  BY <1>1, <1>3, <1>4, <1>6, FinishTick

LEMMA DoneAlike ==
  ASSUME NEW q \in PipeShape, NEW s \in StepIds, NEW how \in Closed
  PROVE  /\ Done(q, s, how) \in PipeShape /\ Done(q, s, how).status = q.status
         /\ Alike(Done(q, s, how), Done(q, s, how))
<1>1. PICK st \in StepShape : Done(q, s, how) = Put(q, s, st)
  BY DoneIs DEF StepStatuses, Closed
<1> QED
  BY <1>1, PutIs DEF Alike

\* The usual end: the step is closed and the record saved.
LEMMA FinishSaved ==
  ASSUME IInv, NEW r, NEW s, Works(r, s), r.status = "running", s # "publication", NEW how \in Closed,
         Save(Done(r, s, how)), Inside
  PROVE  IInv'
<1>1. r \in PipeShape /\ s \in StepIds
  BY DEF Works, Base, Standing
<1>2. Alike(Done(r, s, how), p') /\ p'.status = "running" /\ pc' = "idle"
  BY <1>1, DoneAlike DEF Save
<1> QED
  BY <1>2, FinishTick

LEMMA FollowKeeps ==
  ASSUME IInv, NEW q, NEW s \in JobSteps \cup (StepIds \cap {"cot"}), Follow(q, s)
  PROVE  IInv'
<1> DEFINE K == q.step[s].jobs
<1>1. At(q, s) /\ q.step[s].status = "running" /\ K # {} /\ Inside
  BY DEF Follow
<1>2. s \notin {"publication", "overview", "correction"} /\ s \in {"preprocessing", "tree", "quality", "cot"}
  BY DEF JobSteps
<1>3. Walking(q, s)
  BY <1>1, <1>2, AtIs
<1>4. Works(q, s) /\ q.status = "running" /\ (Counted => Counts(q.step[s], s))
  BY <1>3, WalkingWorks, WalkingBase, WalkingCounts
<1>5. CASE \E how \in Closed : Save(Done(q, s, how))
  BY <1>1, <1>2, <1>4, <1>5, FinishSaved
<1>6. CASE \E failure \in Kinds : Save(ScheduleOrFail(q, s, failure))
  <2>1. PICK failure \in Kinds : p' = ScheduleOrFail(q, s, failure) /\ pc' = "idle"
    BY <1>6 DEF Save
  <2>2. ASSUME Counted PROVE q.step[s].tries \in 1..made[s] /\ (Q => U(s) = {})
    <3>1. Counts(q.step[s], s) /\ s # "collection"
      BY <1>2, <1>4, <2>2
    <3>2. q.step[s].tries >= 1 /\ q.step[s].tries <= made[s] /\ (Q => U(s) = {})
      BY <1>1, <1>2, <3>1 DEF Counts
    <3>3. q.step[s].tries \in Int /\ made[s] \in Nat
      BY <1>4, NumbersAre DEF Works, Loose, Standing
    <3> QED
      BY <3>2, <3>3
  <2> QED
    BY <1>1, <1>2, <1>4, <2>1, <2>2, FailTick
<1>7. "succeeded" \in Closed /\ "permanent" \in Kinds
  BY DEF Closed, Kinds
<1>8. ASSUME Failing(K) # {} PROVE Outcome(First(Failing(K))) \in Kinds
  <2>1. K \subseteq 1..Len(jobs)
    BY <1>4 DEF Works, Loose
  <2>2. Failing(K) \in SUBSET Nat
    BY <2>1 DEF Failing
  <2>3. First(Failing(K)) \in Failing(K)
    BY <1>8, <2>2, FirstIs
  <2> QED
    BY <2>3 DEF Failing
<1> QED
  BY <1>5, <1>6, <1>7, <1>8 DEF Follow

LEMMA ReuseKeeps ==
  ASSUME IInv, NEW q, NEW s \in JobSteps \cup (StepIds \cap {"cot"}), Reuse(q, s)
  PROVE  IInv'
<1>1. At(q, s) /\ Save(Done(q, s, "succeeded")) /\ Inside
  BY DEF Reuse
<1>2. s \notin {"publication", "overview"}
  BY DEF JobSteps
<1>3. Works(q, s) /\ q.status = "running"
  BY <1>1, <1>2, AtIs, WalkingWorks, WalkingBase
<1> QED
  BY <1>1, <1>2, <1>3, FinishSaved DEF Closed

-----------------------------------------------------------------------------
(* Attempts that a tick starts. *)

\* A step that is under way, with what its counter must show.
LEMMA RunTick ==
  ASSUME IInv, NEW r, NEW s, Works(r, s), Post(s), p'.status = "running", p'.step[s].status = "running",
         UNCHANGED <<jobs, world>>, Beside, made' \in [StepIds -> Nat],
         \A t \in StepIds \ {s} : made'[t] = made[t], made[s] <= made'[s],
         pc' \in {"idle", "dispatch", "submit", "publish"}, Calls(s), Loose(p'.step[s], s),
         s # "collection" /\ Counted => p'.step[s].tries >= 1,
         s \in {"preprocessing", "tree", "quality", "cot"} /\ Counted =>
            (p'.step[s].jobs # {} \/ (pc' = "idle" /\ U(s) # {}) => p'.step[s].tries <= made'[s]),
         Counted /\ Q /\ U(s) # {} => p'.step[s].jobs = {} /\ \E j \in U(s) : U(s) = {j},
         pc' = "dispatch" /\ Counted => made'[s] >= 1 /\ p'.step[s].tries <= made'[s],
         pc' = "submit" /\ Counted /\ Q => U(s) = {}
  PROVE  IInv'
<1>1. /\ Standing(s) /\ Live /\ pc = "idle" /\ ~release /\ Loose(p'.step[s], s)
      /\ jobs' = jobs /\ crashes' = crashes /\ (Q' <=> Q) /\ p'.current = s /\ s \in StepIds
  BY DEF Works, Beside, Q, Post, Standing
<1>2. U(s)' = U(s)
  BY <1>1, UStays DEF Loose
<1>3. /\ made[s] \in Nat /\ made'[s] \in Nat /\ p'.step[s].tries \in Int
  BY <1>1, NumbersAre DEF Loose
<1>4. Tried(p'.step[s])
  BY <1>1 DEF Tried, Loose
<1>5. ASSUME Counted PROVE MadeStep(s)' /\ MadeCalls'
  <2>1. /\ p'.step[s].tries # NoInfo /\ p'.step[s].tries <= made[s] + 1 /\ (crashes = 0 => U(s) = {})
    BY <1>1, <1>5 DEF Loose
  <2>2. p'.step[s].tries <= made'[s] + 1
    BY <1>3, <2>1
  <2>3. MadeStep(s)'
    BY <1>1, <1>2, <1>5, <2>1, <2>2 DEF MadeStep
  <2>4. MadeCalls'
    <3>1. pc' \in {"dispatch", "sent", "resent"} => s = "collection"
      BY DEF Calls
    <3>2. pc' \notin {"sent", "resent"}
      OBVIOUS
    <3> QED
      BY <1>1, <1>2, <1>5, <3>1, <3>2 DEF MadeCalls
  <2> QED
    BY <2>3, <2>4
<1>6. s = "publication" => p'.step[s].status \notin Closed
  BY DEF Closed
<1> QED
  BY <1>1, <1>4, <1>5, <1>6, WalkPosts DEF Loose
\* A step that was pending starts an attempt within the policy.
LEMMA AttemptWorks ==
  ASSUME IInv, NEW q, NEW s, Walking(q, s), q.step[s].status = "pending",
         s # "collection" \/ q.step[s].tries \in {0, NoInfo}
  PROVE  LET r == Attempt(q, s)
         IN  /\ Works(r, s) /\ r.status = "running" /\ Alike(r, r)
             /\ r.step[s].status = "pending" /\ r.step[s].jobs = {}
             /\ r.step[s].retry = q.step[s].retry
             /\ r.step[s].tries = IF q.step[s].tries = NoInfo THEN NoInfo ELSE q.step[s].tries + 1
             /\ Counted => r.step[s].tries >= 1
<1>1. /\ Works(q, s) /\ q.status = "running" /\ s \in StepIds /\ q \in PipeShape
      /\ q.step[s].jobs = {} /\ Loose(q.step[s], s)
      /\ q.step[s].tries \in {0, NoInfo} \/ (s # "collection" /\ q.step[s].tries < MaxAttempts)
      /\ Counted /\ s # "collection" => q.step[s].tries <= made[s]
  BY WalkingWorks, WalkingCounts, WalkingBase DEF Works, Base, Standing, Counts
<1>2. PICK st \in StepShape :
           /\ Attempt(q, s) = Put(q, s, st)
           /\ st.status = q.step[s].status /\ st.jobs = q.step[s].jobs
           /\ st.previous = q.step[s].previous /\ st.last = q.step[s].last
           /\ st.retry = q.step[s].retry
           /\ st.tries = IF q.step[s].tries = NoInfo THEN NoInfo ELSE q.step[s].tries + 1
  BY <1>1, AttemptIs
<1> DEFINE r == Attempt(q, s)
<1>3. /\ r \in PipeShape /\ r.step[s] = st /\ \A t \in StepIds \ {s} : r.step[t] = q.step[t]
      /\ r.status = q.status /\ r.current = q.current /\ r.wait = q.wait /\ r.released = q.released
  BY <1>1, <1>2, PutIs
<1> HIDE DEF r
<1>4. Base(r, s)
  BY <1>1, <1>3 DEF Base, Works
<1>5. /\ made[s] \in Nat /\ MaxAttempts \in Nat /\ MaxAttempts >= 2 /\ q.step[s].tries \in Int
      /\ q.step[s].tries \in Nat \cup {NoInfo}
  <2>1. q.step[s] \in StepShape
    BY <1>1 DEF PipeShape
  <2> QED
    BY <1>1, <2>1, NumbersAre DEF Loose, StepShape
<1>6. Loose(st, s)
  <2>1. UOf(st, s) = UOf(q.step[s], s)
    BY <1>2 DEF UOf
  <2>2. st.tries \in Int /\ st.tries <= MaxAttempts
    BY <1>1, <1>2, <1>5 DEF NoInfo
  <2>3. ASSUME Counted PROVE st.tries # NoInfo /\ st.tries <= made[s] + 1
    <3>1. q.step[s].tries # NoInfo /\ q.step[s].tries \in Nat
      BY <1>1, <1>5, <2>3 DEF Loose
    <3>2. q.step[s].tries = 0 \/ q.step[s].tries <= made[s]
      BY <1>1, <2>3, <3>1
    <3> QED
      BY <1>2, <1>5, <3>1, <3>2 DEF NoInfo
  <2> QED
    BY <1>1, <1>2, <2>1, <2>2, <2>3 DEF Loose
<1>7. ASSUME Counted PROVE st.tries >= 1
  <2>1. q.step[s].tries # NoInfo /\ q.step[s].tries \in Nat
    BY <1>1, <1>5, <1>7 DEF Loose
  <2> QED
    BY <1>2, <2>1
<1>8. Works(r, s) /\ Alike(r, r)
  BY <1>1, <1>3, <1>4, <1>6 DEF Works, Alike
<1> QED
  BY <1>1, <1>2, <1>3, <1>7, <1>8 DEF r

\* A walking step that is under way already.
LEMMA OnWorks ==
  ASSUME IInv, NEW q, NEW s, Walking(q, s), q.step[s].status = "running"
  PROVE  /\ Works(q, s) /\ q.status = "running"
         /\ s # "collection" /\ Counted => q.step[s].tries >= 1
  BY WalkingWorks, WalkingBase, WalkingCounts DEF Counts

LEMMA IntendKeeps ==
  ASSUME IInv, NEW q, NEW s \in JobSteps \cup (StepIds \cap {"cot"}), Intend(q, s)
  PROVE  IInv'
<1>1. /\ At(q, s) /\ ~(q.step[s].status = "running" /\ q.step[s].jobs # {}) /\ Inside
  BY DEF Intend
<1>2. s \notin {"publication", "overview", "collection"} /\ s \in {"preprocessing", "tree", "quality", "cot"}
  BY DEF JobSteps
<1>3. Walking(q, s)
  BY <1>1, <1>2, AtIs
<1>4. /\ Works(q, s) /\ q.status = "running" /\ (Counted => Counts(q.step[s], s))
      /\ q.step[s].status \in {"pending", "running"}
      /\ q.step[s].status = "pending" => q.step[s].jobs = {}
  BY <1>3, WalkingWorks, WalkingBase, WalkingCounts
<1>5. /\ UNCHANGED <<jobs, world>> /\ Beside /\ jobs' = jobs /\ made' = made /\ plan' = plan
      /\ crashes' = crashes /\ (Q' <=> Q) /\ made \in [StepIds -> Nat]
  BY <1>1, InsideIs DEF Q, IInv, Shape
<1>6. q.step[s].jobs = {}
  BY <1>1, <1>4
<1>7. /\ s \in StepIds /\ Standing(s) /\ Live /\ pc = "idle" /\ ~release /\ Base(q, s) /\ Loose(q.step[s], s)
      /\ q \in PipeShape /\ q.step[s] \in StepShape
  BY <1>4 DEF Works, Standing, Base, PipeShape
<1>8. Unbound(q, s) = U(s)
  <2>1. UOf(q.step[s], s) = U(s)
    BY <1>7 DEF Loose
  <2>2. DOMAIN jobs = 1..Len(jobs)
    BY LenProperties DEF IInv, Shape
  <2> QED
    BY <1>6, <2>1, <2>2 DEF UOf, Unbound
<1>9. made[s] \in Nat /\ q.step[s].tries \in Int /\ Len(jobs) \in Nat
  BY <1>7, NumbersAre DEF Loose
<1>10. CASE q.step[s].status = "running" /\ Unbound(q, s) # {}
  <2> DEFINE l == Last(Unbound(q, s))
             st == [q.step[s] EXCEPT !.jobs = {l}]
  <2>1. l \in U(s) /\ l \in 1..Len(jobs) /\ l \notin q.step[s].previous
    <3>1. U(s) \in SUBSET Nat /\ U(s) # {} /\ \A x \in U(s) : x <= Len(jobs)
      BY <1>8, <1>9, <1>10 DEF U
    <3>2. l \in U(s)
      BY <1>8, <1>9, <3>1, LastIs
    <3> QED
      BY <1>8, <3>2 DEF U, Unbound
  <2> HIDE DEF l
  <2>2. p' = [q EXCEPT !.step[s].jobs = {l}] /\ pc' = "idle"
    BY <1>10 DEF Intend, Save, l
  <2>3. /\ st \in StepShape /\ st.status = "running" /\ st.jobs = {l}
        /\ st.previous = q.step[s].previous /\ st.tries = q.step[s].tries /\ st.last = q.step[s].last
    BY <1>7, <1>10, <2>1 DEF StepShape
  <2>4. p' = Put(q, s, st)
    BY <1>7, <2>2 DEF Put, PipeShape
  <2> HIDE DEF st
  <2>5. /\ p' \in PipeShape /\ p'.step[s] = st /\ \A t \in StepIds \ {s} : p'.step[t] = q.step[t]
        /\ p'.status = q.status /\ p'.current = q.current /\ p'.wait = q.wait /\ p'.released = q.released
    BY <1>7, <2>3, <2>4, PutIs
  <2>6. Post(s)
    BY <1>4, <1>5, <1>7, <2>3, <2>5 DEF Post, Base, Unsettled
  <2>7. U(s)' = U(s) \ {l}
    <3>1. UOf(q.step[s], s) = U(s)
      BY <1>7 DEF Loose
    <3>2. U(s)' = UOf(st, s)
      BY <1>5, <2>5 DEF U, UOf
    <3>3. UOf(st, s) = UOf(q.step[s], s) \ {l}
      BY <1>6, <2>3 DEF UOf
    <3> QED
      BY <3>1, <3>2, <3>3
  <2>8. Tried(p'.step[s])
    BY <1>7, <2>3, <2>5 DEF Tried, Loose
  <2>9. ASSUME Counted PROVE MadeStep(s)' /\ MadeCalls'
    <3>1. /\ Counts(q.step[s], s) /\ U(s) # {} /\ q.step[s].tries # NoInfo /\ (crashes = 0 => U(s) = {})
      BY <1>4, <1>7, <1>8, <1>10, <2>9 DEF Loose
    <3>2. q.step[s].tries <= made[s] /\ q.step[s].tries >= 1
      BY <1>2, <1>10, <3>1 DEF Counts
    <3>3. Q => U(s)' = {}
      BY <2>1, <2>7, <3>1 DEF Counts
    <3>4. p'.step[s].tries = q.step[s].tries /\ p'.step[s].status = "running"
      BY <2>3, <2>5
    <3>5. p'.step[s].tries <= made[s] + 1
      BY <1>9, <3>2, <3>4
    <3>6. MadeStep(s)'
      BY <1>5, <3>1, <3>2, <3>3, <3>4, <3>5 DEF MadeStep
    <3>7. MadeCalls'
      BY <1>4, <2>2, <2>5 DEF MadeCalls
    <3> QED
      BY <3>6, <3>7
  <2>10. Calls(s)
    BY <2>2 DEF Calls
  <2>11. p'.step[s].jobs \cup p'.step[s].previous \subseteq 1..Len(jobs) /\ p'.step[s].last \in 0..Len(jobs)
    BY <1>7, <2>1, <2>3, <2>5 DEF Loose
  <2> QED
    BY <1>2, <1>5, <1>7, <2>2, <2>6, <2>8, <2>9, <2>10, <2>11, WalkPosts
<1>11. CASE ~(q.step[s].status = "running" /\ Unbound(q, s) # {})
  <2> DEFINE r == IF q.step[s].status = "running" THEN q ELSE Attempt(q, s)
  <2>1. p' = Running(r, s) /\ pc' = "submit"
    BY <1>11 DEF Intend
  <2>2. /\ Works(r, s) /\ r.status = "running" /\ r.step[s].jobs = {}
        /\ Counted => r.step[s].tries >= 1
    BY <1>2, <1>3, <1>4, <1>6, OnWorks, AttemptWorks
  <2> HIDE DEF r
  <2>3. Runs(r, s)
    BY <1>5, <1>7, <2>1, <2>2, BaseRuns DEF Works
  <2>4. /\ Post(s) /\ p'.status = "running" /\ p'.step[s].status = "running"
        /\ p'.step[s].jobs = {} /\ p'.step[s].previous = r.step[s].previous
        /\ p'.step[s].last = r.step[s].last /\ p'.step[s].tries = r.step[s].tries
    BY <2>2, <2>3 DEF Runs
  <2>5. Loose(p'.step[s], s)
    <3>1. UOf(p'.step[s], s) = UOf(r.step[s], s)
      BY <2>2, <2>4 DEF UOf
    <3> QED
      BY <2>2, <2>4, <3>1 DEF Works, Loose
  <2>6. Counted /\ Q => U(s) = {}
    BY <1>4, <1>8, <1>11 DEF Counts
  <2>7. U(s)' = U(s)
    BY <1>5, <2>4, <2>5, UStays DEF Loose
  <2>8. Calls(s)
    BY <1>5, <1>7, <2>1, <2>4 DEF Calls, world
  <2>9. made[s] <= made'[s] /\ made' \in [StepIds -> Nat]
    BY <1>5, <1>9
  <2> QED
    BY <1>2, <1>5, <2>1, <2>2, <2>4, <2>5, <2>6, <2>7, <2>8, <2>9, RunTick
<1> QED
  BY <1>10, <1>11

LEMMA PrepareKeeps ==
  ASSUME IInv, NEW q, Prepare(q)
  PROVE  IInv'
<1> DEFINE s == "publication"
           r == IF q.step[s].status = "running" THEN q ELSE Attempt(q, s)
<1>1. At(q, s) /\ p' = Running(r, s) /\ pc' = "publish" /\ Inside
  BY DEF Prepare
<1>2. Walking(q, s)
  BY <1>1, AtIs
<1>3. /\ Works(q, s) /\ q.status = "running" /\ (Counted => Counts(q.step[s], s))
      /\ q.step[s].status \in {"pending", "running"}
  BY <1>2, WalkingWorks, WalkingBase, WalkingCounts
<1>5. /\ UNCHANGED <<jobs, world>> /\ Beside /\ jobs' = jobs /\ made' = made /\ plan' = plan
      /\ crashes' = crashes /\ (Q' <=> Q) /\ made \in [StepIds -> Nat]
  BY <1>1, InsideIs DEF Q, IInv, Shape
<1>6. Works(r, s) /\ r.status = "running" /\ (Counted => r.step[s].tries >= 1)
  BY <1>2, <1>3, OnWorks, AttemptWorks
<1>7. s \in StepIds /\ ~release
  BY <1>3 DEF Works, Standing
<1> HIDE DEF r
<1>8. Runs(r, s)
  BY <1>1, <1>5, <1>6, <1>7, BaseRuns DEF Works
<1>9. /\ Post(s) /\ p'.status = "running" /\ p'.step[s].status = "running"
      /\ p'.step[s].jobs = r.step[s].jobs /\ p'.step[s].previous = r.step[s].previous
      /\ p'.step[s].last = r.step[s].last /\ p'.step[s].tries = r.step[s].tries
  BY <1>8 DEF Runs
<1>10. Loose(p'.step[s], s)
  <2>1. UOf(p'.step[s], s) = UOf(r.step[s], s)
    BY <1>9 DEF UOf
  <2> QED
    BY <1>6, <1>9, <2>1 DEF Works, Loose
<1>11. Counted /\ Q /\ U(s) # {} => p'.step[s].jobs = {} /\ \E j \in U(s) : U(s) = {j}
  <2>1. ASSUME Counted, Q, U(s) # {} PROVE p'.step[s].jobs = {} /\ \E j \in U(s) : U(s) = {j}
    <3>1. q.step[s].status = "running" /\ q.step[s].jobs = {} /\ \E j \in U(s) : U(s) = {j}
      BY <1>3, <2>1 DEF Counts
    <3> QED
      BY <1>9, <3>1 DEF r
  <2> QED
    BY <2>1
<1>12. Calls(s)
  BY <1>1, <1>5, <1>7, <1>9 DEF Calls, world
<1>13. made[s] <= made'[s] /\ made' \in [StepIds -> Nat]
  BY <1>5, <1>7
<1> QED
  BY <1>1, <1>5, <1>6, <1>9, <1>10, <1>11, <1>12, <1>13, RunTick
-----------------------------------------------------------------------------
(* The collection's step, and the correction's. *)

\* A step under way whose request is not repeated.
Anew(r, s) == [Running(r, s) EXCEPT !.step[s].retry = FALSE]

LEMMA BaseRunsAnew ==
  ASSUME NEW r, NEW s \in StepIds, Base(r, s), r.status = "running", plan' = plan,
         p' = Anew(r, s)
  PROVE  Runs(r, s)
<1>1. r \in PipeShape
  BY DEF Base
<1>2. PICK st \in StepShape :
        /\ Running(r, s) = Put(r, s, st) /\ st.status = "running"
        /\ st.jobs = r.step[s].jobs /\ st.previous = r.step[s].previous /\ st.last = r.step[s].last
        /\ st.retry = r.step[s].retry /\ st.tries = r.step[s].tries
  BY <1>1, RunningIs
<1> DEFINE new == [st EXCEPT !.retry = FALSE]
<1>3. /\ new \in StepShape /\ new.status = "running" /\ new.jobs = st.jobs
      /\ new.previous = st.previous /\ new.last = st.last /\ new.tries = st.tries
  BY <1>2 DEF StepShape
<1>4. p' = Put(r, s, new)
  BY <1>1, <1>2 DEF Put, PipeShape, Anew
<1> HIDE DEF new
<1>5. /\ p' \in PipeShape /\ p'.step[s] = new /\ \A t \in StepIds \ {s} : p'.step[t] = r.step[t]
      /\ p'.status = r.status /\ p'.current = r.current /\ p'.wait = r.wait /\ p'.released = r.released
  <2>1. new \in StepShape
    BY <1>3
  <2> QED
    BY <1>1, <1>4, <2>1, PutIs
<1> QED
  BY <1>2, <1>3, <1>5 DEF Post, Base, Runs, Unsettled

LEMMA BoundWorks ==
  ASSUME NEW q, NEW s, Works(q, s)
  PROVE  Works(Bound(q), s) /\ Bound(q).step = q.step /\ Bound(q).status = q.status
<1>1. q \in PipeShape
  BY DEF Works, Base
<1>2. Alike(q, Bound(q)) /\ Bound(q).status = q.status
  BY <1>1, BoundAlike
<1> QED
  BY <1>2, AlikeWorks

LEMMA CollectKeeps ==
  ASSUME IInv, NEW q, Collect(q)
  PROVE  IInv'
<1> DEFINE s == "collection"
<1>1. At(q, s) /\ UNCHANGED <<jobs, world>> /\ Beside
  BY DEF Collect
<1>2. Walking(q, s)
  BY <1>1, AtIs
<1>3. /\ Works(q, s) /\ q.status = "running" /\ (Counted => Counts(q.step[s], s))
      /\ q.step[s].status \in {"pending", "running"}
      /\ q.step[s].status = "pending" =>
           q.step[s].tries \in {0, NoInfo} \/ (q.step[s].retry /\ q.step[s].tries \notin {0, NoInfo})
      /\ q.step[s].status = "pending" => q.step[s].jobs = {}
  BY <1>2, WalkingWorks, WalkingBase, WalkingCounts
<1>4. /\ jobs' = jobs /\ plan' = plan /\ crashes' = crashes /\ (Q' <=> Q) /\ made \in [StepIds -> Nat]
      /\ release' = release /\ data' = data /\ data \in Nat
  BY <1>1 DEF Q, IInv, Shape, Beside, world
<1>5. s \in StepIds /\ ~release /\ made[s] \in Nat /\ q \in PipeShape
  BY <1>3, NumbersAre DEF Works, Standing, Base
<1>6. Works(Bound(q), s) /\ Bound(q).step = q.step /\ Bound(q).status = "running" /\ Bound(q) \in PipeShape
  BY <1>3, BoundWorks DEF Works, Base
<1>7. Counted /\ Q /\ U(s) # {} => q.step[s].jobs = {} /\ q.step[s].status = "running" /\ \E j \in U(s) : U(s) = {j}
  BY <1>3 DEF Counts
<1>8. UNCHANGED made => Inside
  BY <1>1 DEF Inside
<1>9. CASE DispatchNeeded(q)
  <2> DEFINE st == q.step[s]
             t  == IF st.status # "running" /\ (~st.retry \/ st.tries \in {0, NoInfo})
                   THEN Attempt(q, s) ELSE q
             r  == Bound(t)
  <2>1. p' = Anew(r, s) /\ pc' = "dispatch" /\ Try(s)
    BY <1>9 DEF Collect, Anew
  <2>2. Works(t, s) /\ t.status = "running" /\ (Counted /\ Q /\ U(s) # {} => t.step[s].jobs = {})
    BY <1>2, <1>3, <1>7, AttemptWorks
  <2> HIDE DEF t
  <2>3. Works(r, s) /\ r.status = "running" /\ r.step = t.step
    BY <2>2, BoundWorks
  <2> HIDE DEF r
  <2>4. Runs(r, s)
    BY <1>4, <1>5, <2>1, <2>3, BaseRunsAnew DEF Works
  <2>5. /\ Post(s) /\ p'.status = "running" /\ p'.step[s].status = "running"
        /\ p'.step[s].jobs = r.step[s].jobs /\ p'.step[s].previous = r.step[s].previous
        /\ p'.step[s].last = r.step[s].last /\ p'.step[s].tries = r.step[s].tries
    BY <2>4 DEF Runs
  <2>6. Loose(p'.step[s], s)
    <3>1. UOf(p'.step[s], s) = UOf(r.step[s], s)
      BY <2>5 DEF UOf
    <3> QED
      BY <2>3, <2>5, <3>1 DEF Works, Loose
  <2>7. /\ made'[s] = made[s] + 1 /\ made' \in [StepIds -> Nat]
        /\ \A u \in StepIds \ {s} : made'[u] = made[u]
    BY <1>4, <1>5, <2>1 DEF Try
  <2>8. Counted => made'[s] >= 1 /\ p'.step[s].tries <= made'[s] /\ made[s] <= made'[s]
    BY <1>5, <2>6, <2>7 DEF Loose
  <2>9. Calls(s)
    BY <1>4, <1>5, <2>1, <2>5 DEF Calls
  <2>10. Counted /\ Q /\ U(s) # {} => p'.step[s].jobs = {} /\ \E j \in U(s) : U(s) = {j}
    BY <1>7, <2>2, <2>3, <2>5
  <2>11. made[s] <= made'[s]
    BY <1>5, <2>7
  <2> QED
    BY <1>1, <2>1, <2>3, <2>5, <2>6, <2>7, <2>8, <2>9, <2>10, <2>11, RunTick
<1>10. CASE ~DispatchNeeded(q) /\ Input = "ready" /\ UNCHANGED made
           /\ Save([Done(Bound(q), s, "succeeded") EXCEPT !.input = data])
  <2> DEFINE d == Done(Bound(q), s, "succeeded")
  <2>1. "succeeded" \in Closed
    BY DEF Closed
  <2>2. d \in PipeShape /\ d.status = "running"
    BY <1>5, <1>6, <2>1, DoneAlike
  <2>3. p' = [d EXCEPT !.input = data] /\ pc' = "idle"
    BY <1>10 DEF Save
  <2> HIDE DEF d
  <2>4. Alike(d, p') /\ p'.status = "running"
    BY <1>4, <2>2, <2>3, NamedAlike
  <2> QED
    BY <1>6, <1>8, <1>10, <2>1, <2>3, <2>4, FinishTick DEF d
<1>11. CASE ~DispatchNeeded(q) /\ Input = "wait" /\ Save(Running(Bound(q), s)) /\ UNCHANGED made
  <2> DEFINE r == Bound(q)
  <2>1. p' = Running(r, s) /\ pc' = "idle" /\ made' = made
    BY <1>11 DEF Save
  <2>2. Runs(r, s)
    BY <1>4, <1>5, <1>6, <2>1, BaseRuns DEF Works
  <2>3. Works(r, s) /\ r.step = q.step
    BY <1>6
  <2> HIDE DEF r
  <2>5. /\ Post(s) /\ p'.status = "running" /\ p'.step[s].status = "running"
        /\ p'.step[s].jobs = r.step[s].jobs /\ p'.step[s].previous = r.step[s].previous
        /\ p'.step[s].last = r.step[s].last /\ p'.step[s].tries = r.step[s].tries
    BY <2>2 DEF Runs
  <2>6. Loose(p'.step[s], s)
    <3>1. UOf(p'.step[s], s) = UOf(r.step[s], s)
      BY <2>5 DEF UOf
    <3> QED
      BY <2>3, <2>5, <3>1 DEF Works, Loose
  <2>7. made[s] <= made'[s] /\ made' \in [StepIds -> Nat] /\ \A u \in StepIds \ {s} : made'[u] = made[u]
    BY <1>4, <1>5, <2>1
  <2>9. Calls(s)
    BY <2>1 DEF Calls
  <2>10. Counted /\ Q /\ U(s) # {} => p'.step[s].jobs = {} /\ \E j \in U(s) : U(s) = {j}
    BY <1>7, <2>3, <2>5
  <2> QED
    BY <1>1, <2>1, <2>3, <2>5, <2>6, <2>7, <2>9, <2>10, RunTick
<1>12. CASE ~DispatchNeeded(q) /\ Input = "error" /\ UNCHANGED made
           /\ Save(ScheduleOrFail(Bound(q), s, "permanent"))
  <2>1. "permanent" \in Kinds
    BY DEF Kinds
  <2> QED
    BY <1>6, <1>8, <1>12, <2>1, FailTick DEF Save
<1> QED
  BY <1>9, <1>10, <1>11, <1>12 DEF Collect

LEMMA SelectedWorks ==
  ASSUME IInv, NEW q, NEW s, Works(q, s)
  PROVE  /\ Works(Selected(q), s) /\ Selected(q).step = q.step /\ Selected(q).status = q.status
         /\ Works(Choose(q), s) /\ Choose(q).step = q.step
<1>1. have[LastJobStep] \in Nat
  BY JobStepEnds DEF IInv, Shape
<1>2. q \in PipeShape
  BY DEF Works, Base
<1>3. Alike(q, Choose(q)) /\ Choose(q).status = q.status
  BY <1>1, <1>2, NamedAlike DEF Choose
<1>4. Works(Choose(q), s) /\ Choose(q).step = q.step
  BY <1>3, AlikeWorks
<1> QED
  BY <1>3, <1>4 DEF Selected

\* The correction waits for a person.
LEMMA WaitTick ==
  ASSUME IInv, NEW r, Works(r, "correction"), Inside,
         Save([r EXCEPT !.status = "waiting_for_correction", !.step["correction"].status = "waiting"])
  PROVE  IInv'
<1> DEFINE s == "correction"
           st == [r.step[s] EXCEPT !.status = "waiting"]
           h  == Headed(r, "waiting_for_correction", r.error)
<1>1. /\ Standing(s) /\ Live /\ pc = "idle" /\ ~release /\ Base(r, s) /\ Loose(r.step[s], s)
      /\ r \in PipeShape /\ s \in StepIds /\ r.step[s] \in StepShape
  BY DEF Works, Base, Standing, PipeShape
<1>2. /\ UNCHANGED <<jobs, world>> /\ Beside /\ jobs' = jobs /\ made' = made /\ plan' = plan
      /\ crashes' = crashes /\ made \in [StepIds -> Nat]
  BY InsideIs DEF IInv, Shape
<1>3. /\ st \in StepShape /\ st.status = "waiting" /\ st.jobs = r.step[s].jobs
      /\ st.previous = r.step[s].previous /\ st.tries = r.step[s].tries /\ st.last = r.step[s].last
  BY <1>1 DEF StepShape, StepStatuses
<1>4. /\ h \in PipeShape /\ h.step = r.step /\ h.status = "waiting_for_correction"
      /\ h.current = r.current /\ h.wait = r.wait /\ h.released = r.released
  <2>1. "waiting_for_correction" \in Statuses /\ r.error \in Kinds \cup {"none"}
    BY <1>1 DEF Statuses, PipeShape
  <2> QED
    BY <1>1, <2>1, HeadedIs
<1>5. p' = Put(h, s, st) /\ pc' = "idle"
  BY <1>1 DEF Save, Put, PipeShape, Headed
<1> HIDE DEF h, st
<1>6. /\ p' \in PipeShape /\ p'.step[s] = st /\ \A t \in StepIds \ {s} : p'.step[t] = h.step[t]
      /\ p'.status = h.status /\ p'.current = h.current /\ p'.wait = h.wait /\ p'.released = h.released
  BY <1>1, <1>3, <1>4, <1>5, PutIs
<1>7. Post(s)
  BY <1>1, <1>2, <1>3, <1>4, <1>6 DEF Post, Base
<1>8. U(s)' = U(s)
  BY <1>1, <1>2, <1>3, <1>6, UStays DEF Loose
<1>9. Tried(p'.step[s])
  BY <1>1, <1>3, <1>6 DEF Tried, Loose
<1>10. ASSUME Counted PROVE MadeStep(s)' /\ MadeCalls'
  <2>1. MadeStep(s)'
    BY <1>1, <1>2, <1>3, <1>6, <1>8, <1>10 DEF MadeStep, Loose
  <2>2. MadeCalls'
    BY <1>4, <1>5, <1>6 DEF MadeCalls
  <2> QED
    BY <2>1, <2>2
<1>11. Calls(s)
  BY <1>5 DEF Calls
<1>12. p'.step[s].jobs \cup p'.step[s].previous \subseteq 1..Len(jobs) /\ p'.step[s].last \in 0..Len(jobs)
  BY <1>1, <1>3, <1>6 DEF Loose
<1> QED
  BY <1>1, <1>2, <1>5, <1>7, <1>9, <1>10, <1>11, <1>12, WalkPosts
\* A pipeline that is not going on.
LEMMA UnlivePost ==
  ASSUME IInv, plan' = plan, jobs' = jobs, Shape', pc' = "idle", ~Live', HeadInv', RunInv',
         ~p'.released /\ p'.status \notin TERMINAL => p'.step["publication"].status \notin Closed,
         \A t \in StepIds : /\ p'.step[t].jobs \cup p'.step[t].previous \subseteq 1..Len(jobs)
                            /\ p'.step[t].last \in 0..Len(jobs) /\ Tried(p'.step[t])
  PROVE  IInv'
<1>1. StepIds' = StepIds
  BY PlanKept
<1>2. JobsInv' /\ TriesInv'
  BY <1>1 DEF JobsInv, TriesInv, Tried
<1>3. WalkInv' /\ CallInv' /\ MadeInv'
  BY DEF WalkInv, CallInv, MadeInv, Counted
<1> QED
  BY <1>2, <1>3 DEF IInv

LEMMA ShapeKept ==
  ASSUME IInv, plan' = plan, p' \in PipeShape, UNCHANGED <<jobs, world>>, made' \in [StepIds -> Nat],
         pc' \in {"idle", "dispatch", "sent", "resent", "submit", "publish"},
         crashes' = crashes, grants' \in Nat
  PROVE  Shape'
<1>1. StepIds' = StepIds /\ JobSteps' = JobSteps /\ PipeShape' = PipeShape /\ JobRecord' = JobRecord
  BY PlanKept
<1> QED
  BY <1>1 DEF IInv, Shape, world

\* The stored steps satisfy what each step's record must.
LEMMA StepsAre ==
  ASSUME IInv, NEW t \in StepIds
  PROVE  /\ p.step[t].jobs \cup p.step[t].previous \subseteq 1..Len(jobs)
         /\ p.step[t].last \in 0..Len(jobs) /\ Tried(p.step[t])
  BY DEF IInv, JobsInv, TriesInv

\* Nothing is left to publish.
Emptied(st, skipped) == IF skipped THEN [st EXCEPT !.status = "skipped", !.due = FALSE] ELSE st
AllEmptied(q) ==
    [q EXCEPT !.status = "no_publishable_data",
              !.step = [s \in StepIds |-> Emptied(q.step[s], s = "correction" \/ Before("correction", s))]]

LEMMA EmptiedIs ==
  ASSUME NEW q \in PipeShape
  PROVE  LET r == AllEmptied(q)
         IN  /\ r \in PipeShape /\ r.status = "no_publishable_data" /\ r.wait = q.wait
             /\ r.released = q.released
             /\ \A t \in StepIds : /\ r.step[t].jobs = q.step[t].jobs /\ r.step[t].last = q.step[t].last
                                   /\ r.step[t].previous = q.step[t].previous
                                   /\ r.step[t].tries = q.step[t].tries
                                   /\ r.step[t] = q.step[t] \/ r.step[t].status = "skipped"
             /\ "correction" \in StepIds => r.step["correction"].status = "skipped"
<1> DEFINE E(s) == Emptied(q.step[s], s = "correction" \/ Before("correction", s))
           f == [s \in StepIds |-> E(s)]
<1>1. ASSUME NEW t \in StepIds
      PROVE  /\ E(t) \in StepShape /\ E(t).jobs = q.step[t].jobs /\ E(t).last = q.step[t].last
             /\ E(t).previous = q.step[t].previous /\ E(t).tries = q.step[t].tries
             /\ E(t) = q.step[t] \/ E(t).status = "skipped"
             /\ t = "correction" => E(t).status = "skipped"
  <2>1. q.step[t] \in StepShape
    BY DEF PipeShape
  <2> QED
    BY <2>1 DEF Emptied, StepShape, StepStatuses
<1> HIDE DEF E
<1>2. f \in [StepIds -> StepShape] /\ \A t \in StepIds : f[t] = E(t)
  BY <1>1
<1>3. AllEmptied(q) = [q EXCEPT !.status = "no_publishable_data", !.step = f]
  BY DEF AllEmptied, E
<1> HIDE DEF f
<1>4. LET r == AllEmptied(q)
      IN  /\ r \in PipeShape /\ r.status = "no_publishable_data" /\ r.wait = q.wait
          /\ r.released = q.released /\ r.step = f
  <2>1. "no_publishable_data" \in Statuses
    BY DEF Statuses, TERMINAL
  <2> QED
    BY <1>2, <1>3, <2>1 DEF PipeShape
<1> QED
  BY <1>1, <1>2, <1>4

LEMMA CorrectKeeps ==
  ASSUME IInv, NEW q, Correct(q)
  PROVE  IInv'
<1> DEFINE s == "correction"
<1>1. At(q, s) /\ Inside
  BY DEF Correct
<1>2. Walking(q, s)
  BY <1>1, AtIs
<1>3. Works(q, s) /\ q.status = "running"
  BY <1>2, WalkingWorks, WalkingBase
<1>4. /\ UNCHANGED <<jobs, world>> /\ Beside /\ jobs' = jobs /\ made' = made /\ plan' = plan
      /\ crashes' = crashes /\ grants' = grants /\ made \in [StepIds -> Nat] /\ release' = release
      /\ run' = run /\ remote' = remote /\ head' = head
  BY <1>1, InsideIs DEF IInv, Shape, world
<1>5. s \in StepIds
  BY <1>3 DEF Works, Standing
<1>6. /\ Works(Selected(q), s) /\ Selected(q).status = "running" /\ Works(Choose(q), s)
  BY <1>3, SelectedWorks
<1>7. CASE Save([Choose(q) EXCEPT !.status = "no_publishable_data",
                     !.step = [t \in StepIds |-> IF t = "correction" \/ Before("correction", t)
                                                 THEN [@[t] EXCEPT !.status = "skipped", !.due = FALSE]
                                                 ELSE @[t]]])
  <2> DEFINE r == Choose(q)
  <2>1. p' = AllEmptied(r) /\ pc' = "idle"
    BY <1>7 DEF Save, AllEmptied, Emptied
  <2>2. Works(r, s)
    BY <1>6
  <2> HIDE DEF r
  <2>3. /\ r \in PipeShape /\ r.wait = "none" /\ ~r.released /\ ~release
        /\ \A t \in StepIds \ {s} : r.step[t] = p.step[t]
        /\ Loose(r.step[s], s)
    BY <2>2 DEF Works, Base
  <2>4. /\ p' \in PipeShape /\ p'.status = "no_publishable_data" /\ p'.wait = "none" /\ ~p'.released
        /\ \A t \in StepIds : /\ p'.step[t].jobs = r.step[t].jobs /\ p'.step[t].last = r.step[t].last
                              /\ p'.step[t].previous = r.step[t].previous
                              /\ p'.step[t].tries = r.step[t].tries
                              /\ p'.step[t] = r.step[t] \/ p'.step[t].status = "skipped"
        /\ p'.step[s].status = "skipped"
    BY <1>5, <2>1, <2>3, EmptiedIs
  <2>5. ASSUME NEW t \in StepIds
        PROVE  /\ p'.step[t].jobs \cup p'.step[t].previous \subseteq 1..Len(jobs)
               /\ p'.step[t].last \in 0..Len(jobs) /\ Tried(p'.step[t])
    <3>1. CASE t = s
      BY <2>3, <2>4, <3>1 DEF Loose, Tried
    <3>2. CASE t # s
      <4>1. r.step[t] = p.step[t]
        BY <2>3, <3>2
      <4>2. /\ p.step[t].jobs \cup p.step[t].previous \subseteq 1..Len(jobs)
            /\ p.step[t].last \in 0..Len(jobs) /\ Tried(p.step[t])
        BY StepsAre
      <4> QED
        BY <2>4, <4>1, <4>2 DEF Tried
    <3> QED
      BY <3>1, <3>2
  <2>6. Shape'
    BY <1>4, <2>1, <2>4, ShapeKept DEF IInv, Shape
  <2>7. HeadInv'
    BY <1>4, <2>1, <2>3, <2>4 DEF HeadInv
  <2>8. RunInv'
    BY <1>4, <2>1, <2>4, RunKept
  <2>9. ~Live' /\ p'.status \in TERMINAL
    BY <2>4 DEF Live, TERMINAL
  <2> QED
    BY <1>4, <2>1, <2>5, <2>6, <2>7, <2>8, <2>9, UnlivePost
<1>8. CASE Save(Done(Selected(q), s, "skipped"))
  BY <1>1, <1>6, <1>8, FinishSaved DEF Closed
<1>9. CASE Save([Selected(q) EXCEPT !.status = "waiting_for_correction", !.step[s].status = "waiting"])
  BY <1>1, <1>6, <1>9, WaitTick
<1>10. CASE Save(ScheduleOrFail(Selected(q), s, "permanent"))
  <2>1. "permanent" \in Kinds
    BY DEF Kinds
  <2> QED
    BY <1>1, <1>6, <1>10, <2>1, FailTick DEF Save
<1> QED
  BY <1>7, <1>8, <1>9, <1>10 DEF Correct
-----------------------------------------------------------------------------
(* After the release. *)

\* A record that a tick may save once it has seen the release.
LateBase(r) ==
    /\ r \in PipeShape /\ r.released /\ r.current = "overview" /\ r.wait = "none"
    /\ r.step["overview"].tries <= MaxAttempts
    /\ \A t \in StepIds :
         /\ r.step[t].jobs \cup r.step[t].previous \subseteq 1..Len(jobs)
         /\ r.step[t].last \in 0..Len(jobs)
         /\ t # "overview" => Tried(r.step[t])

LEMMA WaitingLate ==
  ASSUME IInv, Walks, p.status # "terminating", release
  PROVE  LateBase(Waiting) /\ Waiting.current = "overview" /\ StepOf(Reconciled) = "overview"
         /\ pc = "idle" /\ Tried(Waiting.step["overview"]) /\ Waiting.step["overview"] = p.step["overview"]
<1> DEFINE R == Reconciled
<1>1. /\ R \in PipeShape /\ R.released /\ R.wait = p.wait
      /\ \A t \in StepIds \ {"publication"} : R.step[t] = p.step[t]
      /\ R.step["publication"].status = "succeeded"
      /\ R.step["publication"].jobs = p.step["publication"].jobs
      /\ R.step["publication"].previous = p.step["publication"].previous
      /\ R.step["publication"].last = p.step["publication"].last
      /\ R.step["publication"].tries = p.step["publication"].tries
  BY ReconciledIs
<1>2. StepOf(R) = "overview" /\ {"overview", "publication"} \subseteq StepIds
  BY <1>1, PlanFacts DEF StepOf, IInv, Shape
<1>3. Waiting = CurrentPut(R, "overview")
  BY <1>2 DEF Waiting, CurrentPut
<1>4. pc = "idle" /\ p.wait = "none"
  BY WalksFree
<1>5. R.wait = "none"
  BY <1>1, <1>4
<1> HIDE DEF R
<1>6. /\ Waiting \in PipeShape /\ Waiting.current = "overview" /\ Waiting.step = R.step
      /\ Waiting.wait = R.wait /\ Waiting.released = R.released
  BY <1>1, <1>2, <1>3, CurrentPutIs
<1>7. ASSUME NEW t \in StepIds
      PROVE  /\ R.step[t].jobs \cup R.step[t].previous \subseteq 1..Len(jobs)
             /\ R.step[t].last \in 0..Len(jobs) /\ Tried(R.step[t])
  <2>1. /\ p.step[t].jobs \cup p.step[t].previous \subseteq 1..Len(jobs)
        /\ p.step[t].last \in 0..Len(jobs) /\ Tried(p.step[t])
    BY StepsAre
  <2>2. CASE t # "publication"
    BY <1>1, <2>1, <2>2
  <2>3. CASE t = "publication"
    BY <1>1, <2>1, <2>3 DEF Tried
  <2> QED
    BY <2>2, <2>3
<1>8. R.step["overview"] = p.step["overview"]
  BY <1>1, <1>2
<1>9. R.step["overview"].tries <= MaxAttempts /\ Tried(R.step["overview"])
  BY <1>2, <1>7 DEF Tried
<1> QED
  BY <1>1, <1>2, <1>4, <1>5, <1>6, <1>7, <1>8, <1>9 DEF LateBase, R

LEMMA WalkingLateIs ==
  ASSUME IInv, NEW q, WalkingLate(q)
  PROVE  /\ LateBase(q)
         /\ q.step["overview"].status = "pending" =>
              /\ q.step["overview"].jobs = {}
              /\ q.step["overview"].tries \in {0, NoInfo} \/ q.step["overview"].tries \in 1..MaxAttempts - 1
<1>1. {"overview", "publication"} \subseteq StepIds /\ Len(jobs) \in Nat
  BY PlanFacts, LenProperties DEF IInv, Shape
<1>2. ASSUME NEW t \in StepIds
      PROVE  /\ q.step[t].jobs \cup q.step[t].previous \subseteq 1..Len(jobs)
             /\ q.step[t].last \in 0..Len(jobs)
             /\ t # "overview" => Tried(q.step[t])
  <2>1. /\ p.step[t].jobs \cup p.step[t].previous \subseteq 1..Len(jobs)
        /\ p.step[t].last \in 0..Len(jobs) /\ Tried(p.step[t])
    BY StepsAre
  <2>2. /\ q.step[t].jobs \subseteq p.step[t].jobs
        /\ q.step[t].previous \subseteq p.step[t].previous \cup p.step[t].jobs
        /\ q.step[t].last \in {p.step[t].last, 0} \cup p.step[t].jobs
    BY DEF WalkingLate
  <2>3. ASSUME t # "overview" PROVE Tried(q.step[t])
    <3>1. q.step[t].tries = p.step[t].tries
      BY <2>3 DEF WalkingLate
    <3>2. q.step[t].status = p.step[t].status \/ q.step[t].status = "succeeded"
      BY <2>3 DEF WalkingLate
    <3> QED
      BY <2>1, <2>2, <3>1, <3>2 DEF Tried
  <2> QED
    BY <1>1, <2>1, <2>2, <2>3
<1>3. Tried(p.step["overview"]) /\ MaxAttempts \in Nat
  BY <1>1, StepsAre, PipelineAssumption
<1>4. /\ q.step["overview"].tries <= MaxAttempts
      /\ q.step["overview"].status = "pending" =>
              /\ q.step["overview"].jobs = {}
              /\ q.step["overview"].tries \in {0, NoInfo} \/ q.step["overview"].tries \in 1..MaxAttempts - 1
  <2>1. CASE q.step["overview"] = p.step["overview"]
    BY <1>3, <2>1 DEF Tried
  <2>2. CASE /\ p.status = "retry_waiting" /\ p.current = "overview"
             /\ Fresh(p.step["overview"], q.step["overview"], "overview")
    <3>1. q.step["overview"].jobs = {} /\ q.step["overview"].tries = p.step["overview"].tries
      BY <2>2 DEF Fresh
    <3>2. p.step["overview"].status = "retry_waiting"
      <4>1. Live /\ Eff = "retry_waiting"
        BY <2>2 DEF WalkingLate, Live, Eff, TERMINAL
      <4>2. p.released
        BY <2>2, <4>1 DEF IInv, WalkInv
      <4> QED
        BY <4>1, <4>2 DEF IInv, WalkInv
    <3> QED
      BY <1>3, <3>1, <3>2 DEF Tried
  <2> QED
    BY <2>1, <2>2 DEF WalkingLate
<1>5. q \in PipeShape /\ q.released /\ q.current = "overview" /\ q.wait = "none"
  BY DEF WalkingLate
<1> QED
  BY <1>2, <1>4, <1>5 DEF LateBase

LEMMA LatePost ==
  ASSUME IInv, LateBase(p'), release, Tried(p'.step["overview"]), pc' = "idle",
         p'.status \in {"running", "succeeded", "published_summary_failed", "retry_waiting"},
         p'.status = "retry_waiting" => p'.step["overview"].status = "retry_waiting",
         UNCHANGED <<plan, jobs, run, remote, head, release>>, Shape'
  PROVE  IInv'
<1>1. StepIds' = StepIds
  BY PlanKept
<1>2. /\ p' \in PipeShape /\ p'.released /\ p'.current = "overview" /\ p'.wait = "none"
      /\ \A t \in StepIds : /\ p'.step[t].jobs \cup p'.step[t].previous \subseteq 1..Len(jobs)
                            /\ p'.step[t].last \in 0..Len(jobs) /\ Tried(p'.step[t])
  BY DEF LateBase
<1>3. JobsInv' /\ TriesInv'
  BY <1>1, <1>2 DEF JobsInv, TriesInv, Tried
<1>4. HeadInv'
  BY <1>2 DEF HeadInv, IInv
<1>5. WalkInv'
  BY <1>2 DEF WalkInv, Eff, Live, TERMINAL
<1>6. CallInv' /\ MadeInv'
  BY <1>2 DEF CallInv, MadeInv, Counted
<1>7. RunInv'
  <2>1. p'.status # "terminated"
    OBVIOUS
  <2> QED
    BY <2>1, RunKept
<1> QED
  BY <1>3, <1>4, <1>5, <1>6, <1>7 DEF IInv

\* Only the overview's record is replaced.
LEMMA LatePut ==
  ASSUME IInv, NEW q, LateBase(q), NEW st \in StepShape, st.tries <= MaxAttempts,
         st.jobs = q.step["overview"].jobs, st.previous = q.step["overview"].previous,
         st.last = q.step["overview"].last
  PROVE  LET r == Put(q, "overview", st)
         IN  LateBase(r) /\ r.step["overview"] = st /\ r.status = q.status
<1> DEFINE r == Put(q, "overview", st)
<1>1. "overview" \in StepIds /\ q \in PipeShape
  BY PlanFacts DEF IInv, Shape, LateBase
<1>2. /\ r \in PipeShape /\ r.step["overview"] = st
      /\ \A t \in StepIds \ {"overview"} : r.step[t] = q.step[t]
      /\ r.status = q.status /\ r.current = q.current /\ r.wait = q.wait /\ r.released = q.released
  BY <1>1, PutIs
<1> HIDE DEF r
<1>3. ASSUME NEW t \in StepIds
      PROVE  /\ r.step[t].jobs \cup r.step[t].previous \subseteq 1..Len(jobs)
             /\ r.step[t].last \in 0..Len(jobs)
             /\ t # "overview" => Tried(r.step[t])
  <2>1. CASE t = "overview"
    BY <1>2, <2>1 DEF LateBase
  <2>2. CASE t # "overview"
    BY <1>2, <2>2 DEF LateBase
  <2> QED
    BY <2>1, <2>2
<1> QED
  BY <1>2, <1>3 DEF LateBase, r

LEMMA LateAlike ==
  ASSUME NEW q, LateBase(q), NEW r, Alike(q, r)
  PROVE  LateBase(r) /\ r.step = q.step
  BY DEF LateBase, Alike

LEMMA LateFails ==
  ASSUME IInv, NEW q, LateBase(q), NEW failure \in Kinds
  PROVE  LET r == ScheduleOrFail(q, "overview", failure)
         IN  /\ LateBase(r) /\ Tried(r.step["overview"])
             /\ r.status \in {"retry_waiting", "published_summary_failed"}
             /\ r.status = "retry_waiting" => r.step["overview"].status = "retry_waiting"
<1> DEFINE r == ScheduleOrFail(q, "overview", failure)
           s == "overview"
<1>1. s \in StepIds /\ q \in PipeShape /\ q.released /\ q.current = "overview" /\ q.wait = "none"
      /\ q.step[s].tries <= MaxAttempts
  BY PlanFacts DEF IInv, Shape, LateBase
<1>2. PICK status \in {"retry_waiting", "failed", "published_summary_failed"} :
               /\ Failed(q, s, r, status, failure)
               /\ status = "retry_waiting" <=> Retries(q, s, failure)
               /\ status = "failed" => ~(s = "overview" /\ q.released)
               /\ r.step[s].tries = IF Retries(q, s, failure) /\ q.step[s].tries = 0
                                    THEN 1 ELSE q.step[s].tries
  BY <1>1, ScheduleIs
<1> HIDE DEF r
<1>3. status \in {"retry_waiting", "published_summary_failed"}
  BY <1>1, <1>2
<1>4. /\ r \in PipeShape /\ r.status = status /\ \A t \in StepIds \ {s} : r.step[t] = q.step[t]
      /\ r.current = q.current /\ r.wait = q.wait /\ r.released = q.released
      /\ r.step[s].status = IF status = "retry_waiting" THEN status ELSE "failed"
      /\ r.step[s].jobs = q.step[s].jobs /\ r.step[s].previous = q.step[s].previous
      /\ r.step[s].last = q.step[s].last
  BY <1>2 DEF Failed
<1>5. q.step[s].tries \in Nat \cup {NoInfo} /\ MaxAttempts \in Nat /\ MaxAttempts >= 2
  BY <1>1, PipelineAssumption DEF PipeShape, StepShape
<1>6. r.step[s].tries <= MaxAttempts /\ Tried(r.step[s])
  <2>1. CASE Retries(q, s, failure)
    <3>1. q.step[s].tries \in Nat /\ q.step[s].tries < MaxAttempts
      BY <1>5, <2>1 DEF Retries
    <3> QED
      BY <1>2, <1>4, <1>5, <2>1, <3>1 DEF Tried
  <2>2. CASE ~Retries(q, s, failure)
    BY <1>1, <1>2, <1>3, <1>4, <1>5, <2>2 DEF Tried
  <2> QED
    BY <2>1, <2>2
<1>7. ASSUME NEW t \in StepIds
      PROVE  /\ r.step[t].jobs \cup r.step[t].previous \subseteq 1..Len(jobs)
             /\ r.step[t].last \in 0..Len(jobs)
             /\ t # "overview" => Tried(r.step[t])
  <2>1. CASE t = s
    BY <1>4, <2>1 DEF LateBase
  <2>2. CASE t # s
    BY <1>4, <2>2 DEF LateBase
  <2> QED
    BY <2>1, <2>2
<1> QED
  BY <1>1, <1>3, <1>4, <1>6, <1>7 DEF LateBase, r

LEMMA LateShape ==
  ASSUME IInv, plan' = plan, p' \in PipeShape, pc' = "idle", Beside, made' \in [StepIds -> Nat],
         UNCHANGED <<jobs, have, run, remote, head, data, clean, release, intent>>,
         conv' \in Kinds \cup {"none", "running", "succeeded"}
  PROVE  Shape'
<1>1. StepIds' = StepIds /\ JobSteps' = JobSteps /\ PipeShape' = PipeShape /\ JobRecord' = JobRecord
  BY PlanKept
<1> QED
  BY <1>1 DEF IInv, Shape, Beside

\* The record with which the overview goes on.
OnGoing(q) == [Running(q, "overview") EXCEPT !.status = "running", !.error = "none"]
Unasked(q) == [q EXCEPT !.step["overview"].retry = FALSE]

LEMMA OnGoingIs ==
  ASSUME IInv, NEW q, LateBase(q)
  PROVE  /\ LateBase(OnGoing(q)) /\ OnGoing(q).status = "running"
         /\ OnGoing(q).step["overview"].status = "running"
         /\ LateBase(Unasked(q)) /\ Unasked(q).status = q.status
<1> DEFINE s == "overview"
<1>1. s \in StepIds /\ q \in PipeShape /\ q.step[s] \in StepShape /\ q.step[s].tries <= MaxAttempts
  BY PlanFacts DEF IInv, Shape, LateBase, PipeShape
<1>2. PICK st \in StepShape :
        /\ Running(q, s) = Put(q, s, st) /\ st.status = "running"
        /\ st.jobs = q.step[s].jobs /\ st.previous = q.step[s].previous /\ st.last = q.step[s].last
        /\ st.retry = q.step[s].retry /\ st.tries = q.step[s].tries
  BY <1>1, RunningIs
<1> DEFINE r == Running(q, s)
<1>3. LateBase(r) /\ r.step[s] = st /\ r \in PipeShape
  BY <1>1, <1>2, LatePut DEF LateBase
<1> HIDE DEF r
<1>4. "running" \in Statuses /\ "none" \in Kinds \cup {"none"}
  BY DEF Statuses
<1>5. OnGoing(q) = Headed(r, "running", "none")
  BY DEF OnGoing, Headed, r
<1>6. Alike(r, OnGoing(q)) /\ OnGoing(q).status = "running"
  BY <1>3, <1>4, <1>5, HeadedIs DEF Alike
<1>7. LateBase(OnGoing(q)) /\ OnGoing(q).step[s].status = "running"
  BY <1>2, <1>3, <1>6, LateAlike
<1> DEFINE new == [q.step[s] EXCEPT !.retry = FALSE]
<1>8. /\ new \in StepShape /\ new.jobs = q.step[s].jobs /\ new.tries = q.step[s].tries
      /\ new.previous = q.step[s].previous /\ new.last = q.step[s].last
  BY <1>1 DEF StepShape
<1>9. Unasked(q) = Put(q, s, new)
  BY <1>1 DEF Unasked, Put, PipeShape
<1> HIDE DEF new
<1>10. LateBase(Unasked(q)) /\ Unasked(q).status = q.status
  <2>1. new \in StepShape /\ new.tries <= MaxAttempts
    BY <1>1, <1>8
  <2> QED
    BY <1>8, <1>9, <2>1, LatePut
<1> QED
  BY <1>6, <1>7, <1>10

\* The overview's step is finished.
LEMMA SummedIs ==
  ASSUME IInv, NEW q, LateBase(q), NEW r, Alike(Done(q, "overview", "succeeded"), r)
  PROVE  LateBase(r) /\ Tried(r.step["overview"])
<1> DEFINE s == "overview"
           d == Done(q, s, "succeeded")
<1>1. s \in StepIds /\ q \in PipeShape /\ q.step[s].tries <= MaxAttempts
  BY PlanFacts DEF IInv, Shape, LateBase
<1>2. PICK st \in StepShape :
        /\ d = Put(q, s, st) /\ st.status = "succeeded"
        /\ st.jobs = q.step[s].jobs /\ st.previous = q.step[s].previous /\ st.last = q.step[s].last
        /\ st.tries = q.step[s].tries
  BY <1>1, DoneIs DEF StepStatuses
<1>3. LateBase(d) /\ d.step[s] = st
  <2>1. st \in StepShape /\ st.tries <= MaxAttempts
    BY <1>1, <1>2
  <2> QED
    BY <1>2, <2>1, LatePut
<1>4. Alike(d, r)
  OBVIOUS
<1> HIDE DEF d
<1>5. LateBase(r) /\ r.step = d.step
  BY <1>3, <1>4, LateAlike
<1> QED
  BY <1>1, <1>2, <1>3, <1>5 DEF Tried

LEMMA ConvertKeeps ==
  ASSUME IInv, NEW q, Convert(q)
  PROVE  IInv'
<1> DEFINE s == "overview"
           st == q.step[s]
           a  == IF st.status = "pending" THEN Attempt(q, s) ELSE q
           r  == Unasked(a)
           ok == OnGoing(r)
           c  == Sent(st.retry)
<1>1. /\ At(q, s) /\ conv' = c /\ pc' = "idle"
      /\ \/ p' = ok
         \/ p' = [Done(ok, s, "succeeded") EXCEPT !.status = "succeeded"]
         \/ c \in Kinds /\ p' = ScheduleOrFail(ok, s, c)
      /\ made' \in {made, [made EXCEPT ![s] = @ + 1]}
      /\ UNCHANGED <<jobs, have, run, remote, head, data, clean, release, intent>> /\ Beside
  BY DEF Convert, Save, Try, Unasked, OnGoing
<1>2. WalkingLate(q)
  BY <1>1, OverviewIs
<1>3. /\ LateBase(q) /\ release
      /\ st.status = "pending" => /\ st.jobs = {}
                                  /\ st.tries \in {0, NoInfo} \/ st.tries \in 1..MaxAttempts - 1
  BY <1>2, WalkingLateIs DEF WalkingLate
<1>4. s \in StepIds /\ q \in PipeShape
  BY <1>3, PlanFacts DEF IInv, Shape, LateBase
<1>5. LateBase(a)
  <2>1. CASE st.status # "pending"
    BY <1>3, <2>1
  <2>2. CASE st.status = "pending"
    <3>1. PICK new \in StepShape :
           /\ Attempt(q, s) = Put(q, s, new)
           /\ new.jobs = q.step[s].jobs /\ new.previous = q.step[s].previous /\ new.last = q.step[s].last
           /\ new.tries = IF q.step[s].tries = NoInfo THEN NoInfo ELSE q.step[s].tries + 1
      BY <1>4, AttemptIs
    <3>2. new.tries <= MaxAttempts
      <4>1. MaxAttempts \in Nat /\ MaxAttempts >= 2
        BY PipelineAssumption
      <4> QED
        BY <1>3, <2>2, <3>1, <4>1 DEF NoInfo
    <3> QED
      BY <1>3, <2>2, <3>1, <3>2, LatePut
  <2> QED
    BY <2>1, <2>2
<1> HIDE DEF a
<1>6. LateBase(r)
  BY <1>5, OnGoingIs
<1> HIDE DEF r
<1>7. LateBase(ok) /\ ok.status = "running" /\ ok.step[s].status = "running"
  BY <1>6, OnGoingIs
<1> HIDE DEF ok
<1>8. made' \in [StepIds -> Nat] /\ conv' \in Kinds \cup {"none", "running", "succeeded"}
  <2>1. made \in [StepIds -> Nat] /\ conv \in Kinds \cup {"none", "running", "succeeded"}
    BY DEF IInv, Shape
  <2>2. made' \in [StepIds -> Nat]
    BY <1>1, <1>4, <2>1
  <2> QED
    BY <1>1, <2>1, <2>2 DEF Sent
<1>9. plan' = plan
  BY <1>1 DEF Beside
<1>10. CASE p' = ok
  <2>1. LateBase(p') /\ Tried(p'.step[s]) /\ p'.status = "running" /\ p' \in PipeShape
    BY <1>7, <1>10 DEF Tried, LateBase
  <2> QED
    BY <1>1, <1>3, <1>8, <1>9, <2>1, LateShape, LatePost
<1>11. CASE p' = [Done(ok, s, "succeeded") EXCEPT !.status = "succeeded"]
  <2> DEFINE d == Done(ok, s, "succeeded")
  <2>1. d \in PipeShape /\ Alike(d, d)
    BY <1>4, <1>7, DoneAlike DEF Closed, LateBase
  <2>2. p' = [d EXCEPT !.status = "succeeded"]
    BY <1>11
  <2> HIDE DEF d
  <2>3. Alike(d, p') /\ p'.status = "succeeded" /\ p' \in PipeShape
    BY <2>1, <2>2 DEF Alike, PipeShape, Statuses, TERMINAL
  <2>4. LateBase(p') /\ Tried(p'.step[s])
    BY <1>7, <2>3, SummedIs DEF d
  <2> QED
    BY <1>1, <1>3, <1>8, <1>9, <2>3, <2>4, LateShape, LatePost
<1>12. CASE c \in Kinds /\ p' = ScheduleOrFail(ok, s, c)
  <2>1. /\ LateBase(p') /\ Tried(p'.step[s])
        /\ p'.status \in {"retry_waiting", "published_summary_failed"}
        /\ p'.status = "retry_waiting" => p'.step[s].status = "retry_waiting"
    <3> HIDE DEF c
    <3> QED
      BY <1>7, <1>12, LateFails
  <2>2. p' \in PipeShape
    BY <2>1 DEF LateBase
  <2> QED
    BY <1>1, <1>3, <1>8, <1>9, <2>1, <2>2, LateShape, LatePost
<1> QED
  BY <1>1, <1>10, <1>11, <1>12
\* A late result's record differs from the finished one only in what is named here.
LateRecord(d, status, n) == [d EXCEPT !.status = status, !.error = "none", !.input = n]

LEMMA LateRecordIs ==
  ASSUME NEW d \in PipeShape, NEW status \in Statuses, NEW n \in Nat
  PROVE  Alike(d, LateRecord(d, status, n)) /\ LateRecord(d, status, n).status = status
  BY DEF Alike, LateRecord, PipeShape

LEMMA LateResultKeeps ==
  ASSUME IInv, LateResult
  PROVE  IInv'
<1> DEFINE w == Waiting
           s == w.current
           d == Done(w, s, "succeeded")
           n == IF s = "collection" THEN data ELSE d.input
           status == IF s = "overview" THEN "succeeded" ELSE "running"
<1>1. /\ Walks /\ Reconciled.status = "retry_waiting" /\ Inside /\ pc' = "idle"
      /\ \/ CompletedWhileWaiting(w, s) /\ p' = LateRecord(d, status, n)
         \/ LateError(s) /\ p' = ScheduleOrFail(w, s, "permanent")
  BY DEF LateResult, Save, LateRecord
<1>2. p.status = "retry_waiting" /\ ~Rests(Reconciled) /\ p.status # "terminating"
  <2>1. CASE ~release
    BY <1>1, <2>1, ReconciledIs DEF Rests
  <2>2. CASE release
    BY <1>1, <2>2, ReconciledIs DEF Rests
  <2> QED
    BY <2>1, <2>2
<1>3. "succeeded" \in Closed /\ "permanent" \in Kinds /\ status \in Statuses /\ data \in Nat
  BY DEF Closed, Kinds, Statuses, TERMINAL, IInv, Shape
<1>4. CASE ~release
  <2>1. Works(w, s)
    BY <1>1, <1>2, <1>4, WaitingWorks
  <2>2. s \in StepIds /\ w \in PipeShape /\ s # "overview"
    BY <2>1 DEF Works, Base, Standing
  <2>3. CASE CompletedWhileWaiting(w, s) /\ p' = LateRecord(d, status, n)
    <3>1. s # "publication"
      BY <2>3 DEF CompletedWhileWaiting, JobSteps
    <3>2. d \in PipeShape
      BY <1>3, <2>2, DoneAlike
    <3>3. n \in Nat
      BY <1>3, <3>2 DEF PipeShape
    <3>4. p' = LateRecord(d, "running", n)
      BY <2>2, <2>3
    <3> HIDE DEF n
    <3>5. Alike(d, p') /\ p'.status = "running"
      <4> HIDE DEF d
      <4>1. "running" \in Statuses
        BY DEF Statuses
      <4> QED
        BY <3>2, <3>3, <3>4, <4>1, LateRecordIs
    <3> HIDE DEF w, s
    <3> QED
      BY <1>1, <1>3, <2>1, <3>1, <3>5, FinishTick
  <2>4. CASE LateError(s) /\ p' = ScheduleOrFail(w, s, "permanent")
    <3> HIDE DEF w, s
    <3> QED
      BY <1>1, <1>3, <2>1, <2>4, FailTick
  <2> QED
    BY <1>1, <2>3, <2>4
<1>5. CASE release
  <2>1. LateBase(w) /\ s = "overview" /\ w \in PipeShape /\ "overview" \in StepIds
    BY <1>1, <1>2, <1>5, WaitingLate, PlanFacts DEF LateBase, IInv, Shape
  <2>2. p' = LateRecord(d, "succeeded", d.input) /\ d = Done(w, "overview", "succeeded")
    BY <1>1, <2>1 DEF LateError
  <2>3. d \in PipeShape
    BY <1>3, <2>1, DoneAlike
  <2>4. Alike(d, p') /\ p'.status = "succeeded"
    <3>1. "succeeded" \in Statuses /\ d.input \in Nat
      BY <2>3 DEF Statuses, TERMINAL, PipeShape
    <3> HIDE DEF d
    <3> QED
      BY <2>2, <2>3, <3>1, LateRecordIs
  <2>5. LateBase(p') /\ Tried(p'.step["overview"])
    BY <2>1, <2>2, <2>4, SummedIs
  <2>6. /\ UNCHANGED <<jobs, world>> /\ Beside /\ plan' = plan /\ made' = made /\ p' \in PipeShape
        /\ made \in [StepIds -> Nat] /\ conv \in Kinds \cup {"none", "running", "succeeded"}
    BY <1>1, <2>5, InsideIs DEF LateBase, IInv, Shape
  <2>7. Shape'
    BY <1>1, <2>6, LateShape DEF world
  <2> QED
    BY <1>1, <1>5, <2>4, <2>5, <2>6, <2>7, LatePost DEF world
<1> QED
  BY <1>4, <1>5

LEMMA TerminateKeeps ==
  ASSUME IInv, Terminate
  PROVE  IInv'
<1>1. /\ UNCHANGED <<jobs, world>> /\ Beside /\ jobs' = jobs /\ made' = made /\ plan' = plan
      /\ crashes' = crashes /\ grants' = grants /\ pc' = "idle" /\ pc = "idle"
      /\ made \in [StepIds -> Nat] /\ grants \in Nat /\ p \in PipeShape
      /\ release' = release /\ run' = run /\ remote' = remote /\ head' = head
      /\ p.status = "terminating"
  BY InsideIs DEF Terminate, Save, Walks, world, IInv, Shape
<1>2. "publication" \in StepIds
  BY PlanFacts DEF IInv, Shape
<1>3. CASE release /\ p' = [Done(p, "publication", "succeeded") EXCEPT !.released = TRUE, !.status = "terminated"]
  <2> DEFINE d == Done(p, "publication", "succeeded")
  <2>1. PICK st \in StepShape :
          /\ d = Put(p, "publication", st)
          /\ st.status = "succeeded" /\ st.jobs = p.step["publication"].jobs
          /\ st.previous = p.step["publication"].previous
          /\ st.tries = p.step["publication"].tries /\ st.last = p.step["publication"].last
    BY <1>1, <1>2, DoneIs DEF StepStatuses
  <2>2. /\ d \in PipeShape /\ d.step["publication"] = st
        /\ \A t \in StepIds \ {"publication"} : d.step[t] = p.step[t]
        /\ d.wait = p.wait
    BY <1>1, <1>2, <2>1, PutIs
  <2>3. p' = [d EXCEPT !.released = TRUE, !.status = "terminated"]
    BY <1>3
  <2> HIDE DEF d
  <2>4. /\ p' \in PipeShape /\ p'.step = d.step /\ p'.released /\ p'.status = "terminated" /\ p'.wait = p.wait
    BY <2>2, <2>3 DEF PipeShape, Statuses, TERMINAL
  <2>5. Shape'
    BY <1>1, <2>4, ShapeKept
  <2>6. HeadInv'
    BY <1>1, <1>3, <2>4 DEF HeadInv, IInv
  <2>7. RunInv'
    BY <1>1, <2>4, RunKept
  <2>8. ASSUME NEW t \in StepIds
        PROVE  /\ p'.step[t].jobs \cup p'.step[t].previous \subseteq 1..Len(jobs)
               /\ p'.step[t].last \in 0..Len(jobs) /\ Tried(p'.step[t])
    <3>1. /\ p.step[t].jobs \cup p.step[t].previous \subseteq 1..Len(jobs)
          /\ p.step[t].last \in 0..Len(jobs) /\ Tried(p.step[t])
      BY StepsAre
    <3>2. CASE t = "publication"
      BY <2>1, <2>2, <2>4, <3>1, <3>2 DEF Tried
    <3>3. CASE t # "publication"
      BY <2>2, <2>4, <3>1, <3>3
    <3> QED
      BY <3>2, <3>3
  <2>9. ~Live'
    BY <2>4 DEF Live, TERMINAL
  <2> QED
    BY <1>1, <2>4, <2>5, <2>6, <2>7, <2>8, <2>9, UnlivePost
<1>4. CASE ~release /\ ~Busy /\ p' = [p EXCEPT !.status = "terminated"]
  <2>1. /\ p' \in PipeShape /\ p'.step = p.step /\ p'.released = p.released
        /\ p'.status = "terminated" /\ p'.wait = p.wait /\ p'.input = p.input
    BY <1>1, <1>4 DEF PipeShape, Statuses, TERMINAL
  <2>2. Shape'
    BY <1>1, <2>1, ShapeKept
  <2>3. HeadInv'
    BY <1>1, <1>4, <2>1 DEF HeadInv, IInv
  <2>4. ~ActiveJobs /\ remote \notin {"running", "late"}
    BY <1>4 DEF Busy, ActiveJobs, IInv, RunInv
  <2>5. RunInv'
    <3>1. ActiveJobs' <=> ActiveJobs
      BY <1>1 DEF ActiveJobs, Active
    <3> QED
      BY <1>1, <2>4, <3>1 DEF RunInv, IInv
  <2>6. ASSUME NEW t \in StepIds
        PROVE  /\ p'.step[t].jobs \cup p'.step[t].previous \subseteq 1..Len(jobs)
               /\ p'.step[t].last \in 0..Len(jobs) /\ Tried(p'.step[t])
    BY <2>1, StepsAre
  <2>7. ~Live' /\ p'.status \in TERMINAL
    BY <2>1 DEF Live, TERMINAL
  <2> QED
    BY <1>1, <2>2, <2>3, <2>5, <2>6, <2>7, UnlivePost
<1> QED
  BY <1>3, <1>4 DEF Terminate, Save

LEMMA FenceKeeps ==
  ASSUME IInv, Fence
  PROVE  IInv'
<1>1. /\ UNCHANGED <<jobs, world>> /\ Beside /\ jobs' = jobs /\ plan' = plan
      /\ crashes' = crashes /\ grants' = grants /\ pc' = "idle" /\ pc = "idle"
      /\ made \in [StepIds -> Nat] /\ grants \in Nat /\ p \in PipeShape
      /\ release' = release /\ run' = run /\ remote' = remote /\ head' = head
      /\ head # "none" /\ ~p.released /\ p.status \notin (TERMINAL \cup {"terminating"})
      /\ ~Current(p.input) \/ p.wait # "none"
  BY DEF Fence, Fenced, Save, world, IInv, Shape, Beside
<1>2. ~release
  BY <1>1 DEF IInv, HeadInv
<1>3. made' \in [StepIds -> Nat]
  BY <1>1 DEF Fence
<1>4. WasThen \in Statuses /\ "none" \in Kinds \cup {"none"} /\ "paused" \in Statuses /\ "running" \in Statuses
  BY <1>1 DEF WasThen, PipeShape, Statuses
<1>5. CASE \/ p' = [Paused(p) EXCEPT !.wait = WasThen, !.pausedFrom = "running", !.error = "none"]
           \/ p' = [Paused(p) EXCEPT !.wait = WasThen, !.error = "none"]
  <2> DEFINE w == WasThen
             q == Paused(p)
  <2>1. q \in PipeShape /\ q.step = p.step /\ q.released = p.released /\ q.status = "paused" /\ q.input = p.input
    BY <1>1, <1>4 DEF Paused, PipeShape
  <2>2. w \in Statuses \cup {"none"} /\ w # "none"
    BY <1>1, <1>4 DEF WasThen, Statuses, TERMINAL, PipeShape
  <2>3. \/ p' = [q EXCEPT !.wait = w, !.pausedFrom = "running", !.error = "none"]
        \/ p' = [q EXCEPT !.wait = w, !.error = "none"]
    BY <1>5
  <2> HIDE DEF w, q
  <2>4. /\ p' \in PipeShape /\ p'.step = p.step /\ ~p'.released /\ p'.status = "paused" /\ p'.wait # "none"
    BY <1>1, <2>1, <2>2, <2>3 DEF PipeShape
  <2>5. Shape'
    BY <1>1, <1>3, <2>4, ShapeKept
  <2>6. HeadInv'
    BY <1>1, <1>2, <2>4 DEF HeadInv
  <2>7. RunInv'
    BY <1>1, <2>4, RunKept
  <2>8. ASSUME NEW t \in StepIds
        PROVE  /\ p'.step[t].jobs \cup p'.step[t].previous \subseteq 1..Len(jobs)
               /\ p'.step[t].last \in 0..Len(jobs) /\ Tried(p'.step[t])
    BY <2>4, StepsAre
  <2>9. ~Live'
    BY <2>4 DEF Live
  <2>10. p'.step["publication"].status \notin Closed
    BY <1>1, <2>4 DEF IInv, WalkInv
  <2> QED
    BY <1>1, <2>5, <2>6, <2>7, <2>8, <2>9, <2>10, UnlivePost
<1>6. CASE p' = Restart
  <2> DEFINE E(s) == [NewStep EXCEPT !.previous = p.step[s].previous \cup p.step[s].jobs, !.tries = NoInfo]
             f == [s \in StepIds |-> E(s)]
             status == IF WasThen = "paused" THEN "paused" ELSE "running"
  <2>1. ASSUME NEW s \in StepIds
        PROVE  /\ E(s) \in StepShape /\ E(s).status = "pending" /\ E(s).jobs = {}
               /\ E(s).previous = p.step[s].previous \cup p.step[s].jobs
               /\ E(s).tries = NoInfo /\ E(s).last = 0
    <3>1. p.step[s] \in StepShape
      BY <1>1 DEF PipeShape
    <3> QED
      BY <3>1 DEF NewStep, StepShape, StepStatuses
  <2> HIDE DEF E
  <2>2. f \in [StepIds -> StepShape] /\ \A s \in StepIds : f[s] = E(s)
    BY <2>1
  <2>3. p' = [p EXCEPT !.status = status, !.wait = "none", !.pausedFrom = "running", !.current = "collection",
              !.error = "none", !.input = data, !.selection = 0, !.confirmed = FALSE, !.step = f]
    BY <1>6 DEF Restart, E
  <2>4. status \in {"paused", "running"} /\ "collection" \in StepIds /\ data \in Nat
    BY PlanFacts DEF IInv, Shape
  <2> HIDE DEF f, status
  <2>5. /\ p' \in PipeShape /\ p'.step = f /\ p'.status = status /\ p'.wait = "none" /\ p'.pausedFrom = "running"
        /\ p'.current = "collection" /\ p'.released = p.released
    BY <1>1, <1>4, <2>2, <2>3, <2>4 DEF PipeShape
  <2>6. StepIds' = StepIds /\ \A u, t : Before(u, t)' <=> Before(u, t)
    BY <1>1, PlanKept, BeforeKept
  <2>7. Shape'
    BY <1>1, <1>3, <2>5, ShapeKept
  <2>8. HeadInv'
    BY <1>1, <1>2, <2>4, <2>5 DEF HeadInv
  <2>9. RunInv'
    BY <1>1, <2>4, <2>5, RunKept
  <2>10. JobsInv'
    <3>1. ASSUME NEW t \in StepIds
          PROVE  p'.step[t].jobs \cup p'.step[t].previous \subseteq 1..Len(jobs) /\ p'.step[t].last \in 0..Len(jobs)
      <4>1. Len(jobs) \in Nat
        BY LenProperties DEF IInv, Shape
      <4>2. p.step[t].jobs \cup p.step[t].previous \subseteq 1..Len(jobs)
        BY StepsAre
      <4> QED
        BY <2>1, <2>2, <2>5, <4>1, <4>2
    <3> QED
      BY <1>1, <2>6, <3>1 DEF JobsInv
  <2>11. TriesInv'
    <3>1. ASSUME NEW t \in StepIds PROVE Tried(p'.step[t])
      <4>1. p'.step[t].tries = NoInfo /\ p'.step[t].jobs = {} /\ p'.step[t].status = "pending"
        BY <2>1, <2>2, <2>5
      <4> QED
        BY <4>1, PipelineAssumption DEF Tried, NoInfo
    <3> QED
      BY <2>6, <3>1 DEF TriesInv, Tried
  <2>12. WalkInv'
    <3>1. ASSUME NEW t \in StepIds PROVE p'.step[t].status = "pending"
      BY <2>1, <2>2, <2>5
    <3>2. "publication" \in StepIds /\ \A t \in StepIds : ~Before(t, "collection")
      BY PlanFacts, FirstAndLast DEF IInv, Shape
    <3>3. Eff' = "running"
      BY <2>4, <2>5 DEF Eff
    <3> QED
      BY <1>1, <1>2, <2>4, <2>5, <2>6, <3>1, <3>2, <3>3 DEF WalkInv, Closed, Unsettled
  <2>13. CallInv' /\ MadeInv'
    BY <1>1 DEF CallInv, MadeInv, Counted
  <2> QED
    BY <2>7, <2>8, <2>9, <2>10, <2>11, <2>12, <2>13 DEF IInv
<1> QED
  BY <1>5, <1>6 DEF Fence, Save
-----------------------------------------------------------------------------
(* The calls a tick makes: the dispatch of the collection. *)

LEMMA NoJobsOf ==
  ASSUME IInv, NEW s, s \notin JobSteps \cup {"cot"}
  PROVE  U(s) = {}
<1>1. jobs \in Seq(JobRecord)
  BY DEF IInv, Shape
<1>2. ASSUME NEW j \in 1..Len(jobs) PROVE jobs[j] \in JobRecord
  BY <1>1, ElementOfSeq
<1> QED
  BY <1>2 DEF U, JobRecord

\* What a call that the tick makes finds.
LEMMA CallWorks ==
  ASSUME IInv, pc # "idle"
  PROVE  LET s == p.current
         IN  /\ Standing(s) /\ Live /\ ~release /\ p.status = "running" /\ p \in PipeShape
             /\ p.step[s].status = "running" /\ Base(p, s) /\ Loose(p.step[s], s) /\ s \in StepIds
             /\ Tried(p.step[s]) /\ (Counted => MadeStep(s) /\ MadeCalls)
<1>1. p \in PipeShape /\ p.current \in StepIds
  BY DEF IInv, Shape, PipeShape
<1> QED
  BY <1>1, CallingStands, CallingBase, StoredIsLoose DEF IInv, TriesInv, MadeInv

\* What the steps of a dispatch leave alone.
LEMMA OnlyRunIs ==
  ASSUME IInv, OnlyRun
  PROVE  /\ plan' = plan /\ jobs' = jobs /\ made' = made /\ crashes' = crashes /\ grants' = grants
         /\ have' = have /\ head' = head /\ data' = data /\ clean' = clean /\ release' = release
         /\ intent' = intent /\ conv' = conv /\ (Q' <=> Q) /\ made \in [StepIds -> Nat]
         /\ OnlyJobsOf("collection")
<1>1. Len(jobs) \in Nat
  BY LenProperties DEF IInv, Shape
<1> QED
  BY <1>1 DEF OnlyRun, Beside, Q, OnlyJobsOf, IInv, Shape

LEMMA DispatchShape ==
  ASSUME IInv, OnlyRun, p' \in PipeShape, run' \in RunRecord, remote' \in Known \cup {"none", "late"},
         pc' \in {"idle", "dispatch", "sent", "resent", "submit", "publish"}
  PROVE  Shape'
<1>1. /\ plan' = plan /\ jobs' = jobs /\ made' = made /\ crashes' = crashes /\ grants' = grants
      /\ have' = have /\ head' = head /\ data' = data /\ clean' = clean /\ release' = release
      /\ intent' = intent /\ conv' = conv
  BY OnlyRunIs
<1>2. StepIds' = StepIds /\ JobSteps' = JobSteps /\ PipeShape' = PipeShape /\ JobRecord' = JobRecord
  BY <1>1, PlanKept
<1> QED
  BY <1>1, <1>2 DEF IInv, Shape, RunRecord, Known

\* The dispatch goes on, or its run is bound.
LEMMA DispatchGoes ==
  ASSUME IInv, pc \in {"dispatch", "sent", "resent"}, OnlyRun, RunInv',
         run' \in RunRecord, remote' \in Known \cup {"none", "late"},
         \/ p' = p /\ pc' \in {"dispatch", "sent", "resent"}
         \/ p' = [p EXCEPT !.bound = TRUE] /\ pc' = "idle"
  PROVE  IInv'
<1> DEFINE s == "collection"
<1>1. p.current = s /\ pc # "idle"
  BY DEF IInv, CallInv
<1>2. /\ Standing(s) /\ Live /\ ~release /\ p.status = "running" /\ p \in PipeShape
      /\ p.step[s].status = "running" /\ Base(p, s) /\ Loose(p.step[s], s) /\ s \in StepIds
      /\ Tried(p.step[s]) /\ (Counted => MadeStep(s) /\ MadeCalls)
  BY <1>1, CallWorks
<1>3. /\ plan' = plan /\ jobs' = jobs /\ made' = made /\ crashes' = crashes /\ grants' = grants
      /\ head' = head /\ release' = release /\ (Q' <=> Q) /\ OnlyJobsOf(s)
  BY OnlyRunIs
<1>4. /\ p' \in PipeShape /\ p'.step = p.step /\ p'.status = p.status /\ p'.current = p.current
      /\ p'.wait = p.wait /\ p'.released = p.released
  BY <1>2 DEF PipeShape
<1>5. Shape'
  BY <1>4, DispatchShape
<1>6. Post(s)
  BY <1>1, <1>2, <1>3, <1>4 DEF Post, Base, Unsettled
<1>7. Calls(s)
  BY <1>2, <1>3, <1>4 DEF Calls
<1>8. Ticks(s)
  BY <1>1, <1>2, <1>3, <1>4, <1>6, <1>7 DEF Ticks, Loose
<1>9. U(s)' = U(s)
  BY <1>3, <1>4 DEF U
<1>10. ASSUME Counted PROVE MadeStep(s)' /\ MadeCalls'
  <2>1. MadeStep(s) /\ MadeCalls
    BY <1>2, <1>10
  <2>2. MadeStep(s)'
    BY <1>2, <1>3, <1>4, <1>9, <2>1 DEF MadeStep
  <2>3. MadeCalls'
    BY <1>2, <1>3, <1>4, <2>1 DEF MadeCalls
  <2> QED
    BY <2>2, <2>3
<1>11. Tried(p'.step[s])
  BY <1>2, <1>4
<1> QED
  BY <1>5, <1>8, <1>10, <1>11, TickPost

\* The dispatch fails: the record keeps the run's identity.
LEMMA DispatchFails ==
  ASSUME IInv, pc \in {"dispatch", "sent", "resent"}, OnlyRun, RunInv',
         run' \in RunRecord, remote' \in Known \cup {"none", "late"},
         NEW failure \in Kinds, Undispatched(failure)
  PROVE  IInv'
<1> DEFINE s == "collection"
           b == run'.status # "none"
           r == [p EXCEPT !.bound = b]
<1>1. p.current = s /\ pc # "idle" /\ p' = ScheduleOrFail(r, s, failure) /\ pc' = "idle"
  BY DEF IInv, CallInv, Undispatched, Save
<1>2. /\ Standing(s) /\ Live /\ ~release /\ p.status = "running" /\ p \in PipeShape
      /\ p.step[s].status = "running" /\ Base(p, s) /\ Loose(p.step[s], s) /\ s \in StepIds
      /\ Tried(p.step[s]) /\ (Counted => MadeStep(s) /\ MadeCalls)
  BY <1>1, CallWorks
<1>3. /\ plan' = plan /\ jobs' = jobs /\ made' = made /\ crashes' = crashes /\ grants' = grants
      /\ head' = head /\ release' = release /\ (Q' <=> Q) /\ OnlyJobsOf(s)
  BY OnlyRunIs
<1>4. Alike(p, r)
  <2>1. b \in BOOLEAN
    OBVIOUS
  <2> HIDE DEF b
  <2> QED
    BY <1>2, <2>1, NamedAlike
<1> HIDE DEF r
<1>5. Base(r, s) /\ r.step = p.step
  BY <1>2, <1>4, AlikeBase
<1>6. Fails(r, s, failure)
  BY <1>1, <1>2, <1>3, <1>5, BaseFails
<1>7. /\ Post(s) /\ p'.error = failure /\ p' \in PipeShape /\ p'.current = s
      /\ p'.status = IF Retries(r, s, failure) THEN "retry_waiting" ELSE "failed"
      /\ p'.step[s].jobs = p.step[s].jobs /\ p'.step[s].previous = p.step[s].previous
      /\ p'.step[s].last = p.step[s].last /\ p'.step[s].status = p'.status
      /\ p'.step[s].tries = IF Retries(r, s, failure) /\ p.step[s].tries = 0 THEN 1 ELSE p.step[s].tries
  BY <1>5, <1>6 DEF Fails, Post
<1>8. Shape'
  BY <1>1, <1>7, DispatchShape
<1>9. Ticks(s)
  <2>1. Calls(s)
    BY <1>1 DEF Calls
  <2> QED
    BY <1>1, <1>2, <1>3, <1>7, <2>1 DEF Ticks, Loose
<1>10. U(s) = {} /\ U(s)' = {}
  <2>1. U(s) = {}
    BY NoJobsOf DEF JobSteps
  <2>2. U(s)' = U(s)
    BY <1>3, <1>7 DEF U
  <2> QED
    BY <2>1, <2>2
<1>11. /\ made[s] \in Nat /\ MaxAttempts \in Nat /\ MaxAttempts >= 2
       /\ p.step[s].tries \in Nat \cup {NoInfo} /\ p.step[s].tries <= MaxAttempts
  BY <1>2, NumbersAre DEF Loose, StepShape
<1>12. Tried(p'.step[s])
  <2>1. CASE Retries(r, s, failure)
    <3>1. p.step[s].tries \in Nat /\ p.step[s].tries < MaxAttempts
      BY <1>5, <1>11, <2>1 DEF Retries
    <3> QED
      BY <1>7, <1>11, <2>1, <3>1 DEF Tried
  <2>2. CASE ~Retries(r, s, failure)
    BY <1>7, <1>11, <2>2 DEF Tried
  <2> QED
    BY <2>1, <2>2
<1>13. ASSUME Counted PROVE MadeStep(s)' /\ MadeCalls'
  <2>1. /\ made[s] >= 1 /\ p.step[s].tries <= made[s] /\ p.step[s].tries # NoInfo
    BY <1>2, <1>13 DEF MadeCalls, MadeStep
  <2>2. p'.step[s].tries <= made[s] /\ p'.step[s].tries # NoInfo /\ p'.step[s].tries \in Nat
    BY <1>7, <1>11, <2>1 DEF NoInfo
  <2>3. MadeStep(s)'
    BY <1>3, <1>7, <1>10, <1>11, <2>2 DEF MadeStep
  <2>4. failure = "transient" /\ ~Retries(r, s, failure) => made[s] >= MaxAttempts
    BY <1>5, <1>11, <2>1 DEF Retries
  <2>5. MadeCalls'
    BY <1>1, <1>3, <1>7, <2>4 DEF MadeCalls
  <2> QED
    BY <2>3, <2>5
<1> QED
  BY <1>8, <1>9, <1>12, <1>13, TickPost
\* The collector's answers, as the run's record keeps them.
LEMMA AnswersAre ==
  ASSUME NEW r \in RunRecord, NEW b \in BOOLEAN
  PROVE  /\ Accepted(r) \in RunRecord /\ ~Accepted(r).error /\ ~Accepted(r).rejected
         /\ Accepted(r).status = IF r.status = "completed" THEN r.status ELSE "running"
         /\ Accepted(r).attempted = r.attempted /\ Accepted(r).settled = r.settled
         /\ Unaccepted(r, b) \in RunRecord
         /\ r.status = "completed" => Unaccepted(r, b) = r
         /\ r.status # "completed" => /\ Unaccepted(r, b).status = "failed" /\ Unaccepted(r, b).error
                                      /\ Unaccepted(r, b).rejected = (b \/ r.rejected)
                                      /\ Unaccepted(r, b).attempted = r.attempted
                                      /\ Unaccepted(r, b).settled = r.settled
  BY DEF Accepted, Unaccepted, Final, RunRecord

LEMMA DispatchKeeps ==
  ASSUME IInv, Register \/ Recognise \/ Precheck \/ BeginDispatch
  PROVE  IInv'
<1>1. /\ pc = "dispatch" /\ OnlyRun /\ remote' = remote /\ run \in RunRecord /\ RunInv
      /\ remote \in Known \cup {"none", "late"}
  BY DEF Register, Recognise, Precheck, BeginDispatch, IInv, Shape
<1>2. /\ p.status = "running" /\ p \in PipeShape /\ jobs' = jobs
  BY <1>1, CallWorks, OnlyRunIs
<1>4. ASSUME p' = p \/ p' = [p EXCEPT !.bound = TRUE] PROVE p'.status = "running"
  BY <1>2, <1>4 DEF PipeShape
<1>5. ASSUME NEW failure \in Kinds, Undispatched(failure) PROVE p'.status # "terminated" /\ pc' = "idle"
  <2>1. pc' = "idle"
    BY <1>5 DEF Undispatched, Save
  <2>2. p'.status # "terminated"
    BY <1>5 DEF Undispatched, Save, ScheduleOrFail, Mark, PipeShape, StepShape
  <2> QED
    BY <2>1, <2>2
<1>6. "permanent" \in Kinds
  BY DEF Kinds
<1>7. CASE Register
  <2>1. CASE run' = run /\ Undispatched("permanent")
    <3>1. RunInv'
      BY <1>1, <1>5, <1>6, <2>1 DEF RunInv
    <3> QED
      BY <1>1, <1>6, <2>1, <3>1, DispatchFails
  <2>2. CASE run.status = "none" /\ run' = [NoRun EXCEPT !.status = "dispatching"] /\ UNCHANGED <<p, pc>>
    <3>1. /\ run' \in RunRecord /\ run'.status = "dispatching" /\ ~run'.rejected /\ ~run'.settled
      BY <2>2 DEF NoRun, RunRecord
    <3>2. remote = "none"
      BY <1>1, <2>2 DEF RunInv
    <3>3. RunInv'
      BY <1>1, <1>2, <2>2, <3>1, <3>2 DEF RunInv
    <3> QED
      BY <1>1, <2>2, <3>1, <3>3, DispatchGoes
  <2>3. CASE run' = run /\ Save([p EXCEPT !.bound = TRUE])
    <3>1. RunInv'
      BY <1>1, <1>4, <2>3 DEF RunInv, Save
    <3> QED
      BY <1>1, <2>3, <3>1, DispatchGoes DEF Save
  <2> QED
    BY <1>7, <2>1, <2>2, <2>3 DEF Register
<1>8. CASE Recognise
  <2> DEFINE a == Accepted(run)
  <2>1. /\ run' = [a EXCEPT !.attempted = TRUE] /\ Save([p EXCEPT !.bound = TRUE]) /\ remote \in Known
        /\ run.status \in {"failed", "dispatching"}
    BY <1>8 DEF Recognise
  <2>2. /\ a \in RunRecord /\ ~a.rejected /\ a.status = "running" /\ a.settled = run.settled
    BY <1>1, <2>1, AnswersAre
  <2> HIDE DEF a
  <2>3. run' \in RunRecord /\ ~run'.rejected /\ run'.status = "running" /\ run'.attempted /\ run'.settled = run.settled
    BY <2>1, <2>2 DEF RunRecord
  <2>4. RunInv'
    BY <1>1, <1>4, <2>1, <2>3 DEF RunInv, Save, Known
  <2> QED
    BY <1>1, <2>1, <2>3, <2>4, DispatchGoes DEF Save
<1>9. CASE Precheck
  <2>1. PICK failure \in Kinds : run' = Unaccepted(run, FALSE) /\ Undispatched(failure)
                                 /\ run.status \in {"failed", "dispatching"}
    BY <1>9 DEF Precheck
  <2>2. /\ run' \in RunRecord /\ run'.status = "failed" /\ run'.error /\ (run'.rejected => run.rejected)
        /\ run'.attempted = run.attempted /\ run'.settled = run.settled
    <3>1. FALSE \in BOOLEAN
      OBVIOUS
    <3> QED
      BY <1>1, <2>1, <3>1, AnswersAre
  <2>3. RunInv'
    BY <1>1, <1>5, <2>1, <2>2 DEF RunInv
  <2> QED
    BY <1>1, <2>1, <2>2, <2>3, DispatchFails
<1>10. CASE BeginDispatch
  <2>1. /\ run' = [run EXCEPT !.status = "dispatching", !.attempted = TRUE, !.rejected = FALSE,
                              !.error = IF run.status = "failed" THEN FALSE ELSE @]
        /\ pc' = (IF Unsent THEN "sent" ELSE "resent") /\ p' = p
        /\ run.status \in {"failed", "dispatching"}
    BY <1>10 DEF BeginDispatch
  <2>2. /\ run' \in RunRecord /\ run'.status = "dispatching" /\ run'.attempted /\ ~run'.rejected
        /\ run'.settled = run.settled
    BY <1>1, <2>1 DEF RunRecord
  <2>3. Unsent => remote = "none"
    BY <1>1 DEF Unsent, RunInv
  <2>4. RunInv'
    BY <1>1, <1>2, <2>1, <2>2, <2>3 DEF RunInv
  <2> QED
    BY <1>1, <2>1, <2>2, <2>4, DispatchGoes
<1> QED
  BY <1>7, <1>8, <1>9, <1>10

LEMMA AnswerKeeps ==
  ASSUME IInv, Answer
  PROVE  IInv'
<1>1. /\ pc \in {"sent", "resent"} /\ OnlyRun /\ run \in RunRecord /\ RunInv
      /\ remote \in Known \cup {"none", "late"}
  BY DEF Answer, IInv, Shape
<1>2. /\ p.status = "running" /\ p \in PipeShape /\ jobs' = jobs
  BY <1>1, CallWorks, OnlyRunIs
<1>3. /\ run.attempted /\ ~run.rejected /\ (run.status = "dispatching" \/ run.settled)
      /\ (run.settled => remote = "ended") /\ (run.status = "completed" => run.settled)
      /\ (pc = "sent" => remote = "none")
  BY <1>1 DEF RunInv
<1>4. ASSUME NEW failure \in Kinds, Undispatched(failure) PROVE p'.status # "terminated" /\ pc' = "idle"
  <2>1. pc' = "idle"
    BY <1>4 DEF Undispatched, Save
  <2>2. p'.status # "terminated"
    BY <1>4 DEF Undispatched, Save, ScheduleOrFail, Mark, PipeShape, StepShape
  <2> QED
    BY <2>1, <2>2
<1>5. Arrived \in Known /\ (remote \in Known => Arrived = remote)
  BY DEF Arrived, Known
<1>6. {"permanent", "transient"} \subseteq Kinds
  BY DEF Kinds
<1>7. CASE run' = Accepted(run) /\ Save([p EXCEPT !.bound = TRUE]) /\ remote' = Arrived
  <2>1. /\ run' \in RunRecord /\ ~run'.rejected /\ run'.attempted = run.attempted /\ run'.settled = run.settled
        /\ run'.status = IF run.status = "completed" THEN run.status ELSE "running"
    BY <1>1, <1>7, AnswersAre
  <2>2. p'.status = "running" /\ pc' = "idle"
    BY <1>2, <1>7 DEF Save, PipeShape
  <2>3. RunInv'
    BY <1>3, <1>5, <1>7, <2>1, <2>2 DEF RunInv, Known
  <2> QED
    BY <1>1, <1>5, <1>7, <2>1, <2>3, DispatchGoes DEF Save
<1>8. ASSUME NEW b \in BOOLEAN, NEW failure \in Kinds, run' = Unaccepted(run, b), Undispatched(failure),
             remote' \in Known \cup {"none", "late"},
             run.settled => remote' = "ended", b => remote' = "none"
      PROVE  IInv'
  <2>1. /\ run' \in RunRecord /\ run'.attempted /\ run'.settled = run.settled
        /\ run'.status = IF run.status = "completed" THEN run.status ELSE "failed"
        /\ run.status # "completed" => run'.error
        /\ run'.rejected => b
    BY <1>1, <1>3, <1>8, AnswersAre
  <2>2. RunInv'
    BY <1>3, <1>4, <1>8, <2>1 DEF RunInv, Known
  <2> QED
    BY <1>1, <1>8, <2>1, <2>2, DispatchFails
<1>9. CASE run' = Unaccepted(run, FALSE) /\ Undispatched("transient") /\ remote' = Arrived
  <2>1. run.settled => remote' = "ended"
    BY <1>3, <1>5, <1>9 DEF Known
  <2>2. remote' \in Known
    BY <1>5, <1>9
  <2> QED
    BY <1>6, <1>8, <1>9, <2>1, <2>2
<1>10. CASE /\ run' = Unaccepted(run, FALSE) /\ Undispatched("transient")
            /\ remote' \in IF "late" \in Faults /\ remote = "none" THEN {"none", "late"} ELSE {remote}
  <2>1. run.settled => remote' = "ended"
    BY <1>3, <1>10
  <2>2. remote' \in Known \cup {"none", "late"}
    BY <1>1, <1>10
  <2> QED
    BY <1>6, <1>8, <1>10, <2>1, <2>2
<1>11. CASE /\ run' = Unaccepted(run, pc = "sent") /\ Undispatched("permanent") /\ remote' = remote
  <2>1. (pc = "sent") \in BOOLEAN
    OBVIOUS
  <2> QED
    BY <1>1, <1>3, <1>6, <1>8, <1>11, <2>1
<1> QED
  BY <1>7, <1>9, <1>10, <1>11 DEF Answer
-----------------------------------------------------------------------------
(* The submission of a job. *)

\* Once the call is made its attempt is counted, whatever came of it.
LEMMA SubmitPost ==
  ASSUME IInv, pc = "submit", NEW s, s = p.current, Post(s), pc' = "idle", UNCHANGED world, Beside, Try(s),
         jobs' \in Seq(JobRecord), OnlyJobsOf(s),
         p'.step[s].jobs \cup p'.step[s].previous \subseteq 1..Len(jobs'), p'.step[s].last \in 0..Len(jobs'),
         Tried(p'.step[s]), Counted => p'.step[s].tries = p.step[s].tries, p'.step[s].status # "pending",
         p'.step[s].status = "running" => p'.status = "running", U(s)' \subseteq U(s),
         p'.status = "failed" /\ p'.error = "transient" /\ Counted => p.step[s].tries >= MaxAttempts
  PROVE  IInv'
<1>1. /\ Standing(s) /\ Live /\ ~release /\ p.status = "running" /\ p \in PipeShape
      /\ p.step[s].status = "running" /\ Loose(p.step[s], s) /\ s \in StepIds
      /\ (Counted => MadeStep(s) /\ MadeCalls)
  BY CallWorks
<1>2. s \in JobSteps \cup (StepIds \cap {"cot"})
  BY DEF IInv, CallInv
<1>3. /\ plan' = plan /\ crashes' = crashes /\ grants' = grants /\ head' = head /\ release' = release
      /\ run' = run /\ remote' = remote /\ (Q' <=> Q)
  BY DEF world, Beside, Q
<1>4. /\ made'[s] = made[s] + 1 /\ made' \in [StepIds -> Nat] /\ \A t \in StepIds \ {s} : made'[t] = made[t]
      /\ made[s] \in Nat
  <2>1. made \in [StepIds -> Nat]
    BY DEF IInv, Shape
  <2> QED
    BY <1>1, <2>1 DEF Try
<1>5. Shape'
  <2>1. StepIds' = StepIds /\ JobSteps' = JobSteps /\ PipeShape' = PipeShape /\ JobRecord' = JobRecord
    BY <1>3, PlanKept
  <2> QED
    BY <1>3, <1>4, <2>1 DEF IInv, Shape, Post, world, Beside
<1>6. RunInv'
  <2>1. p'.status # "terminated"
    BY DEF Post
  <2> QED
    BY <1>3, <2>1, RunKept
<1>7. Ticks(s)
  <2>1. Calls(s)
    BY DEF Calls
  <2>2. s # "publication"
    BY <1>2 DEF JobSteps
  <2> QED
    BY <1>1, <1>3, <1>4, <2>1, <2>2 DEF Ticks
<1>8. ASSUME Counted PROVE MadeStep(s)' /\ MadeCalls'
  <2>1. /\ p.step[s].tries # NoInfo /\ p.step[s].tries <= made[s] + 1 /\ p.step[s].tries >= 1
        /\ (Q => U(s) = {}) /\ (crashes = 0 => U(s) = {}) /\ p.step[s].tries \in Int
    BY <1>1, <1>2, <1>8 DEF Loose, MadeStep, MadeCalls, JobSteps
  <2>2. /\ p'.step[s].tries # NoInfo /\ p'.step[s].tries >= 1 /\ made'[s] \in Nat
        /\ p'.step[s].tries \in Int /\ p'.step[s].tries <= made'[s]
    BY <1>4, <1>8, <2>1
  <2>3. (Q => U(s)' = {}) /\ (crashes = 0 => U(s)' = {})
    BY <2>1
  <2>4. MadeStep(s)'
    BY <1>3, <2>2, <2>3 DEF MadeStep
  <2>5. p'.status = "failed" /\ p'.error = "transient" => made'[s] >= MaxAttempts
    BY <1>4, <1>8, <2>1, PipelineAssumption
  <2>6. MadeCalls'
    BY <2>5 DEF MadeCalls, Post
  <2> QED
    BY <2>4, <2>6
<1> QED
  BY <1>5, <1>6, <1>7, <1>8, TickPost

\* The record that is submitted, and one to which jobs are bound.
LEMMA SubmittedIs ==
  ASSUME IInv, pc = "submit"
  PROVE  LET s == p.current
         IN  /\ Base(Submitted, s) /\ Submitted.status = "running"
             /\ Submitted.step[s].status = "running" /\ Submitted.step[s].jobs = p.step[s].jobs
             /\ Submitted.step[s].previous = p.step[s].previous /\ Submitted.step[s].last = p.step[s].last
             /\ Submitted.step[s].tries = p.step[s].tries
<1> DEFINE s == p.current
           st == [p.step[s] EXCEPT !.retry = FALSE]
<1>1. /\ p.status = "running" /\ p \in PipeShape /\ p.step[s].status = "running" /\ Base(p, s) /\ s \in StepIds
  BY CallWorks
<1>2. p.step[s] \in StepShape
  BY <1>1 DEF PipeShape
<1>3. /\ st \in StepShape /\ st.status = "running" /\ st.jobs = p.step[s].jobs
      /\ st.previous = p.step[s].previous /\ st.last = p.step[s].last /\ st.tries = p.step[s].tries
  BY <1>1, <1>2 DEF StepShape
<1>4. Submitted = Put(p, s, st)
  BY <1>1 DEF Submitted, Put, PipeShape
<1> HIDE DEF st, s
<1>5. /\ Submitted \in PipeShape /\ Submitted.step[s] = st
      /\ \A t \in StepIds \ {s} : Submitted.step[t] = p.step[t]
      /\ Submitted.status = p.status /\ Submitted.current = p.current /\ Submitted.wait = p.wait
      /\ Submitted.released = p.released
  BY <1>1, <1>3, <1>4, PutIs
<1> QED
  BY <1>1, <1>3, <1>5 DEF Base, s

WithJobs(q, s, K) == [q EXCEPT !.step[s].jobs = K]
LEMMA WithJobsIs ==
  ASSUME NEW q, NEW s \in StepIds, Base(q, s), q.status = "running", q.step[s].status = "running",
         NEW K \in SUBSET Nat, plan' = plan, p' = WithJobs(q, s, K)
  PROVE  /\ Post(s) /\ p'.status = "running" /\ p'.step[s].status = "running" /\ p'.step[s].jobs = K
         /\ p'.step[s].previous = q.step[s].previous /\ p'.step[s].last = q.step[s].last
         /\ p'.step[s].tries = q.step[s].tries
<1> DEFINE st == [q.step[s] EXCEPT !.jobs = K]
<1>1. q \in PipeShape /\ q.step[s] \in StepShape
  BY DEF Base, PipeShape
<1>2. /\ st \in StepShape /\ st.status = "running" /\ st.jobs = K
      /\ st.previous = q.step[s].previous /\ st.last = q.step[s].last /\ st.tries = q.step[s].tries
  BY <1>1 DEF StepShape
<1>3. p' = Put(q, s, st)
  BY <1>1 DEF Put, PipeShape, WithJobs
<1> HIDE DEF st
<1>4. /\ p' \in PipeShape /\ p'.step[s] = st /\ \A t \in StepIds \ {s} : p'.step[t] = q.step[t]
      /\ p'.status = q.status /\ p'.current = q.current /\ p'.wait = q.wait /\ p'.released = q.released
  BY <1>1, <1>2, <1>3, PutIs
<1> QED
  BY <1>2, <1>4 DEF Post, Base, Unsettled

\* A job is appended to those there are.
LEMMA JobAdded ==
  ASSUME IInv, NEW s, NEW new \in JobRecord, new.step = s, jobs' = Append(jobs, new)
  PROVE  /\ jobs' \in Seq(JobRecord) /\ Len(jobs) \in Nat /\ Len(jobs') = Len(jobs) + 1
         /\ jobs'[Len(jobs')] = new /\ \A j \in 1..Len(jobs) : jobs'[j] = jobs[j]
         /\ DOMAIN jobs' = 1..Len(jobs') /\ OnlyJobsOf(s)
<1>1. jobs \in Seq(JobRecord) /\ Len(jobs) \in Nat
  BY LenProperties DEF IInv, Shape
<1>2. /\ jobs' \in Seq(JobRecord) /\ Len(jobs') = Len(jobs) + 1
      /\ jobs'[Len(jobs) + 1] = new /\ \A j \in 1..Len(jobs) : jobs'[j] = jobs[j]
  BY <1>1, AppendProperties
<1>3. DOMAIN jobs' = 1..Len(jobs')
  BY <1>2, LenProperties
<1>4. \A j \in 1..Len(jobs') : j \in 1..Len(jobs) \/ j = Len(jobs) + 1
  BY <1>1, <1>2
<1> QED
  BY <1>1, <1>2, <1>3, <1>4 DEF OnlyJobsOf

LEMMA EpochIsNat ==
  ASSUME IInv, NEW s \in StepIds
  PROVE  Epoch(s) \in Nat
<1>1. p \in PipeShape /\ jobs \in Seq(JobRecord)
  BY DEF IInv, Shape
<1>2. p.selection \in Nat
  BY <1>1 DEF PipeShape
<1>3. Source(s) \in Nat
  BY SourceIsNat DEF IInv
<1>4. ASSUME Again(s) PROVE jobs[p.step[s].last].epoch \in Nat
  <2>1. p.step[s].last \in 0..Len(jobs) /\ p.step[s].last # 0 /\ Len(jobs) \in Nat
    BY <1>1, <1>4, LenProperties DEF Again, IInv, JobsInv
  <2>2. p.step[s].last \in 1..Len(jobs)
    BY <2>1
  <2>3. jobs[p.step[s].last] \in JobRecord
    BY <1>1, <2>2, ElementOfSeq
  <2> QED
    BY <2>3 DEF JobRecord
<1> QED
  BY <1>2, <1>3, <1>4 DEF Epoch

LEMMA SubmitKeeps ==
  ASSUME IInv, Submit
  PROVE  IInv'
<1> SUFFICES ASSUME NEW s, s = p.current PROVE IInv'
  OBVIOUS
<1>1. /\ pc = "submit" /\ pc' = "idle" /\ Try(s) /\ UNCHANGED world /\ Beside /\ plan' = plan
  BY DEF Submit, SubmitJob, Save, Beside
<1>2. /\ s \in JobSteps \cup (StepIds \cap {"cot"}) /\ p.step[s].jobs = {}
  BY <1>1 DEF IInv, CallInv
<1>3. /\ Loose(p.step[s], s) /\ s \in StepIds /\ Tried(p.step[s]) /\ (Counted => MadeStep(s))
      /\ p.step[s].status = "running" /\ p \in PipeShape
  BY <1>1, CallWorks
<1>4. /\ Base(Submitted, s) /\ Submitted.status = "running"
      /\ Submitted.step[s].status = "running" /\ Submitted.step[s].jobs = p.step[s].jobs
      /\ Submitted.step[s].previous = p.step[s].previous /\ Submitted.step[s].last = p.step[s].last
      /\ Submitted.step[s].tries = p.step[s].tries
  BY <1>1, SubmittedIs
<1>5. jobs \in Seq(JobRecord) /\ Len(jobs) \in Nat /\ DOMAIN jobs = 1..Len(jobs)
  BY LenProperties DEF IInv, Shape
<1>6. s \notin {"correction", "publication", "collection"}
  BY <1>2 DEF JobSteps
<1>7. UOf(p.step[s], s) = U(s)
  BY <1>3 DEF Loose
<1>8. ASSUME jobs' = jobs PROVE jobs' \in Seq(JobRecord) /\ OnlyJobsOf(s)
  BY <1>5, <1>8 DEF OnlyJobsOf
<1>9. ASSUME NEW K \in SUBSET (1..Len(jobs')), p' = WithJobs(Submitted, s, K),
             jobs' \in Seq(JobRecord), OnlyJobsOf(s), Len(jobs') \in Nat,
             \A j \in 1..Len(jobs') : jobs'[j].step = s /\ j \notin K =>
                 j \in 1..Len(jobs) /\ jobs[j].step = s
      PROVE  IInv'
  <2>1. K \in SUBSET Nat
    BY <1>9
  <2>2. /\ Post(s) /\ p'.status = "running" /\ p'.step[s].status = "running" /\ p'.step[s].jobs = K
        /\ p'.step[s].previous = p.step[s].previous /\ p'.step[s].last = p.step[s].last
        /\ p'.step[s].tries = p.step[s].tries
    BY <1>1, <1>3, <1>4, <1>9, <2>1, WithJobsIs
  <2>3. U(s)' \subseteq U(s)
    BY <1>2, <1>9, <2>2 DEF U
  <2>4. p'.step[s].jobs \cup p'.step[s].previous \subseteq 1..Len(jobs') /\ p'.step[s].last \in 0..Len(jobs')
    <3>1. p.step[s].previous \subseteq 1..Len(jobs) /\ p.step[s].last \in 0..Len(jobs)
      BY <1>3 DEF Loose
    <3>2. Len(jobs) <= Len(jobs')
      BY <1>9 DEF OnlyJobsOf
    <3> QED
      BY <1>5, <1>9, <2>2, <3>1, <3>2
  <2>5. Tried(p'.step[s])
    BY <1>3, <2>2 DEF Tried
  <2> QED
    BY <1>1, <1>9, <2>2, <2>3, <2>4, <2>5, SubmitPost
<1>10. CASE SubmitJob(s)
  <2>1. CASE /\ Again(s) /\ jobs' = jobs /\ p' = WithJobs(Submitted, s, {p.step[s].last})
    <3>1. p.step[s].last \in 1..Len(jobs)
      BY <1>3, <1>5, <2>1 DEF Loose, Again
    <3> QED
      BY <1>5, <1>8, <1>9, <2>1, <3>1
  <2>2. CASE /\ jobs' = jobs \/ jobs' = Append(jobs, NewJob(s))
             /\ p' = WithJobs(Submitted, s, {j \in DOMAIN jobs' : jobs'[j].step = s /\ jobs'[j].status = "active"})
    <3> DEFINE K == {j \in DOMAIN jobs' : jobs'[j].step = s /\ jobs'[j].status = "active"}
    <3>1. /\ jobs' \in Seq(JobRecord) /\ OnlyJobsOf(s) /\ Len(jobs') \in Nat /\ DOMAIN jobs' = 1..Len(jobs')
          /\ \A j \in 1..Len(jobs') : jobs'[j].step = s /\ j \notin K =>
                 j \in 1..Len(jobs) /\ jobs[j].step = s
      <4>1. CASE jobs' = jobs
        BY <1>5, <1>8, <4>1
      <4>2. CASE jobs' = Append(jobs, NewJob(s))
        <5>1. NewJob(s) \in JobRecord /\ NewJob(s).step = s /\ NewJob(s).status = "active"
          BY <1>2, <1>3, EpochIsNat DEF NewJob, JobRecord
        <5>2. /\ jobs' \in Seq(JobRecord) /\ Len(jobs') = Len(jobs) + 1
              /\ jobs'[Len(jobs')] = NewJob(s) /\ \A j \in 1..Len(jobs) : jobs'[j] = jobs[j]
              /\ DOMAIN jobs' = 1..Len(jobs') /\ OnlyJobsOf(s)
          BY <4>2, <5>1, JobAdded
        <5>3. Len(jobs') \in K
          BY <1>5, <5>1, <5>2
        <5> HIDE DEF K
        <5>4. \A j \in 1..Len(jobs') : j \in 1..Len(jobs) \/ j = Len(jobs')
          BY <1>5, <5>2
        <5> QED
          BY <1>5, <5>2, <5>3, <5>4
      <4> QED
        BY <2>2, <4>1, <4>2
    <3>2. K \in SUBSET (1..Len(jobs'))
      BY <3>1
    <3> HIDE DEF K
    <3>3. p' = WithJobs(Submitted, s, K)
      BY <2>2 DEF K
    <3> QED
      BY <1>9, <3>1, <3>2, <3>3
  <2> QED
    BY <1>10, <2>1, <2>2 DEF SubmitJob, Save, WithJobs
<1>11. CASE \E failure \in Kinds : p' = ScheduleOrFail(Submitted, s, failure) /\ jobs' = jobs
  <2>1. PICK failure \in Kinds : p' = ScheduleOrFail(Submitted, s, failure) /\ jobs' = jobs
    BY <1>11
  <2>2. Fails(Submitted, s, failure)
    BY <1>1, <1>3, <1>4, <2>1, BaseFails
  <2>3. /\ Post(s) /\ p'.error = failure
        /\ p'.status = IF Retries(Submitted, s, failure) THEN "retry_waiting" ELSE "failed"
        /\ p'.step[s].jobs = p.step[s].jobs /\ p'.step[s].previous = p.step[s].previous
        /\ p'.step[s].last = p.step[s].last /\ p'.step[s].status = p'.status
        /\ p'.step[s].tries = IF Retries(Submitted, s, failure) /\ p.step[s].tries = 0 THEN 1 ELSE p.step[s].tries
    BY <1>4, <2>2 DEF Fails
  <2>4. /\ MaxAttempts \in Nat /\ MaxAttempts >= 2
        /\ p.step[s].tries \in Nat \cup {NoInfo} /\ p.step[s].tries <= MaxAttempts
    BY <1>3, NumbersAre DEF Loose, StepShape
  <2>5. Counted => p.step[s].tries >= 1 /\ p.step[s].tries # NoInfo
    BY <1>3, <1>6 DEF MadeStep
  <2>6. Counted => p'.step[s].tries = p.step[s].tries
    BY <2>3, <2>4, <2>5
  <2>7. U(s)' \subseteq U(s)
    BY <2>1, <2>3 DEF U
  <2>8. Tried(p'.step[s])
    <3>1. CASE Retries(Submitted, s, failure)
      <4>1. p.step[s].tries \in Nat /\ p.step[s].tries < MaxAttempts
        BY <1>4, <2>4, <3>1 DEF Retries
      <4> QED
        BY <2>3, <2>4, <3>1, <4>1 DEF Tried
    <3>2. CASE ~Retries(Submitted, s, failure)
      BY <2>3, <2>4, <3>2 DEF Tried
    <3> QED
      BY <3>1, <3>2
  <2>9. p'.step[s].jobs \cup p'.step[s].previous \subseteq 1..Len(jobs') /\ p'.step[s].last \in 0..Len(jobs')
    BY <1>3, <2>1, <2>3 DEF Loose
  <2>10. failure = "transient" /\ ~Retries(Submitted, s, failure) /\ Counted => p.step[s].tries >= MaxAttempts
    BY <1>4, <1>6, <2>4, <2>5 DEF Retries
  <2>11. p'.step[s].status \in {"failed", "retry_waiting"}
    BY <2>3
  <2>12. p'.status = "failed" /\ p'.error = "transient" /\ Counted => p.step[s].tries >= MaxAttempts
    BY <2>3, <2>10
  <2> QED
    BY <1>1, <1>8, <2>1, <2>3, <2>6, <2>7, <2>8, <2>9, <2>11, <2>12, SubmitPost
<1>12. CASE p' = Done(Submitted, s, "skipped") /\ jobs' = jobs
  <2>1. Submitted \in PipeShape /\ "skipped" \in Closed
    BY <1>4 DEF Base, Closed
  <2>2. Alike(Done(Submitted, s, "skipped"), p') /\ p'.status = "running"
    BY <1>3, <1>4, <1>12, <2>1, DoneAlike
  <2>3. Finishes(Submitted, s, "skipped")
    BY <1>1, <1>3, <1>4, <2>1, <2>2, BaseDone
  <2>4. /\ Post(s) /\ p'.step[s].status = "skipped" /\ p'.step[s].jobs = p.step[s].jobs
        /\ p'.step[s].previous = p.step[s].previous /\ p'.step[s].last = p.step[s].last
        /\ p'.step[s].tries = p.step[s].tries
    BY <1>4, <2>3 DEF Finishes
  <2>5. U(s)' \subseteq U(s) /\ Tried(p'.step[s])
    BY <1>3, <1>12, <2>4 DEF U, Tried
  <2>6. p'.step[s].jobs \cup p'.step[s].previous \subseteq 1..Len(jobs') /\ p'.step[s].last \in 0..Len(jobs')
    BY <1>3, <1>12, <2>4 DEF Loose
  <2>7. /\ p'.status = "running" /\ p'.step[s].status = "skipped" /\ Post(s)
        /\ p'.step[s].tries = p.step[s].tries /\ jobs' \in Seq(JobRecord) /\ OnlyJobsOf(s)
    BY <1>8, <1>12, <2>2, <2>4
  <2> QED
    BY <1>1, <2>5, <2>6, <2>7, SubmitPost
<1>13. \/ SubmitJob(s)
       \/ \E failure \in Kinds : Save(ScheduleOrFail(Submitted, s, IF Refuses(s) THEN "permanent" ELSE failure))
                               /\ jobs' = jobs
       \/ Save(Done(Submitted, s, "skipped")) /\ jobs' = jobs
  BY DEF Submit
<1>14. ASSUME NEW failure \in Kinds,
              Save(ScheduleOrFail(Submitted, s, IF Refuses(s) THEN "permanent" ELSE failure)), jobs' = jobs
       PROVE  IInv'
  <2> DEFINE f == IF Refuses(s) THEN "permanent" ELSE failure
  <2>1. f \in Kinds
    BY DEF Kinds
  <2>2. Save(ScheduleOrFail(Submitted, s, f))
    BY <1>14
  <2> HIDE DEF f
  <2> QED
    BY <1>11, <1>14, <2>1, <2>2 DEF Save
<1>15. Save(Done(Submitted, s, "skipped")) => p' = Done(Submitted, s, "skipped")
  BY DEF Save
<1> QED
  BY <1>10, <1>12, <1>13, <1>14, <1>15
-----------------------------------------------------------------------------
(* The release. *)

LEMMA ScheduleInput ==
  ASSUME NEW q \in PipeShape, NEW s \in StepIds, NEW failure \in Kinds
  PROVE  ScheduleOrFail(q, s, failure).input = q.input
  BY ScheduleIs DEF Failed

\* The release fails, or it is made and its answer is an error.
LEMMA PublishFails ==
  ASSUME IInv, pc = "publish", NEW failure \in Kinds, p' = ScheduleOrFail(p, "publication", failure),
         pc' = "idle", Try("publication"), intent' \in Nat, release' \in BOOLEAN,
         release' => Current(p.input) /\ head # "active",
         UNCHANGED <<jobs, have, run, remote, head, data, clean, conv>>, Beside
  PROVE  IInv'
<1> DEFINE s == "publication"
<1>1. p.current = s
  BY DEF IInv, CallInv
<1>2. /\ Standing(s) /\ Live /\ ~release /\ p.status = "running" /\ p \in PipeShape
      /\ p.step[s].status = "running" /\ Base(p, s) /\ Loose(p.step[s], s) /\ s \in StepIds
      /\ Tried(p.step[s]) /\ (Counted => MadeStep(s) /\ MadeCalls)
  BY <1>1, CallWorks
<1>3. /\ plan' = plan /\ crashes' = crashes /\ grants' = grants /\ (Q' <=> Q) /\ OnlyJobsOf(s)
      /\ Len(jobs) \in Nat
  <2>1. Len(jobs) \in Nat
    BY LenProperties DEF IInv, Shape
  <2> QED
    BY <2>1 DEF Beside, Q, OnlyJobsOf
<1>4. /\ made'[s] = made[s] + 1 /\ made' \in [StepIds -> Nat] /\ \A t \in StepIds \ {s} : made'[t] = made[t]
      /\ made[s] \in Nat
  <2>1. made \in [StepIds -> Nat]
    BY DEF IInv, Shape
  <2> QED
    BY <1>2, <2>1 DEF Try
<1>5. Fails(p, s, failure)
  BY <1>2, <1>3, BaseFails
<1>6. /\ Post(s) /\ p'.error = failure /\ p' \in PipeShape /\ p'.current = s
      /\ p'.status = IF Retries(p, s, failure) THEN "retry_waiting" ELSE "failed"
      /\ p'.step[s].jobs = p.step[s].jobs /\ p'.step[s].previous = p.step[s].previous
      /\ p'.step[s].last = p.step[s].last /\ p'.step[s].status = p'.status
      /\ p'.step[s].tries = IF Retries(p, s, failure) /\ p.step[s].tries = 0 THEN 1 ELSE p.step[s].tries
  BY <1>5 DEF Fails, Post
<1>7. Shape'
  <2>1. StepIds' = StepIds /\ JobSteps' = JobSteps /\ PipeShape' = PipeShape /\ JobRecord' = JobRecord
    BY <1>3, PlanKept
  <2> QED
    BY <1>3, <1>4, <1>6, <2>1 DEF IInv, Shape
<1>8. RunInv'
  <2>1. p'.status # "terminated"
    BY <1>6
  <2> QED
    BY <2>1, RunKept
<1>9. Ticks(s)
  <2>1. Calls(s)
    BY DEF Calls
  <2>2. p'.input = p.input
    BY <1>2, ScheduleInput
  <2>3. release' => Current(p.input)'
    BY <2>2 DEF Current
  <2>4. p'.step[s].status \notin Closed
    BY <1>6 DEF Closed
  <2> QED
    BY <1>1, <1>2, <1>3, <1>4, <1>6, <2>1, <2>3, <2>4 DEF Ticks, Loose
<1>10. U(s)' = {}
  <2>1. U(s) = {}
    BY NoJobsOf DEF JobSteps
  <2>2. U(s)' = U(s)
    BY <1>3, <1>6 DEF U
  <2> QED
    BY <2>1, <2>2
<1>11. /\ MaxAttempts \in Nat /\ MaxAttempts >= 2
       /\ p.step[s].tries \in Nat \cup {NoInfo} /\ p.step[s].tries <= MaxAttempts
  BY <1>2, NumbersAre DEF Loose, StepShape
<1>12. Tried(p'.step[s])
  <2>1. CASE Retries(p, s, failure)
    <3>1. p.step[s].tries \in Nat /\ p.step[s].tries < MaxAttempts
      BY <1>11, <2>1 DEF Retries
    <3> QED
      BY <1>6, <1>11, <2>1, <3>1 DEF Tried
  <2>2. CASE ~Retries(p, s, failure)
    BY <1>6, <1>11, <2>2 DEF Tried
  <2> QED
    BY <2>1, <2>2
<1>13. ASSUME Counted PROVE MadeStep(s)' /\ MadeCalls'
  <2>1. /\ p.step[s].tries <= made[s] + 1 /\ p.step[s].tries # NoInfo /\ p.step[s].tries >= 1
    BY <1>2, <1>13 DEF Loose, MadeStep
  <2>2. p'.step[s].tries <= made'[s] /\ p'.step[s].tries # NoInfo /\ p'.step[s].tries \in Nat
        /\ made'[s] \in Nat
    BY <1>4, <1>6, <1>11, <2>1 DEF NoInfo
  <2>3. MadeStep(s)'
    BY <1>3, <1>6, <1>10, <2>2 DEF MadeStep
  <2>4. failure = "transient" /\ ~Retries(p, s, failure) => made'[s] >= MaxAttempts
    BY <1>4, <1>11, <2>1 DEF Retries
  <2>5. MadeCalls'
    BY <1>3, <1>6, <2>4 DEF MadeCalls
  <2> QED
    BY <2>3, <2>5
<1> QED
  BY <1>7, <1>8, <1>9, <1>12, <1>13, TickPost

\* The batch is released and the pipeline knows it.
LEMMA PublishEnds ==
  ASSUME IInv, pc = "publish", release' = TRUE, p' = Released, pc' = "idle", Try("publication"), intent' \in Nat,
         head # "active", UNCHANGED <<jobs, have, run, remote, head, data, clean, conv>>, Beside
  PROVE  IInv'
<1> DEFINE s == "publication"
           d == Done(p, s, "succeeded")
<1>1. p.current = s
  BY DEF IInv, CallInv
<1>2. /\ p.status = "running" /\ p \in PipeShape /\ s \in StepIds /\ p.wait = "none" /\ Tried(p.step[s])
  BY <1>1, CallWorks DEF Base
<1>3. /\ plan' = plan /\ crashes' = crashes /\ grants' = grants
  BY DEF Beside
<1>4. PICK st \in StepShape :
        /\ d = Put(p, s, st)
        /\ st.status = "succeeded" /\ st.jobs = p.step[s].jobs
        /\ st.previous = p.step[s].previous
        /\ st.tries = p.step[s].tries /\ st.last = p.step[s].last
  BY <1>2, DoneIs DEF StepStatuses
<1>5. /\ d \in PipeShape /\ d.step[s] = st
      /\ \A t \in StepIds \ {s} : d.step[t] = p.step[t]
      /\ d.wait = p.wait /\ d.status = p.status /\ d.current = p.current
  BY <1>2, <1>4, PutIs
<1>6. p' = [d EXCEPT !.released = TRUE]
  BY DEF Released
<1> HIDE DEF d
<1>7. /\ p' \in PipeShape /\ p'.step = d.step /\ p'.released /\ p'.status = "running" /\ p'.wait = "none"
      /\ p'.current = s
  BY <1>1, <1>2, <1>5, <1>6 DEF PipeShape
<1>8. StepIds' = StepIds /\ JobSteps' = JobSteps /\ PipeShape' = PipeShape /\ JobRecord' = JobRecord
  BY <1>3, PlanKept
<1>9. Shape'
  <2>1. made' \in [StepIds -> Nat]
    <3>1. made \in [StepIds -> Nat]
      BY DEF IInv, Shape
    <3> QED
      BY <1>2, <3>1 DEF Try
  <2> QED
    BY <1>3, <1>7, <1>8, <2>1 DEF IInv, Shape
<1>10. ASSUME NEW t \in StepIds
       PROVE  /\ p'.step[t].jobs \cup p'.step[t].previous \subseteq 1..Len(jobs)
              /\ p'.step[t].last \in 0..Len(jobs) /\ Tried(p'.step[t])
  <2>1. /\ p.step[t].jobs \cup p.step[t].previous \subseteq 1..Len(jobs)
        /\ p.step[t].last \in 0..Len(jobs) /\ Tried(p.step[t])
    BY StepsAre
  <2>2. CASE t = s
    BY <1>4, <1>5, <1>7, <2>1, <2>2 DEF Tried
  <2>3. CASE t # s
    BY <1>5, <1>7, <2>1, <2>3
  <2> QED
    BY <2>2, <2>3
<1>11. JobsInv' /\ TriesInv'
  BY <1>8, <1>10 DEF JobsInv, TriesInv, Tried
<1>12. HeadInv' /\ CallInv' /\ MadeInv' /\ WalkInv'
  BY <1>7 DEF HeadInv, CallInv, MadeInv, Counted, WalkInv, Eff, Live
<1>13. RunInv'
  BY <1>7, RunKept
<1> QED
  BY <1>9, <1>11, <1>12, <1>13 DEF IInv

LEMMA PublishKeeps ==
  ASSUME IInv, Publish
  PROVE  IInv'
<1>1. /\ pc = "publish" /\ pc' = "idle" /\ Try("publication")
      /\ UNCHANGED <<jobs, have, run, remote, head, data, clean, conv>> /\ Beside
  BY DEF Publish, Save
<1>2. /\ ~release /\ intent \in Nat /\ p.selection \in Nat /\ "permanent" \in Kinds
      /\ release \in BOOLEAN
  BY <1>1, CallWorks DEF IInv, Shape, PipeShape, Kinds
<1>3. Admitted => Current(p.input) /\ head # "active"
  BY DEF Admitted, Current
<1>4. CASE Admitted /\ intent' \in {intent, p.selection} /\ release' = TRUE /\ p' = Released
  BY <1>1, <1>2, <1>3, <1>4, PublishEnds
<1>5. CASE /\ Admitted /\ intent' \in {intent, p.selection} /\ release' \in BOOLEAN
           /\ \E failure \in Kinds : p' = ScheduleOrFail(p, "publication", failure)
  BY <1>1, <1>2, <1>3, <1>5, PublishFails
<1>6. CASE p' = ScheduleOrFail(p, "publication", "permanent") /\ release' = release /\ intent' = intent
  BY <1>1, <1>2, <1>6, PublishFails
<1>7. \/ /\ Admitted /\ intent' \in {intent, p.selection}
          /\ \/ release' = TRUE /\ Save(Released)
             \/ release' \in BOOLEAN /\ \E failure \in Kinds : Save(ScheduleOrFail(p, "publication", failure))
      \/ Save(ScheduleOrFail(p, "publication", "permanent")) /\ release' = release /\ intent' = intent
  BY <1>2 DEF Publish
<1>8. \A q : Save(q) => p' = q
  BY DEF Save
<1> QED
  BY <1>4, <1>5, <1>6, <1>7, <1>8
-----------------------------------------------------------------------------
(* What a person asks for. *)

\* A pause, or its end: the pipeline stands where it stood.
LEMMA SameStanding ==
  ASSUME IInv, pc = "idle", pc' = "idle", UNCHANGED <<jobs, world, made>>, Beside,
         p' \in PipeShape, p'.step = p.step, p'.current = p.current, p'.released = p.released,
         p'.input = p.input, p'.wait = "none" <=> p.wait = "none", Live, Live', Eff' = Eff,
         p'.status \notin {"failed", "terminated"}
  PROVE  IInv'
<1>1. /\ plan' = plan /\ jobs' = jobs /\ made' = made /\ crashes' = crashes /\ grants' = grants
      /\ head' = head /\ release' = release /\ run' = run /\ remote' = remote /\ data' = data
      /\ grants \in Nat /\ made \in [StepIds -> Nat]
  BY DEF world, Beside, IInv, Shape
<1>2. StepIds' = StepIds /\ JobSteps' = JobSteps /\ (\A s, t : Before(s, t)' <=> Before(s, t))
  BY <1>1, PlanKept, BeforeKept
<1>3. Shape'
  BY <1>1, ShapeKept
<1>4. JobsInv' /\ TriesInv'
  BY <1>1, <1>2 DEF IInv, JobsInv, TriesInv, Tried
<1>5. HeadInv'
  <2>1. p'.status \notin {"published_summary_failed", "succeeded"}
    BY DEF Live, TERMINAL
  <2> QED
    BY <1>1, <2>1 DEF IInv, HeadInv, Current
<1>6. p.status \notin TERMINAL
  BY DEF Live
<1>7. WalkInv'
  BY <1>1, <1>2, <1>6 DEF IInv, WalkInv
<1>8. CallInv'
  BY DEF CallInv
<1>9. RunInv'
  BY <1>1, RunKept
<1>10. MadeInv'
  <2>1. ASSUME Counted', NEW s \in StepIds PROVE MadeStep(s)'
    <3>1. MadeStep(s)
      BY <1>1, <2>1 DEF Counted, G, IInv, MadeInv
    <3>2. U(s)' = U(s)
      BY <1>1 DEF U
    <3> QED
      BY <1>1, <3>1, <3>2 DEF MadeStep, Q
  <2>2. MadeCalls'
    BY DEF MadeCalls
  <2> QED
    BY <1>2, <2>1, <2>2 DEF MadeInv
<1> QED
  BY <1>3, <1>4, <1>5, <1>7, <1>8, <1>9, <1>10 DEF IInv

\* A pipeline that a fence holds, or that is given up.
LEMMA HeldStanding ==
  ASSUME IInv, pc = "idle", pc' = "idle", UNCHANGED <<jobs, world, made>>, Beside,
         p' \in PipeShape, p'.step = p.step, p'.released = p.released, p'.wait = "none" <=> p.wait = "none",
         ~Live', p'.status \notin {"published_summary_failed", "succeeded"},
         p'.input = p.input, p'.status = "terminated" => p'.released, p.status \notin TERMINAL
  PROVE  IInv'
<1>1. /\ plan' = plan /\ jobs' = jobs /\ made' = made /\ crashes' = crashes /\ grants' = grants
      /\ head' = head /\ release' = release /\ run' = run /\ remote' = remote /\ data' = data
      /\ grants \in Nat /\ made \in [StepIds -> Nat]
  BY DEF world, Beside, IInv, Shape
<1>2. Shape' /\ RunInv'
  BY <1>1, ShapeKept, RunKept
<1>3. HeadInv'
  BY <1>1 DEF IInv, HeadInv, Current
<1>4. ~p'.released => p'.step["publication"].status \notin Closed
  BY DEF IInv, WalkInv
<1> QED
  BY <1>1, <1>2, <1>3, <1>4, StepsAre, UnlivePost

\* What a request changes of the record.
Asked(q, status, was, w) == [q EXCEPT !.status = status, !.pausedFrom = was, !.wait = w]

LEMMA AskedKeeps ==
  ASSUME IInv, pc = "idle", pc' = "idle", UNCHANGED <<jobs, world, made>>, Beside, Pause \/ Resume \/ Stop
  PROVE  IInv'
<1>1. p \in PipeShape /\ p.pausedFrom \in {"running", "retry_waiting", "waiting_for_correction"}
      /\ p.wait \in Statuses \cup {"none"} /\ p.status \in Statuses
  BY DEF IInv, Shape, PipeShape
<1>2. {"running", "retry_waiting", "waiting_for_correction", "paused", "terminated", "terminating"} \subseteq Statuses
  BY DEF Statuses, TERMINAL
<1>3. CASE Pause
  <2> DEFINE w == IF p.wait = "none" THEN "none" ELSE "paused"
  <2>1. p' = Asked(p, "paused", p.status, w) /\ p.status \in {"running", "retry_waiting", "waiting_for_correction"}
    BY <1>1, <1>3 DEF Pause, Then, Paused, Asked, PipeShape
  <2>2. w \in Statuses \cup {"none"} /\ (w = "none" <=> p.wait = "none")
    BY <1>2
  <2> HIDE DEF w
  <2>3. /\ p' \in PipeShape /\ p'.status = "paused" /\ p'.pausedFrom = p.status /\ p'.wait = w
        /\ p'.step = p.step /\ p'.current = p.current /\ p'.released = p.released /\ p'.input = p.input
    <3>1. p \in PipeShape /\ "paused" \in Statuses /\ w \in Statuses \cup {"none"}
          /\ p.status \in {"running", "retry_waiting", "waiting_for_correction"}
      BY <1>1, <1>2, <2>1, <2>2
    <3> DEFINE r == Asked(p, "paused", p.status, w)
    <3>2. /\ r \in PipeShape /\ r.status = "paused" /\ r.pausedFrom = p.status /\ r.wait = w
          /\ r.step = p.step /\ r.current = p.current /\ r.released = p.released /\ r.input = p.input
      BY <3>1 DEF Asked, PipeShape
    <3>3. p' = r
      BY <2>1
    <3> HIDE DEF r
    <3> QED
      BY <3>2, <3>3
  <2>4. CASE p.wait = "none"
    <3>1. Live /\ Live' /\ Eff' = Eff
      BY <2>1, <2>2, <2>3, <2>4 DEF Live, Eff, TERMINAL
    <3> QED
      BY <2>2, <2>3, <3>1, SameStanding
  <2>5. CASE p.wait # "none"
    <3>1. ~Live' /\ p.status \notin TERMINAL
      BY <2>1, <2>2, <2>3, <2>5 DEF Live, TERMINAL
    <3> QED
      BY <2>2, <2>3, <3>1, HeldStanding
  <2> QED
    BY <2>4, <2>5
<1>4. CASE Resume
  <2> DEFINE w == IF p.wait = "none" THEN "none" ELSE "running"
  <2>1. p' = Asked(p, p.pausedFrom, "running", w) /\ p.status = "paused"
    BY <1>1, <1>4 DEF Resume, Then, Asked, PipeShape
  <2>2. w \in Statuses \cup {"none"} /\ (w = "none" <=> p.wait = "none")
    BY <1>2
  <2> HIDE DEF w
  <2>3. /\ p' \in PipeShape /\ p'.status = p.pausedFrom /\ p'.pausedFrom = "running" /\ p'.wait = w
        /\ p'.step = p.step /\ p'.current = p.current /\ p'.released = p.released /\ p'.input = p.input
    <3>1. p \in PipeShape /\ p.pausedFrom \in Statuses /\ w \in Statuses \cup {"none"}
          /\ "running" \in {"running", "retry_waiting", "waiting_for_correction"}
      BY <1>1, <1>2, <2>1, <2>2
    <3> DEFINE r == Asked(p, p.pausedFrom, "running", w)
    <3>2. /\ r \in PipeShape /\ r.status = p.pausedFrom /\ r.pausedFrom = "running" /\ r.wait = w
          /\ r.step = p.step /\ r.current = p.current /\ r.released = p.released /\ r.input = p.input
      BY <3>1 DEF Asked, PipeShape
    <3>3. p' = r
      BY <2>1
    <3> HIDE DEF r
    <3> QED
      BY <3>2, <3>3
  <2>4. CASE p.wait = "none"
    <3>1. Live /\ Live' /\ Eff' = Eff
      BY <1>1, <2>1, <2>2, <2>3, <2>4 DEF Live, Eff, TERMINAL
    <3> QED
      BY <1>1, <2>2, <2>3, <3>1, SameStanding
  <2>5. CASE p.wait # "none"
    <3>1. ~Live' /\ p.status \notin TERMINAL
      BY <2>1, <2>2, <2>3, <2>5 DEF Live, TERMINAL
    <3> QED
      BY <1>1, <2>2, <2>3, <3>1, HeldStanding
  <2> QED
    BY <2>4, <2>5
<1>5. CASE Stop
  <2> DEFINE status == IF p.released THEN "terminated" ELSE "terminating"
  <2>1. p' = [p EXCEPT !.status = status] /\ p.status \notin TERMINAL
    BY <1>5 DEF Stop
  <2>2. status \in Statuses /\ status \in {"terminated", "terminating"} /\ (status = "terminated" => p.released)
    BY <1>2
  <2> HIDE DEF status
  <2>3. /\ p' \in PipeShape /\ p'.status = status /\ p'.wait = p.wait
        /\ p'.step = p.step /\ p'.released = p.released /\ p'.input = p.input
    BY <1>1, <2>1, <2>2 DEF PipeShape
  <2>4. ~Live'
    BY <2>2, <2>3 DEF Live, TERMINAL
  <2> QED
    BY <2>1, <2>2, <2>3, <2>4, HeldStanding
<1> QED
  BY <1>3, <1>4, <1>5
\* What a person's retry makes of the record.
Resumed(q, s) == [q EXCEPT !.status = "running", !.error = "none", !.step[s] = Restarted(@, 0)]
LEMMA ResumedIs ==
  ASSUME NEW q \in PipeShape, NEW s \in StepIds, Bounded(q.step[s].jobs)
  PROVE  LET r == Resumed(q, s)
         IN  /\ r \in PipeShape /\ r.status = "running" /\ r.error = "none"
             /\ r.current = q.current /\ r.wait = q.wait /\ r.released = q.released /\ r.input = q.input
             /\ \A t \in StepIds \ {s} : r.step[t] = q.step[t]
             /\ r.step[s].status = "pending" /\ r.step[s].jobs = {} /\ r.step[s].tries = 0
             /\ r.step[s].previous = q.step[s].previous \cup q.step[s].jobs
             /\ r.step[s].last \in {0} \cup q.step[s].jobs
<1> DEFINE old == q.step[s]
           new == Restarted(old, 0)
           h == Headed(q, "running", "none")
<1>1. old \in StepShape /\ Bounded(old.jobs) /\ 0 \in Nat \cup {NoInfo}
  BY DEF PipeShape
<1>2. Resumed(q, s) = Put(h, s, new)
  BY DEF Resumed, Headed, Put, PipeShape
<1> HIDE DEF old
<1>3. /\ new \in StepShape /\ new.status = "pending" /\ new.jobs = {}
      /\ new.previous = old.previous \cup old.jobs /\ new.tries = 0
      /\ new.last \in {0} \cup old.jobs
  BY <1>1, RestartedIs
<1> HIDE DEF new
<1>4. "running" \in Statuses /\ "none" \in Kinds \cup {"none"}
  BY DEF Statuses
<1>5. /\ h \in PipeShape /\ h.step = q.step /\ h.status = "running" /\ h.error = "none"
      /\ h.current = q.current /\ h.wait = q.wait /\ h.released = q.released /\ h.input = q.input
  BY <1>4, HeadedIs
<1> HIDE DEF h
<1> DEFINE r == Resumed(q, s)
<1>6. /\ r \in PipeShape /\ r.step[s] = new /\ \A t \in StepIds \ {s} : r.step[t] = h.step[t]
      /\ r.status = h.status /\ r.current = h.current /\ r.wait = h.wait
      /\ r.error = h.error /\ r.released = h.released /\ r.input = h.input
  BY <1>2, <1>3, <1>5, PutIs
<1> HIDE DEF r
<1> QED
  BY <1>3, <1>5, <1>6 DEF old, r

LEMMA RetryKeeps ==
  ASSUME IInv, pc = "idle", pc' = "idle", UNCHANGED <<jobs, world>>, plan' = plan, crashes' = crashes, Retry,
         made' = [made EXCEPT ![p.current] = 0], grants' = grants + 1
  PROVE  IInv'
<1> SUFFICES ASSUME NEW s, s = p.current PROVE IInv'
  OBVIOUS
<1>1. /\ p \in PipeShape /\ s \in StepIds /\ grants \in Nat /\ made \in [StepIds -> Nat] /\ crashes \in Nat
      /\ Len(jobs) \in Nat /\ jobs' = jobs
  BY LenProperties DEF IInv, Shape, PipeShape
<1>2. p.status = "failed" /\ p' = Resumed(p, s)
  BY DEF Retry, Resumed
<1>3. /\ p' \in PipeShape /\ p'.status = "running" /\ p'.error = "none"
      /\ p'.current = s /\ p'.wait = p.wait /\ p'.released = p.released /\ p'.input = p.input
      /\ \A t \in StepIds \ {s} : p'.step[t] = p.step[t]
      /\ p'.step[s].status = "pending" /\ p'.step[s].jobs = {} /\ p'.step[s].tries = 0
      /\ p'.step[s].previous = p.step[s].previous \cup p.step[s].jobs
      /\ p'.step[s].last \in {0} \cup p.step[s].jobs
  BY <1>1, <1>2, BoundedJobs, ResumedIs
<1>4. /\ made' \in [StepIds -> Nat] /\ made'[s] = 0 /\ \A t \in StepIds \ {s} : made'[t] = made[t]
      /\ grants' \in Nat /\ grants' # 0
  BY <1>1
<1>5. Shape'
  BY <1>3, <1>4, ShapeKept
<1>6. HeadInv' /\ RunInv'
  <2>1. p'.status # "terminated" /\ UNCHANGED <<run, remote, head, release, data>>
    BY <1>3 DEF world
  <2>2. Current(p.input)' <=> Current(p.input)
    BY <1>3, <2>1 DEF Current
  <2> QED
    BY <1>3, <2>1, <2>2, RunKept DEF IInv, HeadInv, Current
<1>7. ASSUME NEW t \in StepIds
      PROVE  /\ p'.step[t].jobs \cup p'.step[t].previous \subseteq 1..Len(jobs)
             /\ p'.step[t].last \in 0..Len(jobs) /\ Tried(p'.step[t])
  <2>1. /\ p.step[t].jobs \cup p.step[t].previous \subseteq 1..Len(jobs)
        /\ p.step[t].last \in 0..Len(jobs) /\ Tried(p.step[t])
    BY StepsAre
  <2>2. CASE t = s
    <3>1. MaxAttempts \in Nat
      BY PipelineAssumption
    <3> QED
      BY <1>1, <1>3, <2>1, <2>2, <3>1 DEF Tried
  <2>3. CASE t # s
    BY <1>3, <2>1, <2>3
  <2> QED
    BY <2>2, <2>3
<1>8. CASE p.wait # "none"
  <2>1. ~Live'
    BY <1>3, <1>8 DEF Live
  <2>2. ~p'.released /\ p'.status \notin TERMINAL => p'.step["publication"].status \notin Closed
    <3>1. "publication" \in StepIds
      BY PlanFacts DEF IInv, Shape
    <3>2. CASE s = "publication"
      BY <1>3, <3>2 DEF Closed
    <3>3. CASE s # "publication"
      BY <1>2, <1>3, <3>1, <3>3 DEF IInv, WalkInv, TERMINAL
    <3> QED
      BY <3>2, <3>3
  <2> QED
    BY <1>1, <1>5, <1>6, <1>7, <2>1, <2>2, UnlivePost
<1>9. CASE p.wait = "none"
  <2>1. Live /\ Eff = "failed" /\ p.status \notin TERMINAL
    BY <1>2, <1>9 DEF Live, Eff, TERMINAL
  <2>2. /\ ~p.released /\ s # "overview" /\ (release => s = "publication")
        /\ \A t \in StepIds : Before(t, s) => p.step[t].status \in Closed
        /\ \A t \in StepIds : p.step[t].status \in Unsettled => t = s
    BY <2>1 DEF IInv, WalkInv
  <2>3. Standing(s)
    <3>1. s \in StepIds \ {"overview"} /\ ~p.released /\ p.status \notin TERMINAL
      BY <1>1, <2>1, <2>2
    <3>2. \A t \in StepIds \ {s} : p.step[t].status \notin Unsettled
      BY <2>2
    <3> QED
      BY <2>2, <3>1, <3>2 DEF Standing
  <2>4. Post(s)
    BY <1>3, <1>9, <2>2 DEF Post, Unsettled
  <2>5. WalkInv'
    BY <1>3, <2>2, <2>3, <2>4, WalkPost DEF world, Closed
  <2>6. JobsInv' /\ TriesInv'
    <3>1. StepIds' = StepIds
      BY PlanKept
    <3> QED
      BY <1>1, <1>7, <3>1 DEF JobsInv, TriesInv, Tried
  <2>7. CallInv'
    BY DEF CallInv
  <2>8. Counted' => Counted /\ crashes <= 1
    BY <1>4, <2>1, <2>2 DEF Counted, G, world
  <2>9. \A t \in StepIds : U(t)' = U(t)
    <3>1. ASSUME NEW t \in StepIds PROVE U(t)' = U(t)
      <4>1. p'.step[t].previous \cup p'.step[t].jobs = p.step[t].previous \cup p.step[t].jobs
        <5>1. CASE t = s
          BY <1>3, <5>1
        <5>2. CASE t # s
          BY <1>3, <5>2
        <5> QED
          BY <5>1, <5>2
      <4> QED
        BY <1>1, <4>1 DEF U
    <3> QED
      BY <3>1
  <2>10. ASSUME Counted', NEW t \in StepIds PROVE MadeStep(t)'
    <3>1. MadeStep(t) /\ U(t)' = U(t) /\ (Q' => crashes = 0 /\ Q) /\ crashes' = crashes
      BY <1>4, <2>8, <2>9, <2>10 DEF Q, IInv, MadeInv
    <3>2. CASE t = s
      <4>1. Q' => U(t)' = {}
        BY <3>1 DEF MadeStep
      <4>2. p'.step[t].tries # NoInfo /\ p'.step[t].tries <= made'[t] + 0
        BY <1>3, <1>4, <3>2 DEF NoInfo
      <4> QED
        BY <1>3, <3>1, <3>2, <4>1, <4>2 DEF MadeStep
    <3>3. CASE t # s
      <4>1. p'.step[t] = p.step[t] /\ made'[t] = made[t] /\ (pc = "idle" \/ t # p.current)
        BY <1>3, <1>4, <3>3
      <4> QED
        BY <3>1, <4>1 DEF MadeStep
    <3> QED
      BY <3>2, <3>3
  <2>11. MadeCalls'
    BY <1>3 DEF MadeCalls
  <2>12. MadeInv'
    <3>1. StepIds' = StepIds
      BY PlanKept
    <3> QED
      BY <2>10, <2>11, <3>1 DEF MadeInv
  <2> QED
    BY <1>5, <1>6, <2>5, <2>6, <2>7, <2>12 DEF IInv
<1> QED
  BY <1>8, <1>9
\* What a person's retry of the summary makes of the record.
SummaryAgain(q) ==
    [Running(q, "overview") EXCEPT !.status = "running", !.error = "none",
                                   !.step["overview"].tries = 1, !.step["overview"].due = FALSE]
\* The parts of it.
Granted(st, n) == [st EXCEPT !.tries = n, !.due = FALSE]
Regrant(q, s, n) == [q EXCEPT !.step[s].tries = n, !.step[s].due = FALSE]
LEMMA GrantPuts ==
  ASSUME NEW q \in PipeShape, NEW s \in StepIds, NEW n
  PROVE  Regrant(q, s, n) = Put(q, s, Granted(q.step[s], n))
  BY DEF Regrant, Granted, Put, PipeShape, StepShape

LEMMA RetrySummaryKeeps ==
  ASSUME IInv, pc = "idle", pc' = "idle", UNCHANGED <<jobs, have, run, remote, head, data, clean, release, intent>>,
         plan' = plan, crashes' = crashes, RetrySummary, conv' = Sent(TRUE),
         made' = [made EXCEPT !["overview"] = 1], grants' = grants + 1
  PROVE  IInv'
<1> DEFINE s == "overview"
           b == OnGoing(p)
           new == Granted(b.step[s], 1)
<1>1. /\ p \in PipeShape /\ s \in StepIds /\ grants \in Nat /\ made \in [StepIds -> Nat]
      /\ MaxAttempts \in Nat /\ MaxAttempts >= 2
  BY PlanFacts, PipelineAssumption DEF IInv, Shape
<1>2. p.status = "published_summary_failed" /\ p' = SummaryAgain(p)
  BY DEF RetrySummary, SummaryAgain
<1>3. p.released /\ release /\ p.current = s /\ p.wait = "none"
  BY <1>2 DEF IInv, HeadInv
<1>4. LateBase(p)
  <2>1. ASSUME NEW t \in StepIds
        PROVE  /\ p.step[t].jobs \cup p.step[t].previous \subseteq 1..Len(jobs)
               /\ p.step[t].last \in 0..Len(jobs) /\ Tried(p.step[t])
    BY StepsAre
  <2>2. p.step[s].tries <= MaxAttempts
    BY <1>1, <2>1 DEF Tried
  <2> QED
    BY <1>1, <1>3, <2>1, <2>2 DEF LateBase
<1>5. LateBase(b) /\ b.status = "running" /\ b.step[s].status = "running"
  BY <1>4, OnGoingIs
<1>6. b \in PipeShape /\ b.step[s] \in StepShape
  BY <1>1, <1>5 DEF LateBase, PipeShape
<1>7. p' = Regrant(b, s, 1)
  <2>1. Running(p, s) \in PipeShape
    BY <1>1, RunningIs, PutIs
  <2> DEFINE r == Running(p, s)
  <2>2. /\ b = [r EXCEPT !.status = "running", !.error = "none"]
        /\ p' = [r EXCEPT !.status = "running", !.error = "none",
                          !.step[s].tries = 1, !.step[s].due = FALSE]
    BY <1>2 DEF OnGoing, SummaryAgain
  <2> HIDE DEF b, r
  <2> QED
    BY <1>1, <2>1, <2>2 DEF Regrant, PipeShape, StepShape, r
<1> HIDE DEF b
<1>8. /\ new \in StepShape /\ new.jobs = b.step[s].jobs /\ new.tries = 1 /\ new.status = "running"
      /\ new.previous = b.step[s].previous /\ new.last = b.step[s].last
  BY <1>5, <1>6 DEF StepShape, Granted
<1>9. p' = Put(b, s, new)
  BY <1>1, <1>6, <1>7, GrantPuts
<1> HIDE DEF new
<1>10. LateBase(Put(b, s, new)) /\ Put(b, s, new).step[s] = new /\ Put(b, s, new).status = b.status
  <2>1. new.tries <= MaxAttempts
    BY <1>1, <1>8
  <2> QED
    BY <1>5, <1>8, <2>1, LatePut
<1>11. LateBase(p)' /\ p'.step[s] = new /\ p'.status = "running" /\ p' \in PipeShape
  <2>1. StepIds' = StepIds /\ PipeShape' = PipeShape
    BY PlanKept
  <2>2. \E r : r = Put(b, s, new) /\ p' = r /\ LateBase(r) /\ r.step[s] = new /\ r.status = b.status
    BY <1>9, <1>10
  <2> QED
    BY <1>5, <2>1, <2>2 DEF LateBase, Tried
<1>12. Tried(p'.step[s])
  BY <1>1, <1>8, <1>11 DEF Tried
<1>13. Shape'
  <2>1. StepIds' = StepIds /\ JobSteps' = JobSteps /\ PipeShape' = PipeShape /\ JobRecord' = JobRecord
    BY PlanKept
  <2>2. conv' \in Kinds \cup {"none", "running", "succeeded"}
    BY DEF IInv, Shape, Sent
  <2>3. made' \in [StepIds -> Nat] /\ grants' \in Nat
    BY <1>1
  <2> QED
    BY <1>11, <2>1, <2>2, <2>3 DEF IInv, Shape
<1> QED
  BY <1>3, <1>9, <1>10, <1>11, <1>12, <1>13, LatePost

\* What a confirmed correction makes of the record.
Confirming(q) == [q EXCEPT !.confirmed = TRUE, !.status = "running", !.step["correction"].status = "succeeded"]
LEMMA ConfirmingIs ==
  ASSUME NEW q \in PipeShape, "correction" \in StepIds
  PROVE  LET r == Confirming(q)
         IN  /\ r \in PipeShape /\ r.status = "running" /\ r.current = q.current /\ r.wait = q.wait
             /\ r.released = q.released /\ r.input = q.input
             /\ \A t \in StepIds \ {"correction"} : r.step[t] = q.step[t]
             /\ r.step["correction"].status = "succeeded"
             /\ r.step["correction"].jobs = q.step["correction"].jobs
             /\ r.step["correction"].previous = q.step["correction"].previous
             /\ r.step["correction"].last = q.step["correction"].last
             /\ r.step["correction"].tries = q.step["correction"].tries
<1> DEFINE s == "correction"
           new == [q.step[s] EXCEPT !.status = "succeeded"]
           h == [q EXCEPT !.confirmed = TRUE, !.status = "running"]
<1>1. q.step[s] \in StepShape
  BY DEF PipeShape
<1>2. /\ new \in StepShape /\ new.status = "succeeded" /\ new.jobs = q.step[s].jobs
      /\ new.previous = q.step[s].previous /\ new.last = q.step[s].last /\ new.tries = q.step[s].tries
  BY <1>1 DEF StepShape, StepStatuses
<1>3. Confirming(q) = Put(h, s, new)
  BY DEF Confirming, Put, PipeShape
<1> HIDE DEF new
<1>4. /\ h \in PipeShape /\ h.step = q.step /\ h.status = "running"
      /\ h.current = q.current /\ h.wait = q.wait /\ h.released = q.released /\ h.input = q.input
  BY DEF PipeShape, Statuses
<1> HIDE DEF h
<1> DEFINE r == Confirming(q)
<1>5. /\ r \in PipeShape /\ r.step[s] = new /\ \A t \in StepIds \ {s} : r.step[t] = h.step[t]
      /\ r.status = h.status /\ r.current = h.current /\ r.wait = h.wait
      /\ r.released = h.released /\ r.input = h.input
  BY <1>2, <1>3, <1>4, PutIs
<1> HIDE DEF r
<1> QED
  BY <1>2, <1>4, <1>5 DEF r

LEMMA ConfirmKeeps ==
  ASSUME IInv, pc = "idle", pc' = "idle", UNCHANGED <<jobs, world, made>>, Beside, Confirm
  PROVE  IInv'
<1> DEFINE s == "correction"
<1>1. /\ p \in PipeShape /\ {s, "publication"} \subseteq StepIds /\ Len(jobs) \in Nat /\ jobs' = jobs
      /\ plan' = plan /\ crashes' = crashes /\ grants' = grants /\ made' = made /\ grants \in Nat
      /\ made \in [StepIds -> Nat]
  BY PlanFacts, LenProperties DEF IInv, Shape, Beside
<1>2. p.status = "waiting_for_correction" /\ p' = Confirming(p)
  BY DEF Confirm, Confirming
<1>3. /\ p' \in PipeShape /\ p'.status = "running" /\ p'.current = p.current /\ p'.wait = p.wait
      /\ p'.released = p.released /\ p'.input = p.input
      /\ \A t \in StepIds \ {s} : p'.step[t] = p.step[t]
      /\ p'.step[s].status = "succeeded"
      /\ p'.step[s].jobs = p.step[s].jobs /\ p'.step[s].previous = p.step[s].previous
      /\ p'.step[s].last = p.step[s].last /\ p'.step[s].tries = p.step[s].tries
  BY <1>1, <1>2, ConfirmingIs
<1>4. Shape'
  BY <1>1, <1>3, ShapeKept
<1>5. HeadInv' /\ RunInv'
  <2>1. p'.status # "terminated" /\ UNCHANGED <<run, remote, head, release, data>>
    BY <1>3 DEF world
  <2>2. Current(p.input)' <=> Current(p.input)
    BY <1>3, <2>1 DEF Current
  <2> QED
    BY <1>3, <2>1, <2>2, RunKept DEF IInv, HeadInv, Current
<1>6. ASSUME NEW t \in StepIds
      PROVE  /\ p'.step[t].jobs \cup p'.step[t].previous \subseteq 1..Len(jobs)
             /\ p'.step[t].last \in 0..Len(jobs) /\ Tried(p'.step[t])
  <2>1. /\ p.step[t].jobs \cup p.step[t].previous \subseteq 1..Len(jobs)
        /\ p.step[t].last \in 0..Len(jobs) /\ Tried(p.step[t])
    BY StepsAre
  <2>2. CASE t = s
    BY <1>3, <2>1, <2>2 DEF Tried
  <2>3. CASE t # s
    BY <1>3, <2>1, <2>3
  <2> QED
    BY <2>2, <2>3
<1>7. CASE p.wait # "none"
  <2>1. ~Live'
    BY <1>3, <1>7 DEF Live
  <2>2. ~p'.released /\ p'.status \notin TERMINAL => p'.step["publication"].status \notin Closed
    BY <1>1, <1>2, <1>3 DEF IInv, WalkInv, TERMINAL
  <2> QED
    BY <1>1, <1>4, <1>5, <1>6, <2>1, <2>2, UnlivePost
<1>8. CASE p.wait = "none"
  <2>1. Live /\ Eff = "waiting_for_correction" /\ p.status \notin TERMINAL
    BY <1>2, <1>8 DEF Live, Eff, TERMINAL
  <2>2. ~p.released
    BY <2>1 DEF IInv, WalkInv
  <2>3. /\ p.current = s /\ p.step[s].status = "waiting" /\ ~release
        /\ \A t \in StepIds : Before(t, s) => p.step[t].status \in Closed
    BY <2>1, <2>2 DEF IInv, WalkInv
  <2>4. \A t \in StepIds \ {s} : p.step[t].status \notin Unsettled
    BY <2>1, <2>2, <2>3 DEF IInv, WalkInv
  <2>5. Standing(s)
    BY <1>1, <2>1, <2>2, <2>3, <2>4 DEF Standing
  <2>6. Post(s)
    BY <1>1, <1>3, <1>8, <2>2, <2>3 DEF Post, Unsettled
  <2>7. Calls(s)
    BY DEF Calls
  <2>8. ASSUME Counted PROVE MadeStep(s)' /\ MadeCalls'
    <3>1. MadeStep(s)
      BY <1>1, <2>8 DEF IInv, MadeInv
    <3>2. U(s)' = U(s) /\ (Q' <=> Q)
      BY <1>1, <1>3 DEF U, Q
    <3>3. p.step[s].tries \in Int /\ made[s] \in Nat
      BY <1>1, NumbersAre
    <3>4. p.step[s].tries <= made[s] + 1
      BY <2>3, <3>1 DEF MadeStep
    <3>5. MadeStep(s)'
      BY <1>1, <1>3, <2>3, <3>1, <3>2, <3>3, <3>4 DEF MadeStep
    <3> QED
      BY <1>3, <3>5 DEF MadeCalls
  <2> QED
    BY <1>1, <1>3, <1>6, <2>1, <2>3, <2>5, <2>6, <2>7, <2>8, WalkPosts
<1> QED
  BY <1>7, <1>8

LEMMA ControlKeeps ==
  ASSUME IInv, Control
  PROVE  IInv'
<1>1. /\ pc = "idle" /\ pc' = "idle"
      /\ UNCHANGED <<plan, jobs, crashes, have, run, remote, head, data, clean, release, intent>>
  BY DEF Control, LockFree
<1>2. CASE (Pause \/ Resume \/ Stop \/ Confirm) /\ UNCHANGED <<conv, made, grants>>
  <2>1. UNCHANGED <<jobs, world, made>> /\ Beside
    BY <1>1, <1>2 DEF world, Beside
  <2> QED
    BY <1>1, <1>2, <2>1, AskedKeeps, ConfirmKeeps
<1>3. CASE Retry /\ made' = [made EXCEPT ![p.current] = 0] /\ grants' = grants + 1 /\ UNCHANGED conv
  <2>1. UNCHANGED <<jobs, world>>
    BY <1>1, <1>3 DEF world
  <2> QED
    BY <1>1, <1>3, <2>1, RetryKeeps
<1>4. CASE RetrySummary /\ conv' = Sent(TRUE) /\ grants' = grants + 1 /\ made' = [made EXCEPT !["overview"] = 1]
  BY <1>1, <1>4, RetrySummaryKeeps
<1> QED
  BY <1>2, <1>3, <1>4 DEF Control-----------------------------------------------------------------------------
(* What goes on beside the pipeline, and a restart. *)

\* The jobs stay, whatever becomes of them.
SameJobs(js, ks) ==
    /\ Len(js) \in Nat /\ Len(ks) = Len(js)
    /\ \A j \in 1..Len(js) : ks[j].step = js[j].step /\ (ks[j].status = "active" => js[j].status = "active")

LEMMA JobChanged ==
  ASSUME jobs \in Seq(JobRecord), NEW j \in DOMAIN jobs, NEW status \in {"succeeded"} \cup Kinds,
         jobs' = [jobs EXCEPT ![j].status = status]
  PROVE  jobs' \in Seq(JobRecord) /\ SameJobs(jobs, jobs')
<1> DEFINE new == [jobs[j] EXCEPT !.status = status]
<1>1. Len(jobs) \in Nat /\ DOMAIN jobs = 1..Len(jobs) /\ jobs[j] \in JobRecord
  BY LenProperties, ElementOfSeq
<1>2. new \in JobRecord /\ new.step = jobs[j].step /\ new.status = status
  BY <1>1 DEF JobRecord
<1>3. jobs' = [jobs EXCEPT ![j] = new]
  OBVIOUS
<1> HIDE DEF new
<1>4. /\ jobs' \in Seq(JobRecord) /\ Len(jobs') = Len(jobs)
      /\ \A i \in 1..Len(jobs) : jobs'[i] = IF i = j THEN new ELSE jobs[i]
  BY <1>1, <1>2, <1>3, ExceptSeq
<1>5. status # "active"
  BY DEF Kinds
<1> QED
  BY <1>1, <1>2, <1>4, <1>5 DEF SameJobs

LEMMA InterruptedIs ==
  ASSUME NEW js \in Seq(JobRecord)
  PROVE  /\ Interrupted(js) \in Seq(JobRecord) /\ SameJobs(js, Interrupted(js))
         /\ \A j \in 1..Len(js) : Interrupted(js)[j].status # "active"
<1> DEFINE ks == Interrupted(js)
<1>1. Len(js) \in Nat /\ DOMAIN js = 1..Len(js)
  BY LenProperties
<1>2. ks = [j \in 1..Len(js) |-> IF js[j].status = "active"
                                 THEN [js[j] EXCEPT !.status = "transient"] ELSE js[j]]
  BY <1>1 DEF Interrupted
<1>3. ASSUME NEW j \in 1..Len(js)
      PROVE  ks[j] \in JobRecord /\ ks[j].step = js[j].step /\ ks[j].status # "active"
  <2>1. js[j] \in JobRecord
    BY ElementOfSeq
  <2>2. ks[j] = IF js[j].status = "active" THEN [js[j] EXCEPT !.status = "transient"] ELSE js[j]
    BY <1>2
  <2> HIDE DEF ks
  <2>3. CASE js[j].status = "active"
    <3> DEFINE new == [js[j] EXCEPT !.status = "transient"]
    <3>1. new \in JobRecord /\ new.step = js[j].step /\ new.status = "transient"
      BY <2>1 DEF JobRecord, Kinds
    <3>2. ks[j] = new
      BY <2>2, <2>3
    <3> HIDE DEF new
    <3> QED
      BY <3>1, <3>2
  <2>4. CASE js[j].status # "active"
    BY <2>1, <2>2, <2>4
  <2> QED
    BY <2>3, <2>4
<1>4. ks \in [1..Len(js) -> JobRecord] /\ DOMAIN ks = 1..Len(js)
  BY <1>2, <1>3
<1> HIDE DEF ks
<1>5. ks \in Seq(JobRecord)
  BY <1>1, <1>4, SeqDef
<1>6. Len(ks) = Len(js)
  <2>1. Len(ks) \in Nat /\ DOMAIN ks = 1..Len(ks)
    BY <1>5, LenProperties
  <2> QED
    BY <1>1, <1>4, <2>1
<1> QED
  BY <1>1, <1>3, <1>5, <1>6 DEF SameJobs, ks

LEMMA ActiveLess ==
  ASSUME jobs \in Seq(JobRecord), jobs' \in Seq(JobRecord), SameJobs(jobs, jobs'),
         run'.status \in {"dispatching", "running"} => run.status \in {"dispatching", "running"}
  PROVE  ActiveJobs' => ActiveJobs
<1>1. DOMAIN jobs = 1..Len(jobs) /\ DOMAIN jobs' = 1..Len(jobs')
  BY LenProperties
<1> QED
  BY <1>1 DEF ActiveJobs, Active, SameJobs

\* The pipeline's record and its tick are where they were.
LEMMA BesideKeeps ==
  ASSUME IInv, p' = p, plan' = plan, pc' = pc, release' = release, made' = made, crashes' = crashes,
         grants' = grants \/ grants' = grants + 1, SameJobs(jobs, jobs'), Shape', RunInv',
         head' = "none" => head = "none", release => head' = head /\ data' = data
  PROVE  IInv'
<1>1. StepIds' = StepIds /\ JobSteps' = JobSteps /\ (\A s, t : Before(s, t)' <=> Before(s, t))
  BY PlanKept, BeforeKept
<1>2. Len(jobs) \in Nat /\ Len(jobs') = Len(jobs) /\ \A j \in 1..Len(jobs) : jobs'[j].step = jobs[j].step
  BY DEF SameJobs
<1>3. JobsInv' /\ TriesInv'
  BY <1>1, <1>2 DEF IInv, JobsInv, TriesInv, Tried
<1>4. HeadInv'
  BY DEF IInv, HeadInv, Current
<1>5. WalkInv' /\ CallInv'
  BY <1>1 DEF IInv, WalkInv, CallInv, Live, Eff
<1>6. \A s : U(s)' = U(s)
  BY <1>2 DEF U
<1>7. grants \in Nat /\ (G' => G) /\ (Q' => Q) /\ (Live' <=> Live)
  <2>1. grants \in Nat
    BY DEF IInv, Shape
  <2> QED
    BY <2>1 DEF G, Q, Live
<1>8. MadeInv'
  <2>1. Counted' => Counted
    BY <1>7 DEF Counted
  <2>2. ASSUME Counted, NEW s \in StepIds PROVE MadeStep(s)'
    <3>1. MadeStep(s)
      BY <2>2 DEF IInv, MadeInv
    <3>2. U(s)' = U(s)
      BY <1>6
    <3> QED
      BY <1>7, <3>1, <3>2 DEF MadeStep
  <2>3. ASSUME Counted PROVE MadeCalls'
    <3>1. MadeCalls
      BY <2>3 DEF IInv, MadeInv
    <3>2. U(p.current)' = U(p.current)
      BY <1>6
    <3> QED
      BY <1>7, <3>1, <3>2 DEF MadeCalls
  <2> QED
    BY <1>1, <2>1, <2>2, <2>3 DEF MadeInv
<1> QED
  BY <1>3, <1>4, <1>5, <1>8 DEF IInv

LEMMA JobEndsKeeps ==
  ASSUME IInv, NEW j \in DOMAIN jobs, JobEnds(j)
  PROVE  IInv'
<1>1. /\ UNCHANGED <<p, pc, run, remote, head, data, clean, release, intent, conv, made>>
      /\ plan' = plan /\ crashes' = crashes /\ grants' = grants
  BY DEF JobEnds, Beside
<1>2. jobs \in Seq(JobRecord) /\ have \in [JobSteps -> Nat]
  BY DEF IInv, Shape
<1>3. jobs[j] \in JobRecord
  BY <1>2, LenProperties, ElementOfSeq
<1>4. \E status \in {"succeeded"} \cup Kinds : jobs' = [jobs EXCEPT ![j].status = status]
  BY DEF JobEnds, JobSucceeds, JobFails, Kinds
<1>5. jobs' \in Seq(JobRecord) /\ SameJobs(jobs, jobs')
  BY <1>2, <1>4, JobChanged
<1>6. have' \in [JobSteps -> Nat]
  <2>1. have' = have \/ \E s \in JobSteps : have' = [have EXCEPT ![s] = jobs[j].epoch]
    BY <1>3 DEF JobEnds, JobSucceeds, JobFails, JobRecord
  <2>2. jobs[j].epoch \in Nat
    BY <1>3 DEF JobRecord
  <2> QED
    BY <1>2, <2>1, <2>2
<1>7. Shape'
  <2>1. StepIds' = StepIds /\ JobSteps' = JobSteps /\ PipeShape' = PipeShape /\ JobRecord' = JobRecord
    BY <1>1, PlanKept
  <2> QED
    BY <1>1, <1>5, <1>6, <2>1 DEF IInv, Shape
<1>8. RunInv'
  <2>1. ActiveJobs' => ActiveJobs
    BY <1>1, <1>2, <1>5, ActiveLess
  <2> QED
    BY <1>1, <2>1 DEF IInv, RunInv
<1> QED
  BY <1>1, <1>5, <1>7, <1>8, BesideKeeps

LEMMA CollectorKeeps ==
  ASSUME IInv, Collector
  PROVE  IInv'
<1>1. /\ UNCHANGED <<p, pc, jobs, have, release, intent, conv, made>>
      /\ plan' = plan /\ crashes' = crashes /\ grants' = grants
  BY DEF Collector, Beside
<1>2. SameJobs(jobs, jobs') /\ jobs \in Seq(JobRecord)
  <2>1. Len(jobs) \in Nat
    BY LenProperties DEF IInv, Shape
  <2> QED
    BY <1>1, <2>1 DEF SameJobs, IInv, Shape
<1>3. run \in RunRecord /\ data \in Nat /\ remote \in Known \cup {"none", "late"}
  BY DEF IInv, Shape
<1>4. /\ run' \in RunRecord /\ data' \in Nat /\ clean' \in BOOLEAN
      /\ remote' \in Known \cup {"none", "late"} /\ head' \in {"none", "active", "stable"}
      /\ head' = "none" => head = "none"
      /\ release => head' = head /\ data' = data
      /\ run'.status \in {"dispatching", "running"} => run.status \in {"dispatching", "running"}
  <2>1. CASE RemoteEnds
    BY <1>3, <2>1 DEF RemoteEnds, Known, IInv, Shape
  <2>2. CASE Arrives
    BY <1>3, <2>2 DEF Arrives, Known, IInv, Shape
  <2>3. CASE Transfer
    <3>1. PICK status \in {"completed", "failed"} : run' = [run EXCEPT !.status = status, !.settled = TRUE]
      BY <2>3 DEF Transfer
    <3>2. run' \in RunRecord /\ run'.status = status
      BY <1>3, <3>1 DEF RunRecord
    <3>3. ~release /\ remote' = remote /\ head' = head /\ data' \in {1, data} /\ clean' \in BOOLEAN
      BY <2>3 DEF Transfer, IInv, Shape
    <3>4. head \in {"none", "active", "stable"}
      BY DEF IInv, Shape
    <3> QED
      BY <1>3, <3>2, <3>3, <3>4
  <2>4. CASE ResumeCollection
    BY <1>3, <2>4 DEF ResumeCollection, IInv, Shape
  <2>5. CASE Settle
    BY <1>3, <2>5 DEF Settle, IInv, Shape, HeadInv
  <2> QED
    BY <2>1, <2>2, <2>3, <2>4, <2>5 DEF Collector
<1>5. Shape'
  <2>1. StepIds' = StepIds /\ JobSteps' = JobSteps /\ PipeShape' = PipeShape /\ JobRecord' = JobRecord
    BY <1>1, PlanKept
  <2> QED
    BY <1>1, <1>4, <2>1 DEF IInv, Shape
<1>6. RunInv'
  <2>1. ActiveJobs' => ActiveJobs
    BY <1>1, <1>2, <1>4, ActiveLess
  <2>2. CASE RemoteEnds \/ Arrives
    BY <1>1, <2>1, <2>2 DEF RemoteEnds, Arrives, IInv, RunInv
  <2>3. CASE Transfer
    <3>1. PICK status \in {"completed", "failed"} : run' = [run EXCEPT !.status = status, !.settled = TRUE]
      BY <2>3 DEF Transfer
    <3>2. /\ run'.status = status /\ run'.settled /\ run'.error = run.error
          /\ run'.attempted = run.attempted /\ run'.rejected = run.rejected
      BY <1>3, <3>1 DEF RunRecord
    <3>3. remote = "ended" /\ remote' = "ended" /\ run.attempted /\ ~run.rejected
      BY <2>3 DEF Transfer
    <3> QED
      BY <1>1, <2>1, <3>2, <3>3 DEF IInv, RunInv
  <2>4. CASE ResumeCollection \/ Settle
    BY <1>1, <2>1, <2>4 DEF ResumeCollection, Settle, IInv, RunInv
  <2> QED
    BY <2>2, <2>3, <2>4 DEF Collector
<1> QED
  BY <1>1, <1>2, <1>4, <1>5, <1>6, BesideKeeps

LEMMA ConversionKeeps ==
  ASSUME IInv, ConversionEnds \/ RetryFromDetails \/ UNCHANGED vars
  PROVE  IInv'
<1>1. /\ UNCHANGED <<plan, p, pc, jobs, have, run, remote, head, data, clean, release, intent, made, crashes>>
      /\ conv' \in {conv, "running", "succeeded"} \cup Kinds
      /\ grants' = grants \/ grants' = grants + 1
  BY DEF ConversionEnds, RetryFromDetails, vars, Beside
<1>2. SameJobs(jobs, jobs')
  <2>1. Len(jobs) \in Nat
    BY LenProperties DEF IInv, Shape
  <2> QED
    BY <1>1, <2>1 DEF SameJobs
<1>3. Shape'
  <2>1. StepIds' = StepIds /\ JobSteps' = JobSteps /\ PipeShape' = PipeShape /\ JobRecord' = JobRecord
    BY <1>1, PlanKept
  <2>2. grants' \in Nat /\ conv' \in Kinds \cup {"none", "running", "succeeded"}
    BY <1>1 DEF IInv, Shape
  <2> QED
    BY <1>1, <2>1, <2>2 DEF IInv, Shape
<1>4. RunInv'
  BY <1>1 DEF IInv, RunInv, ActiveJobs, Active
<1> QED
  BY <1>1, <1>2, <1>3, <1>4, BesideKeeps
\* A restart leaves the jobs as they were, but for one that was being submitted.
LEMMA CrashPost ==
  ASSUME IInv, p' = p, plan' = plan, pc' = "idle", head' = head, data' = data, crashes' = crashes + 1,
         grants' = grants, Shape', RunInv',
         release' => release \/ (pc = "publish" /\ Current(p.input) /\ head # "active"),
         release => release',
         Len(jobs) \in Nat, Len(jobs') \in {Len(jobs), Len(jobs) + 1},
         \A j \in 1..Len(jobs) : jobs'[j].step = jobs[j].step,
         Len(jobs') = Len(jobs) + 1 => /\ pc = "submit" /\ jobs'[Len(jobs) + 1].step = p.current
                                       /\ made'[p.current] = made[p.current] + 1,
         \A s \in StepIds : made[s] \in Nat /\ made'[s] \in Nat /\ made[s] <= made'[s]
  PROVE  IInv'
<1>1. StepIds' = StepIds /\ JobSteps' = JobSteps /\ (\A s, t : Before(s, t)' <=> Before(s, t))
  BY PlanKept, BeforeKept
<1>2. JobsInv' /\ TriesInv'
  <2>1. ASSUME NEW s \in StepIds
        PROVE  /\ p.step[s].jobs \cup p.step[s].previous \subseteq 1..Len(jobs')
               /\ p.step[s].last \in 0..Len(jobs') /\ Tried(p.step[s])
    <3>1. /\ p.step[s].jobs \cup p.step[s].previous \subseteq 1..Len(jobs)
          /\ p.step[s].last \in 0..Len(jobs) /\ Tried(p.step[s])
      BY StepsAre
    <3>2. 1..Len(jobs) \subseteq 1..Len(jobs') /\ 0..Len(jobs) \subseteq 0..Len(jobs')
      OBVIOUS
    <3> QED
      BY <3>1, <3>2
  <2> QED
    BY <1>1, <2>1 DEF JobsInv, TriesInv, Tried
<1>3. pc = "publish" => p.wait = "none" /\ p.current = "publication"
  BY DEF IInv, HeadInv, CallInv
<1>4. HeadInv'
  BY <1>3 DEF IInv, HeadInv, Current
<1>5. WalkInv' /\ CallInv'
  BY <1>1, <1>3 DEF IInv, WalkInv, CallInv, Live, Eff
<1>6. crashes \in Nat /\ crashes' # 0
  BY DEF IInv, Shape
<1>7. Counted' => Counted /\ Q
  BY <1>6 DEF Counted, G, Q, Live
<1>8. Counted => (\A s \in StepIds : MadeStep(s)) /\ MadeCalls
  BY DEF IInv, MadeInv
<1>9. /\ pc \in {"dispatch", "sent", "resent"} => p.current = "collection"
      /\ pc = "submit" => p.step[p.current].jobs = {} /\ p.step[p.current].status = "running"
      /\ pc \in {"idle", "dispatch", "sent", "resent", "submit", "publish"}
  BY DEF IInv, CallInv, Shape
<1>10. ASSUME NEW s \in StepIds
       PROVE  \/ U(s)' = U(s)
              \/ /\ pc = "submit" /\ s = p.current /\ made'[s] = made[s] + 1
                 /\ U(s)' \subseteq U(s) \cup {Len(jobs) + 1}
  <2>1. CASE Len(jobs') = Len(jobs)
    BY <2>1 DEF U
  <2>2. CASE Len(jobs') = Len(jobs) + 1
    <3>1. 1..Len(jobs') = (1..Len(jobs)) \cup {Len(jobs) + 1}
      BY <2>2
    <3>2. CASE s = p.current
      <4>1. U(s)' \subseteq U(s) \cup {Len(jobs) + 1}
        BY <3>1 DEF U
      <4> QED
        BY <2>2, <3>2, <4>1
    <3>3. CASE s # p.current
      BY <2>2, <3>1, <3>3 DEF U
    <3> QED
      BY <3>2, <3>3
  <2> QED
    BY <2>1, <2>2
<1>11. ASSUME Counted', NEW s \in StepIds PROVE MadeStep(s)'
  <2>1. MadeStep(s) /\ MadeCalls /\ Counted /\ Q
    BY <1>7, <1>8, <1>11
  <2>2. /\ p.step[s].tries \in Int /\ made[s] \in Nat /\ made'[s] \in Nat /\ made[s] <= made'[s]
    BY NumbersAre
  <2>3. CASE U(s)' = U(s)
    <3>1. s \in {"preprocessing", "tree", "quality", "cot"} /\ p.step[s].status = "running" /\ U(s) # {}
            => p.step[s].tries <= made[s]
      <4>1. pc = "submit" => U(p.current) = {}
        BY <2>1 DEF MadeCalls
      <4>2. s \in {"preprocessing", "tree", "quality", "cot"} /\ U(s) # {} => pc = "idle" \/ s # p.current
        BY <1>3, <1>9, <4>1
      <4> QED
        BY <2>1, <4>2 DEF MadeStep
    <3>2. /\ p.step[s].tries # NoInfo
          /\ p.step[s].tries <= made'[s] + (IF p.step[s].status \in {"pending", "retry_waiting"} THEN 0 ELSE 1)
      BY <2>1, <2>2 DEF MadeStep
    <3>3. s \in {"preprocessing", "tree", "quality", "cot"} /\ p.step[s].status = "running"
            /\ (p.step[s].jobs # {} \/ U(s) # {}) => p.step[s].tries <= made'[s]
      BY <2>1, <2>2, <3>1 DEF MadeStep
    <3> QED
      BY <1>6, <2>1, <2>3, <3>2, <3>3 DEF MadeStep
  <2>4. CASE /\ pc = "submit" /\ s = p.current /\ made'[s] = made[s] + 1
             /\ U(s)' \subseteq U(s) \cup {Len(jobs) + 1}
    <3>1. U(s)' \subseteq {Len(jobs) + 1}
      BY <2>1, <2>4 DEF MadeCalls
    <3>2. U(s)' # {} => \E j \in U(s)' : U(s)' = {j}
      BY <3>1
    <3>3. p.step[s].tries <= made'[s] /\ p.step[s].tries # NoInfo /\ p.step[s].tries >= 1
      <4>1. s # "collection"
        BY <2>4 DEF IInv, CallInv, JobSteps
      <4>2. p.step[s].status = "running"
        BY <1>9, <2>4
      <4> QED
        BY <2>1, <2>2, <2>4, <4>1, <4>2 DEF MadeStep
    <3>4. p.step[s].jobs = {} /\ p.step[s].status = "running"
      BY <1>9, <2>4
    <3> QED
      BY <1>6, <2>2, <3>2, <3>3, <3>4 DEF MadeStep
  <2> QED
    BY <1>10, <2>3, <2>4
<1>12. ASSUME Counted' PROVE MadeCalls'
  <2>1. p.status = "failed" /\ p.error = "transient" => made[p.current] >= MaxAttempts
    BY <1>7, <1>8, <1>12 DEF MadeCalls
  <2>2. p.current \in StepIds /\ MaxAttempts \in Nat
    BY PipelineAssumption DEF IInv, Shape, PipeShape
  <2>3. p.status = "failed" /\ p.error = "transient" => made'[p.current] >= MaxAttempts
    BY <2>1, <2>2
  <2> QED
    BY <2>3 DEF MadeCalls
<1>13. MadeInv'
  BY <1>1, <1>11, <1>12 DEF MadeInv
<1> QED
  BY <1>2, <1>4, <1>5, <1>13 DEF IInv

LEMMA CrashKeeps ==
  ASSUME IInv, Crash
  PROVE  IInv'
<1>1. /\ crashes' = crashes + 1 /\ pc' = "idle" /\ p' = p /\ plan' = plan /\ grants' = grants
      /\ have' = have /\ run' = run /\ head' = head /\ data' = data /\ clean' = clean /\ conv' = conv
  BY DEF Crash, world
<1>2. /\ jobs \in Seq(JobRecord) /\ Len(jobs) \in Nat /\ made \in [StepIds -> Nat] /\ p \in PipeShape
      /\ crashes \in Nat
  BY LenProperties DEF IInv, Shape
<1>3. StepIds' = StepIds /\ JobSteps' = JobSteps /\ PipeShape' = PipeShape /\ JobRecord' = JobRecord
  BY <1>1, PlanKept
<1>4. ASSUME jobs' = Interrupted(jobs)
      PROVE  /\ jobs' \in Seq(JobRecord) /\ Len(jobs') = Len(jobs)
             /\ \A j \in 1..Len(jobs) : jobs'[j].step = jobs[j].step
             /\ ActiveJobs' => ActiveJobs
  <2>1. jobs' \in Seq(JobRecord) /\ SameJobs(jobs, jobs')
    BY <1>2, <1>4, InterruptedIs
  <2>2. ActiveJobs' => ActiveJobs
    BY <1>1, <1>2, <2>1, ActiveLess
  <2> QED
    BY <2>1, <2>2 DEF SameJobs
<1>5. ASSUME jobs' \in Seq(JobRecord), made' \in [StepIds -> Nat], remote' \in Known \cup {"none", "late"},
             release' \in BOOLEAN, intent' \in Nat
      PROVE  Shape'
  BY <1>1, <1>2, <1>3, <1>5 DEF IInv, Shape
<1>6. CASE jobs' = Interrupted(jobs) /\ UNCHANGED <<p, made, world>>
  <2>1. UNCHANGED <<remote, release, intent, made>>
    BY <1>6 DEF world
  <2>2. Shape'
    BY <1>2, <1>4, <1>5, <1>6, <2>1 DEF IInv, Shape
  <2>3. RunInv'
    BY <1>1, <1>4, <1>6, <2>1 DEF IInv, RunInv
  <2>4. \A s \in StepIds : made[s] \in Nat /\ made'[s] \in Nat /\ made[s] <= made'[s]
    BY <1>2, <2>1
  <2>5. Len(jobs') = Len(jobs) /\ Len(jobs) # Len(jobs) + 1 /\ \A j \in 1..Len(jobs) : jobs'[j].step = jobs[j].step
    BY <1>2, <1>4, <1>6
  <2>6. release' = release
    BY <2>1
  <2> QED
    BY <1>1, <1>2, <2>2, <2>3, <2>4, <2>5, <2>6, CrashPost
<1>7. CASE /\ pc = "submit" /\ jobs' = Interrupted(Append(jobs, NewJob(p.current)))
           /\ Try(p.current) /\ UNCHANGED world
  <2> DEFINE c == p.current
             js == Append(jobs, NewJob(c))
  <2>1. UNCHANGED <<remote, release, intent>> /\ made' = [made EXCEPT ![c] = @ + 1]
    BY <1>7 DEF world, Try
  <2>2. c \in StepIds /\ c \in JobSteps \cup (StepIds \cap {"cot"}) /\ p.status = "running"
    BY <1>2, <1>7 DEF IInv, HeadInv, CallInv, PipeShape
  <2>3. NewJob(c) \in JobRecord /\ NewJob(c).step = c
    BY <2>2, EpochIsNat DEF NewJob, JobRecord
  <2>4. /\ js \in Seq(JobRecord) /\ Len(js) = Len(jobs) + 1 /\ js[Len(jobs) + 1] = NewJob(c)
        /\ \A j \in 1..Len(jobs) : js[j] = jobs[j]
    BY <1>2, <2>3, AppendProperties
  <2>5. jobs' = Interrupted(js)
    BY <1>7
  <2> HIDE DEF js
  <2>6. jobs' \in Seq(JobRecord) /\ SameJobs(js, jobs')
    BY <2>4, <2>5, InterruptedIs
  <2>7. /\ Len(jobs') = Len(jobs) + 1 /\ jobs'[Len(jobs) + 1].step = c
        /\ \A j \in 1..Len(jobs) : jobs'[j].step = jobs[j].step
    <3>1. (1..Len(jobs)) \subseteq 1..Len(js) /\ Len(jobs) + 1 \in 1..Len(js)
      BY <1>2, <2>4
    <3>2. /\ Len(jobs') = Len(js) /\ \A j \in 1..Len(js) : jobs'[j].step = js[j].step
      BY <2>6 DEF SameJobs
    <3> QED
      BY <2>3, <2>4, <3>1, <3>2
  <2>8. /\ made' \in [StepIds -> Nat] /\ made'[c] = made[c] + 1
        /\ \A s \in StepIds : made[s] \in Nat /\ made'[s] \in Nat /\ made[s] <= made'[s]
    BY <1>2, <2>1, <2>2
  <2>9. Shape'
    BY <1>5, <2>1, <2>6, <2>8 DEF IInv, Shape
  <2>10. RunInv'
    <3>1. p'.status # "terminated"
      BY <1>1, <2>2
    <3> QED
      BY <1>1, <2>1, <3>1, RunKept
  <2>11. release' = release /\ Len(jobs') \in {Len(jobs), Len(jobs) + 1}
    BY <2>1, <2>7
  <2> QED
    BY <1>1, <1>2, <1>7, <2>7, <2>8, <2>9, <2>10, <2>11, CrashPost
<1>8. CASE /\ pc \in {"sent", "resent"} /\ remote' = Arrived /\ jobs' = Interrupted(jobs)
           /\ UNCHANGED <<made, release, intent>>
  <2>1. remote' \in Known /\ (remote \in Known => remote' = remote) /\ remote \in Known \cup {"none", "late"}
    BY <1>8 DEF Arrived, Known, IInv, Shape
  <2>2. Shape'
    BY <1>2, <1>4, <1>5, <1>8, <2>1 DEF IInv, Shape
  <2>3. RunInv'
    <3>1. p.status = "running"
      BY <1>8 DEF IInv, HeadInv
    <3>2. /\ run.attempted /\ ~run.rejected /\ (run.status = "dispatching" \/ run.settled)
          /\ run.settled => remote = "ended"
          /\ run.status = "none" => remote = "none"
          /\ run.status = "completed" => run.settled
      BY <1>8 DEF IInv, RunInv
    <3>3. run.settled => remote' = "ended"
      BY <2>1, <3>2 DEF Known
    <3>4. remote' \in {"running", "late"} => run.status = "dispatching"
      BY <2>1, <3>2, <3>3
    <3>5. run.status # "none"
      BY <2>1, <3>2
    <3> QED
      BY <1>1, <3>1, <3>2, <3>3, <3>4, <3>5 DEF RunInv
  <2>4. \A s \in StepIds : made[s] \in Nat /\ made'[s] \in Nat /\ made[s] <= made'[s]
    BY <1>2, <1>8
  <2>5. Len(jobs') = Len(jobs) /\ Len(jobs) # Len(jobs) + 1 /\ \A j \in 1..Len(jobs) : jobs'[j].step = jobs[j].step
    BY <1>2, <1>4, <1>8
  <2>6. release' = release
    BY <1>8
  <2> QED
    BY <1>1, <1>2, <2>2, <2>3, <2>4, <2>5, <2>6, CrashPost
<1>9. CASE /\ pc = "publish" /\ ~release /\ Admitted /\ intent' = p.selection /\ release' \in BOOLEAN
           /\ Try("publication") /\ jobs' = Interrupted(jobs) /\ UNCHANGED remote
  <2>1. "publication" \in StepIds /\ p.selection \in Nat /\ p.status = "running"
    BY <1>2, <1>9, PlanFacts DEF IInv, Shape, PipeShape, HeadInv
  <2>2. /\ made' \in [StepIds -> Nat]
        /\ \A s \in StepIds : made[s] \in Nat /\ made'[s] \in Nat /\ made[s] <= made'[s]
    BY <1>2, <1>9, <2>1 DEF Try
  <2>3. Shape'
    BY <1>4, <1>5, <1>9, <2>1, <2>2 DEF IInv, Shape
  <2>4. RunInv'
    <3>1. p'.status # "terminated"
      BY <1>1, <2>1
    <3> QED
      BY <1>1, <1>9, <3>1, RunKept
  <2>5. Current(p.input) /\ head # "active"
    BY <1>9 DEF Admitted, Current
  <2>6. Len(jobs') = Len(jobs) /\ Len(jobs) # Len(jobs) + 1 /\ \A j \in 1..Len(jobs) : jobs'[j].step = jobs[j].step
    BY <1>2, <1>4, <1>9
  <2> QED
    BY <1>1, <1>2, <1>9, <2>2, <2>3, <2>4, <2>5, <2>6, CrashPost
<1> QED
  BY <1>6, <1>7, <1>8, <1>9 DEF Crash-----------------------------------------------------------------------------
(* The invariant holds. *)

LEMMA TickKeeps ==
  ASSUME IInv, Tick
  PROVE  IInv'
<1>1. ASSUME NEW q, Handle(q) PROVE IInv'
  BY <1>1, CollectKeeps, CorrectKeeps, SkipCotKeeps, PrepareKeeps, ConvertKeeps DEF Handle
<1>2. ASSUME NEW s \in JobSteps \cup (StepIds \cap {"cot"}), JobStep(s) PROVE IInv'
  <2>1. PICK q : Follow(q, s) \/ Reuse(q, s) \/ Intend(q, s)
    BY <1>2 DEF JobStep
  <2> QED
    BY <2>1, FollowKeeps, ReuseKeeps, IntendKeeps
<1>3. Walk => \E q : Handle(q)
  BY DEF Walk
<1>4. CASE Fence \/ Terminate \/ LateResult
  BY <1>4, FenceKeeps, TerminateKeeps, LateResultKeeps
<1>5. CASE Register \/ Recognise \/ Precheck \/ BeginDispatch \/ Answer \/ Submit \/ Publish
  BY <1>5, DispatchKeeps, AnswerKeeps, SubmitKeeps, PublishKeeps
<1> QED
  BY <1>1, <1>2, <1>3, <1>4, <1>5 DEF Tick

LEMMA NextKeeps ==
  ASSUME IInv, [Next]_vars
  PROVE  IInv'
<1>1. CASE Next
  BY <1>1, TickKeeps, ChangedKeeps, ControlKeeps, CollectorKeeps, ConversionKeeps, CrashKeeps, JobEndsKeeps DEF Next
<1>2. CASE UNCHANGED vars
  BY <1>2, ConversionKeeps
<1> QED
  BY <1>1, <1>2

LEMMA InitHolds ==
  ASSUME Init
  PROVE  IInv
<1>1. plan \in DOMAIN Plans /\ {"collection", "publication"} \subseteq StepIds /\ MaxAttempts \in Nat /\ MaxAttempts >= 2
  BY PlanFacts, PipelineAssumption DEF Init
<1>2. /\ pc = "idle" /\ jobs = << >> /\ head = "none" /\ release = FALSE /\ intent = 0
      /\ have = [s \in JobSteps |-> 0] /\ conv = "none" /\ made = [s \in StepIds |-> 0]
      /\ crashes = 0 /\ grants = 0
  BY DEF Init
<1>3. NewStep \in StepShape /\ NewStep.status = "pending" /\ NewStep.jobs = {} /\ NewStep.previous = {}
      /\ NewStep.tries = 0 /\ NewStep.last = 0
  BY DEF NewStep, StepShape, StepStatuses
<1>4. /\ p.status = "running" /\ p.current = "collection" /\ p.wait = "none" /\ p.error = "none"
      /\ ~p.released /\ p.input = 0 /\ p.step = [s \in StepIds |-> NewStep]
      /\ p \in PipeShape
  <2>1. p = [status |-> "running", current |-> "collection", pausedFrom |-> "running",
             wait |-> "none", error |-> "none", released |-> FALSE, bound |-> FALSE,
             input |-> 0, selection |-> 0, confirmed |-> FALSE,
             step |-> [s \in StepIds |-> NewStep]]
    BY DEF Init
  <2>2. [s \in StepIds |-> NewStep] \in [StepIds -> StepShape]
    BY <1>3
  <2> HIDE DEF NewStep
  <2>3. "running" \in Statuses
    BY DEF Statuses
  <2> QED
    BY <1>1, <2>1, <2>2, <2>3 DEF PipeShape
<1>5. /\ run \in RunRecord /\ data \in Nat /\ clean \in BOOLEAN /\ remote \in Known \cup {"none", "late"}
      /\ ~run.rejected /\ (remote # "none" => run.attempted) /\ (run.settled => remote = "ended")
      /\ remote \in {"none", "ended"} /\ (run.status = "none" => remote = "none")
      /\ (run.status = "completed" => run.settled)
  <2>1. CASE Start = "collect"
    <3>1. run = NoRun /\ remote = "none" /\ data = 0 /\ clean = FALSE
      BY <2>1 DEF Init
    <3>2. run \in RunRecord /\ run.status = "none" /\ ~run.rejected /\ ~run.settled
      BY <3>1 DEF NoRun, RunRecord
    <3> QED
      BY <3>1, <3>2
  <2>2. CASE Start # "collect"
    <3>1. /\ run = [NoRun EXCEPT !.status = "completed", !.attempted = TRUE, !.settled = TRUE]
          /\ remote = "ended" /\ data = 1 /\ clean \in BOOLEAN
      BY <2>2 DEF Init
    <3>2. run \in RunRecord /\ run.status = "completed" /\ ~run.rejected /\ run.settled /\ run.attempted
      BY <3>1 DEF NoRun, RunRecord
    <3> QED
      BY <3>1, <3>2 DEF Known
  <2> QED
    BY <2>1, <2>2
<1>6. jobs \in Seq(JobRecord) /\ Len(jobs) = 0
  BY <1>2
<1>7. Shape
  BY <1>1, <1>2, <1>4, <1>5, <1>6 DEF Shape
<1>8. \A s \in StepIds : /\ p.step[s].status = "pending" /\ p.step[s].jobs = {} /\ p.step[s].previous = {}
                         /\ p.step[s].tries = 0 /\ p.step[s].last = 0
  BY <1>3, <1>4
<1>9. JobsInv
  BY <1>6, <1>8 DEF JobsInv
<1>10. TriesInv
  BY <1>1, <1>8 DEF TriesInv, Tried
<1>11. HeadInv /\ CallInv
  BY <1>2, <1>4 DEF HeadInv, CallInv
<1>12. WalkInv
  <2>1. ASSUME NEW s \in StepIds PROVE ~Before(s, "collection")
    BY <1>1, FirstAndLast
  <2>2. Eff = "running"
    BY <1>4 DEF Eff
  <2>3. \A s \in StepIds : p.step[s].status \notin Unsettled \cup Closed
    BY <1>8 DEF Unsettled, Closed
  <2> QED
    BY <1>1, <1>2, <1>4, <2>1, <2>2, <2>3 DEF WalkInv
<1>13. RunInv
  BY <1>2, <1>4, <1>5 DEF RunInv
<1>14. MadeInv
  <2>1. \A s : U(s) = {}
    BY <1>6 DEF U
  <2>2. ASSUME NEW s \in StepIds PROVE MadeStep(s)
    <3>1. made[s] = 0
      BY <1>2
    <3> QED
      BY <1>8, <2>1, <3>1 DEF MadeStep, NoInfo
  <2>3. MadeCalls
    BY <1>2, <1>4 DEF MadeCalls
  <2> QED
    BY <2>2, <2>3 DEF MadeInv
<1> QED
  BY <1>7, <1>9, <1>10, <1>11, <1>12, <1>13, <1>14 DEF IInv

-----------------------------------------------------------------------------
(* The theorems. *)

\* The invariant: the record is a record of the plan, the walk stands at one step with the
\* steps before it closed, a call is made only by a pipeline that runs, and the attempts
\* counted are attempts that were made.
THEOREM PipelineInvariance == Spec => []IInv
<1>1. Init => IInv
  BY InitHolds
<1>2. IInv /\ [Next]_vars => IInv'
  BY NextKeeps
<1> QED
  BY <1>1, <1>2, PTL DEF Spec

\* The stored pipeline, the jobs, the run and the counters hold what their records can
\* hold, and no step counts more attempts than the retry policy allows.
THEOREM PipelineTyped == Spec => []TypeOK
<1>1. IInv => TypeOK
  <2> SUFFICES ASSUME IInv PROVE TypeOK
    OBVIOUS
  <2>1. Len(jobs) \in Nat /\ MaxAttempts \in Nat /\ p \in PipeShape
    BY LenProperties, PipelineAssumption DEF IInv, Shape
  <2>2. ASSUME NEW s \in StepIds PROVE p.step[s] \in StepRecord
    <3>1. /\ p.step[s].jobs \cup p.step[s].previous \subseteq 1..Len(jobs)
          /\ p.step[s].last \in 0..Len(jobs) /\ p.step[s].tries <= MaxAttempts
      BY StepsAre DEF Tried
    <3>2. p.step[s] \in StepShape
      BY <2>1 DEF PipeShape
    <3>3. p.step[s].tries \in {NoInfo} \cup 0..MaxAttempts
      BY <2>1, <3>1, <3>2 DEF StepShape
    <3> QED
      BY <3>1, <3>2, <3>3 DEF StepShape, StepStatuses, StepRecord
  <2>3. p \in PipelineRecord
    <3>1. p.step \in [StepIds -> StepRecord]
      BY <2>1, <2>2 DEF PipeShape
    <3> QED
      BY <2>1, <3>1 DEF PipeShape, PipelineRecord
  <2> QED
    BY <2>3 DEF IInv, Shape, TypeOK
<1> QED
  BY <1>1, PipelineInvariance, PTL

\* Nothing is left at work on a batch that a terminated pipeline gave back, and a run that
\* the dispatcher holds to be rejected never reached the collector.
THEOREM NothingLeft == Spec => []NothingRunsUnseen
<1>1. IInv => NothingRunsUnseen
  BY DEF IInv, RunInv, NothingRunsUnseen
<1> QED
  BY <1>1, PipelineInvariance, PTL

\* While the collection is not resumed, and no person's retry comes between two restarts,
\* a step fails for a temporary reason only after MaxAttempts attempts really made.
THEOREM AttemptsUsed == Spec => []RetriesKept
<1>1. IInv => RetriesKept
  <2> SUFFICES ASSUME IInv, head = "none", crashes <= 1 \/ grants = 0,
                      p.status = "failed", p.error = "transient", pc = "idle"
               PROVE  made[p.current] >= MaxAttempts
    BY DEF RetriesKept, RetriesUsedUp
  <2>1. p.wait = "none"
    BY DEF IInv, HeadInv
  <2>2. Live /\ Eff = "failed"
    BY <2>1 DEF Live, Eff, TERMINAL
  <2>3. ~p.released
    BY <2>2 DEF IInv, WalkInv
  <2>4. Counted
    BY <2>2, <2>3 DEF Counted, G
  <2> QED
    BY <2>4 DEF IInv, MadeInv, MadeCalls
<1> QED
  BY <1>1, PipelineInvariance, PTL

\* Outside a call of the tick nothing is submitted, sent or published.
LEMMA IdleMakesNothing ==
  ASSUME IInv, Next, pc = "idle"
  PROVE  Len(jobs') <= Len(jobs) /\ release' = release /\ (remote = "none" => remote' = "none")
<1>1. Len(jobs) \in Nat
  BY LenProperties DEF IInv, Shape
<1>2. jobs' = jobs => Len(jobs') <= Len(jobs)
  BY <1>1
<1>3. CASE Tick
  <2>1. CASE Fence \/ Terminate \/ LateResult
    BY <1>2, <2>1 DEF Fence, Terminate, LateResult, Inside, world
  <2>2. CASE Walk
    <3>1. PICK q : Collect(q) \/ Correct(q) \/ SkipCot(q) \/ Prepare(q) \/ Convert(q)
      BY <2>2 DEF Walk, Handle
    <3> QED
      BY <1>2, <3>1 DEF Collect, Correct, SkipCot, Prepare, Convert, Inside, world
  <2>3. ASSUME NEW s, JobStep(s) PROVE UNCHANGED <<jobs, release, remote>>
    <3>1. PICK q : Follow(q, s) \/ Reuse(q, s) \/ Intend(q, s)
      BY <2>3 DEF JobStep
    <3> QED
      BY <3>1 DEF Follow, Reuse, Intend, Inside, world
  <2>4. ~(Register \/ Recognise \/ Precheck \/ BeginDispatch \/ Answer \/ Submit \/ Publish)
    BY DEF Register, Recognise, Precheck, BeginDispatch, Answer, Submit, Publish
  <2>5. (\E s \in JobSteps \cup (StepIds \cap {"cot"}) : (s = "cot" => Mode = "manual") /\ JobStep(s))
           => UNCHANGED <<jobs, release, remote>>
    BY <2>3
  <2> QED
    BY <1>2, <1>3, <2>1, <2>2, <2>4, <2>5 DEF Tick
<1>4. CASE Changed
  BY <1>2, <1>4 DEF Changed, Inside, world
<1>5. CASE Control
  BY <1>2, <1>5 DEF Control
<1>6. CASE Collector
  BY <1>2, <1>6 DEF Collector, RemoteEnds, Arrives, Transfer, ResumeCollection, Settle
<1>7. CASE ConversionEnds \/ RetryFromDetails
  BY <1>2, <1>7 DEF ConversionEnds, RetryFromDetails
<1>8. CASE Crash
  <2>1. jobs' = Interrupted(jobs) /\ UNCHANGED <<release, remote>>
    BY <1>8 DEF Crash, world
  <2>2. Len(jobs') = Len(jobs)
    BY <2>1, InterruptedIs DEF IInv, Shape, SameJobs
  <2> QED
    BY <1>1, <2>1, <2>2
<1>9. ASSUME NEW j \in DOMAIN jobs, JobEnds(j)
      PROVE  Len(jobs') <= Len(jobs) /\ UNCHANGED <<release, remote>>
  <2>1. \E status \in {"succeeded"} \cup Kinds : jobs' = [jobs EXCEPT ![j].status = status]
    BY <1>9 DEF JobEnds, JobSucceeds, JobFails, Kinds
  <2>2. Len(jobs') = Len(jobs)
    BY <2>1, JobChanged DEF IInv, Shape, SameJobs
  <2> QED
    BY <1>1, <1>9, <2>2 DEF JobEnds
<1> QED
  BY <1>3, <1>4, <1>5, <1>6, <1>7, <1>8, <1>9 DEF Next

\* Work is sent, submitted and published by a pipeline that runs and that nothing holds:
\* a pause or a termination that was answered is not overtaken by the tick.
THEOREM PausesHold == Spec => PauseHolds
<1> DEFINE A == \/ Len(jobs') > Len(jobs) \/ release' # release
                \/ remote = "none" /\ remote' # "none"
                => p.status = "running" /\ p.wait = "none"
<1>1. ASSUME IInv, Next PROVE A
  <2>1. Len(jobs) \in Nat /\ Len(jobs') \in Nat
    <3>1. IInv'
      BY <1>1, NextKeeps
    <3>2. jobs \in Seq(JobRecord) /\ jobs' \in Seq(JobRecord')
      BY <1>1, <3>1 DEF IInv, Shape
    <3> QED
      BY <3>2, LenProperties
  <2>2. CASE pc = "idle"
    BY <1>1, <2>1, <2>2, IdleMakesNothing
  <2>3. CASE pc # "idle"
    BY <1>1, <2>3 DEF IInv, HeadInv
  <2> QED
    BY <2>2, <2>3
<1>2. IInv /\ [Next]_vars => [A]_vars
  BY <1>1
<1> QED
  BY <1>2, PipelineInvariance, PTL DEF Spec, PauseHolds

\* What is published was made from the newest input by stages that all worked on it, and
\* in manual mode it is what a person confirmed.
THEOREM PublishedCurrent == Spec => PublishedIsCurrent
<1> DEFINE A == ~release /\ release' => /\ head # "active" /\ \A s \in JobSteps : have[s] = data
                                        /\ p.selection = data /\ (Mode = "manual" => p.confirmed)
<1>1. ASSUME IInv, Next PROVE A
  <2> SUFFICES ASSUME ~release, release' PROVE Admitted
    <3>1. LastJobStep \in JobSteps
      BY <1>1, JobStepEnds DEF IInv, Shape
    <3> QED
      BY <3>1 DEF Admitted, Publishable, Current
  <2>1. pc # "idle"
    BY <1>1, IdleMakesNothing
  <2>2. CASE Publish
    BY <2>2 DEF Publish
  <2>3. CASE Crash
    BY <2>3 DEF Crash, world
  <2>4. ~Publish /\ ~Crash => release' = release
    <3>1. CASE Tick /\ ~Publish
      <4>1. ~(Fence \/ Terminate \/ LateResult)
        BY <2>1, WalksFree DEF Fence, Terminate, LateResult, Walks
      <4>2. ASSUME NEW q PROVE ~Handle(q)
        BY <2>1 DEF Handle, Collect, Correct, SkipCot, Prepare, Convert, At, Walks
      <4>3. ASSUME NEW s PROVE ~JobStep(s)
        BY <2>1 DEF JobStep, Follow, Reuse, Intend, At, Walks
      <4>4. CASE Register \/ Recognise \/ Precheck \/ BeginDispatch \/ Answer
        BY <4>4 DEF Register, Recognise, Precheck, BeginDispatch, Answer, OnlyRun
      <4>5. CASE Submit
        BY <4>5 DEF Submit, world
      <4> QED
        BY <3>1, <4>1, <4>2, <4>3, <4>4, <4>5 DEF Tick, Walk
    <3>2. CASE Changed
      BY <3>2 DEF Changed, Inside, world
    <3>3. CASE Control \/ Collector \/ ConversionEnds \/ RetryFromDetails
      BY <3>3 DEF Control, Collector, ConversionEnds, RetryFromDetails
    <3>4. ASSUME NEW j \in DOMAIN jobs, JobEnds(j) PROVE release' = release
      BY <3>4 DEF JobEnds
    <3> QED
      BY <1>1, <3>1, <3>2, <3>3, <3>4 DEF Next
  <2> QED
    BY <2>2, <2>3, <2>4
<1>2. IInv /\ [Next]_vars => [A]_vars
  BY <1>1
<1> QED
  BY <1>2, PipelineInvariance, PTL DEF Spec, PublishedIsCurrent
===============================================================================
