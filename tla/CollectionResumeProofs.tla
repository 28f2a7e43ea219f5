---------------------- MODULE CollectionResumeProofs ----------------------
(* The results of a continued run are final when they are handed out, and a
   stop never ends what was submitted after it: for any number of requests,
   corrections, stops and faults. *)
EXTENDS CollectionResume, SequenceTheorems, WellFoundedInduction, TLAPS

\* Statuses that only an answer of the collector gives.
Told == {"accepted", "preparing", "started", "completed", "failed", "cancelled"}

\* What the collector knows: it was asked for, and counted in the revision.
KnownInv ==
  /\ \A r \in Requests :
       /\ known[r].state # "unknown" => ops[r] # None /\ ops[r].expected < rev
       /\ known[r].state = "started" => known[r].exec \in DOMAIN execs
       /\ known[r].state # "started" => known[r].exec = 0
  /\ \A e \in DOMAIN execs : execs[e].state = "running" =>
       execs[e].op \in Requests /\ known[execs[e].op].state = "started"

\* What the platform recorded of a request, and the head it moved.
RecordInv ==
  /\ \A r \in Requests : ops[r] # None =>
       /\ head # None /\ ops[r].epoch <= head.revision /\ ops[r].expected <= rev
       /\ ops[r].status \in Told => known[r].state # "unknown"
       /\ ops[r].status = "started" \/ ops[r].exec # 0 => known[r].state = "started"
  /\ head # None /\ head.remote # None => head.remote <= rev

\* A stop was asked for at a revision that whatever was submitted later has passed.
Past(stop) ==
  stop # None /\ ~stop.blind =>
    /\ stop.expected <= rev
    /\ \A r \in Requests : known[r].state # "unknown" /\ ops[r].epoch > stop.epoch => stop.expected < rev

StopInv ==
  /\ Past(intent) /\ Past(worker.stop)
  /\ worker.pc \in {"cancel", "ok", "refused"} => worker.stop # None /\ intent # None

\* A snapshot counts every request the collector knows, and no correction it does not have.
Covers(s) ==
  /\ \A r \in Requests : known[r].state # "unknown" => ops[r].expected < s.rev
  /\ \A i \in Plan : s.corr[i] = 0 => \A c \in 1..cursor : corrs[c] # <<s.of[i], i>>

WorkerInv ==
  /\ worker.pc \in {"requests", "receive", "commit"} => head # None
  /\ worker.pc = "requests" => \A r \in worker.todo \cap Requests :
       ops[r] # None /\ ops[r].status \in Blocking \cup {"started"}
  /\ worker.pc \in {"receive", "commit"} /\ worker.index # None => Covers(worker.index)
  /\ worker.pc = "commit" => /\ worker.index # None /\ worker.read # None
                             /\ worker.read.revision <= head.revision
                             /\ worker.read.revision = head.revision => ops = worker.read.ops

\* What is handed out, with all the collector knows.
Settled == head # None /\ ~head.active /\ head.snap # None
SettledInv ==
  Settled =>
    /\ \A r \in Requests : ops[r] # None => ops[r].status \notin Blocking
    /\ \A r \in Requests : known[r].state # "unknown" => ops[r].expected < head.snap.rev
    /\ \A i \in Plan : /\ <<head.snap.of[i], i>> \in rows
                       /\ Applied(head.snap.of[i], i) = head.snap.corr[i]

ResumeInv == TypeOK /\ KnownInv /\ RecordInv /\ StopInv /\ WorkerInv /\ SettledInv

-----------------------------------------------------------------------------
(* Numbers. *)

\* A bounded set of numbers has a greatest one.
LEMMA MaxIs ==
  ASSUME NEW S \in SUBSET Nat, S # {}, NEW n \in Nat, \A x \in S : x <= n
  PROVE  Max(S) \in S /\ \A x \in S : x <= Max(S)
<1> DEFINE T == {k \in Nat : \A x \in S : x <= k}
<1>1. T \subseteq Nat /\ T # {}
  OBVIOUS
<1>2. PICK m \in T : \A k \in T : ~ (<<k, m>> \in OpToRel(<, Nat))
  BY <1>1, NatLessThanWellFounded, WFMin
<1>3. m \in Nat /\ (\A x \in S : x <= m) /\ \A k \in T : ~(k < m)
  BY <1>2 DEF OpToRel
<1>4. m \in S
  <2> SUFFICES ASSUME m \notin S PROVE FALSE
    OBVIOUS
  <2>1. ASSUME NEW x \in S PROVE x <= m - 1 /\ m - 1 \in Nat
    <3>1. x \in Nat /\ x <= m /\ x # m
      BY <1>3
    <3> QED BY <1>3, <3>1
  <2>2. m - 1 \in T
    BY <2>1
  <2> QED BY <1>3, <2>2
<1>5. \A x \in S : m >= x
  BY <1>3
<1>6. Max(S) \in S /\ \A x \in S : Max(S) >= x
  BY <1>4, <1>5 DEF Max
<1> QED BY <1>6

\* A number that an entry has at most, 0 when none has.
LEMMA LastIs ==
  ASSUME NEW n \in Nat, NEW S \in SUBSET (1..n)
  PROVE  /\ Max({0} \cup S) \in Nat
         /\ Max({0} \cup S) = 0 <=> S = {}
<1> DEFINE T == {0} \cup S
<1>1. T \in SUBSET Nat /\ T # {} /\ \A x \in T : x <= n
  OBVIOUS
<1>2. Max(T) \in T /\ \A x \in T : x <= Max(T)
  BY <1>1, MaxIs
<1>3. \A x \in S : x > 0 /\ x \in T
  OBVIOUS
<1>4. Max(T) \in Nat /\ (Max(T) = 0 \/ Max(T) \in S)
  BY <1>1, <1>2
<1>5. ASSUME Max(T) = 0 PROVE S = {}
  <2>1. ASSUME NEW x \in S PROVE FALSE
    <3>1. x \in Nat /\ x > 0 /\ x <= Max(T)
      BY <1>2, <1>3
    <3> QED BY <3>1, <1>5
  <2> QED BY <2>1
<1> QED BY <1>4, <1>5

LEMMA Lists ==
  ASSUME TypeOK
  PROVE  /\ DOMAIN execs = 1..Len(execs) /\ Len(execs) \in Nat /\ 1 \in DOMAIN execs
         /\ DOMAIN corrs = 1..Len(corrs) /\ Len(corrs) \in Nat
         /\ cursor \in Nat /\ 1..cursor \subseteq DOMAIN corrs
         /\ \A e \in DOMAIN execs : execs[e] \in Executions
         /\ Plan \subseteq Instances
<1>1. /\ DOMAIN execs = 1..Len(execs) /\ Len(execs) \in Nat /\ Len(execs) >= 1
      /\ DOMAIN corrs = 1..Len(corrs) /\ Len(corrs) \in Nat
      /\ cursor \in Nat /\ cursor <= Len(corrs)
  BY DEF TypeOK
<1>2. ASSUME NEW e \in DOMAIN execs PROVE execs[e] \in Executions
  BY <1>1, ElementOfSeq DEF TypeOK
<1>3. execs[1].covers \subseteq Instances
  BY <1>1, <1>2 DEF Executions
<1> QED BY <1>1, <1>2, <1>3 DEF Plan

\* The last of the corrections, among those applied: none is 0.
LEMMA LastApplied ==
  ASSUME TypeOK, NEW e, NEW i
  PROVE  Applied(e, i) = 0 <=> \A c \in 1..cursor : corrs[c] # <<e, i>>
<1> DEFINE S == {c \in 1..cursor : corrs[c] = <<e, i>>}
<1>1. cursor \in Nat /\ S \in SUBSET (1..cursor)
  BY Lists
<1>2. Max({0} \cup S) = 0 <=> S = {}
  BY <1>1, LastIs
<1> QED BY <1>2 DEF Applied

\* The snapshot that the collector offers has every correction of what it names.
LEMMA CurrentIs ==
  ASSUME TypeOK
  PROVE  /\ Current \in Snapshots /\ Current.rev = rev
         /\ \A i \in Plan : Current.corr[i] = 0 => \A c \in 1..cursor : corrs[c] # <<Current.of[i], i>>
<1> DEFINE Over(i) == {e \in DOMAIN execs : i \in execs[e].covers /\ execs[e].state # "running"}
           Late(e, i) == {c \in DOMAIN corrs : corrs[c] = <<e, i>>}
           of == [i \in Instances |-> Max({0} \cup Over(i))]
           corr == [i \in Instances |-> Max({0} \cup Late(of[i], i))]
<1>1. ASSUME NEW i \in Instances PROVE Max({0} \cup Over(i)) \in Nat
  <2>1. Len(execs) \in Nat /\ Over(i) \in SUBSET (1..Len(execs))
    BY Lists
  <2> HIDE DEF Over
  <2> QED BY <2>1, LastIs
<1>2. ASSUME NEW i, NEW e
      PROVE  Max({0} \cup Late(e, i)) \in Nat /\ (Max({0} \cup Late(e, i)) = 0 <=> Late(e, i) = {})
  <2>1. Len(corrs) \in Nat /\ Late(e, i) \in SUBSET (1..Len(corrs))
    BY Lists
  <2> HIDE DEF Late
  <2> QED BY <2>1, LastIs
<1>3. Current = [rev |-> rev, of |-> of, corr |-> corr]
  BY DEF Current
<1>4. of \in Placings
  BY <1>1 DEF Placings
<1>5. corr \in Placings
  <2> HIDE DEF Late, of
  <2> QED BY <1>2 DEF Placings
<1>6. ASSUME NEW i \in Plan, corr[i] = 0, NEW c \in 1..cursor PROVE corrs[c] # <<of[i], i>>
  <2>1. Late(of[i], i) = {}
    <3> HIDE DEF Late, of
    <3> QED BY <1>2, <1>6, Lists
  <2> HIDE DEF of
  <2> QED BY <2>1, Lists
<1> HIDE DEF of, corr
<1>7. rev \in Nat
  BY DEF TypeOK
<1> QED BY <1>3, <1>4, <1>5, <1>6, <1>7 DEF Snapshots

-----------------------------------------------------------------------------
(* What is stored. *)

LEMMA HeadRowIs ==
  ASSUME TypeOK
  PROVE  HeadRow \in Heads /\ (head # None => HeadRow = head) /\ (head = None => HeadRow = NoHead)
<1>1. NoHead \in Heads
  BY DEF NoHead, Heads
<1> QED BY <1>1 DEF TypeOK, HeadRow

\* An execution that begins: those there were stay.
LEMMA Appended ==
  ASSUME TypeOK, NEW x \in Executions
  PROVE  /\ Append(execs, x) \in Seq(Executions) /\ Append(execs, x) # <<>>
         /\ DOMAIN Append(execs, x) = DOMAIN execs \cup {Len(execs) + 1}
         /\ \A e \in DOMAIN execs : Append(execs, x)[e] = execs[e]
         /\ Append(execs, x)[Len(execs) + 1] = x /\ Len(execs) + 1 \notin DOMAIN execs
<1>1. execs \in Seq(Executions)
  BY DEF TypeOK
<1>2. /\ Append(execs, x) \in Seq(Executions) /\ Append(execs, x) # <<>>
      /\ Len(Append(execs, x)) = Len(execs) + 1
      /\ \A e \in 1..Len(execs) : Append(execs, x)[e] = execs[e]
      /\ Append(execs, x)[Len(execs) + 1] = x
  BY <1>1, AppendProperties
<1>3. DOMAIN Append(execs, x) = 1..Len(execs) + 1
  BY <1>2
<1>4. /\ DOMAIN execs = 1..Len(execs) /\ Len(execs) \in Nat
  BY Lists
<1>5. DOMAIN Append(execs, x) = DOMAIN execs \cup {Len(execs) + 1} /\ Len(execs) + 1 \notin DOMAIN execs
  BY <1>3, <1>4
<1> QED BY <1>2, <1>4, <1>5

\* What ends makes of the executions: some of those that run do no more.
Ended(f) ==
  /\ f \in Seq(Executions) /\ f # <<>> /\ DOMAIN f = DOMAIN execs
  /\ \A e \in DOMAIN execs : f[e].op = execs[e].op /\ f[e].covers = execs[e].covers
  /\ \A e \in DOMAIN execs : f[e].state = "running" => execs[e].state = "running"

LEMMA Restated ==
  ASSUME TypeOK, NEW D, NEW s \in {"ended", "stopped"}
  PROVE  Ended([e \in DOMAIN execs |-> IF e \in D THEN [execs[e] EXCEPT !.state = s] ELSE execs[e]])
<1> DEFINE f == [e \in DOMAIN execs |-> IF e \in D THEN [execs[e] EXCEPT !.state = s] ELSE execs[e]]
<1>1. /\ DOMAIN execs = 1..Len(execs) /\ Len(execs) \in Nat /\ 1 \in DOMAIN execs
      /\ \A e \in DOMAIN execs : execs[e] \in Executions
  BY Lists
<1>2. ASSUME NEW e \in DOMAIN execs
      PROVE  /\ f[e] \in Executions /\ f[e].op = execs[e].op /\ f[e].covers = execs[e].covers
             /\ f[e].state = IF e \in D THEN s ELSE execs[e].state
  BY <1>1 DEF Executions
<1>3. f \in [1..Len(execs) -> Executions]
  BY <1>1, <1>2
<1> HIDE DEF f
<1>4. f \in Seq(Executions) /\ DOMAIN f = DOMAIN execs
  BY <1>1, <1>3, SeqDef
<1>5. f # <<>>
  BY <1>1, <1>4
<1>6. Ended(f)
  BY <1>2, <1>4, <1>5 DEF Ended
<1> QED BY <1>6 DEF f

\* What a request's record becomes.
Rewritten(f, r, s, n) ==
  /\ f \in [Requests -> Operations \cup {None}] /\ \A q \in Requests \ {r} : f[q] = ops[q]
  /\ f[r] # None /\ f[r].expected = ops[r].expected /\ f[r].epoch = ops[r].epoch
  /\ f[r].status = s /\ f[r].exec = n

LEMMA Recorded ==
  ASSUME TypeOK, NEW r \in Requests, ops[r] # None,
         NEW s \in Blocking \cup Dead \cup {"started", "completed"}, NEW n \in Nat
  PROVE  /\ Rewritten([ops EXCEPT ![r].status = s, ![r].exec = n], r, s, n)
         /\ Rewritten([ops EXCEPT ![r].status = s], r, s, ops[r].exec)
<1> DEFINE x == [[ops[r] EXCEPT !.status = s] EXCEPT !.exec = n]
           y == [ops[r] EXCEPT !.status = s]
           f == [ops EXCEPT ![r].status = s, ![r].exec = n]
           g == [ops EXCEPT ![r].status = s]
<1>1. ops[r] \in Operations /\ None \notin Operations
  BY ResumeAssumption DEF TypeOK
<1>2. y \in Operations /\ y.status = s /\ y.exec = ops[r].exec /\ y.expected = ops[r].expected /\ y.epoch = ops[r].epoch
  BY <1>1 DEF Operations
<1>3. x \in Operations /\ x.status = s /\ x.exec = n /\ x.expected = ops[r].expected /\ x.epoch = ops[r].epoch
  BY <1>1 DEF Operations
<1>4. f = [ops EXCEPT ![r] = x] /\ g = [ops EXCEPT ![r] = y]
  BY DEF TypeOK
<1>5. ops \in [Requests -> Operations \cup {None}]
  BY DEF TypeOK
<1> HIDE DEF f, g, x, y
<1>6. f[r] = x /\ f \in [Requests -> Operations \cup {None}] /\ \A q \in Requests \ {r} : f[q] = ops[q]
  BY <1>3, <1>4, <1>5
<1>7. g[r] = y /\ g \in [Requests -> Operations \cup {None}] /\ \A q \in Requests \ {r} : g[q] = ops[q]
  BY <1>2, <1>4, <1>5
<1>8. Rewritten(f, r, s, n) /\ Rewritten(g, r, s, ops[r].exec)
  BY <1>1, <1>2, <1>3, <1>6, <1>7 DEF Rewritten
<1> QED BY <1>8 DEF f, g

\* What the collector takes, and what a call records of it.
Taken(r) ==
  \/ known' = known /\ rev' = rev
  \/ /\ known[r].state = "unknown" /\ ops[r].expected = rev /\ rev' = rev + 1
     /\ known' \in [Requests -> Answers] /\ \A q \in Requests \ {r} : known'[q] = known[q]
     /\ known'[r].state = "accepted" /\ known'[r].exec = known[r].exec

Outcome(r) ==
  /\ ops' \in [Requests -> Operations \cup {None}] /\ \A q \in Requests \ {r} : ops'[q] = ops[q]
  /\ ops'[r] # None /\ ops'[r].expected = ops[r].expected /\ ops'[r].epoch = ops[r].epoch
  /\ \/ /\ ops'[r].status = "uncertain" /\ ops[r].status \in Unsent
        /\ ops'[r].exec = ops[r].exec
     \/ /\ ops'[r].status = "rejected" /\ known'[r].state = "unknown"
        /\ ops'[r].exec = known'[r].exec
     \/ /\ ops'[r].status \in Told /\ known'[r].state # "unknown"
        /\ ops'[r].exec = known'[r].exec
        /\ ops'[r].status = "started" => known'[r].state = "started"
        /\ known'[r].state = "started" => ops'[r].status \in {"started", "completed", "cancelled"}

LEMMA TakeTakes ==
  ASSUME TypeOK, NEW r \in Requests, Take(r)
  PROVE  Taken(r) /\ known' \in [Requests -> Answers] /\ rev' \in Nat
<1>1. CASE known' = known /\ rev' = rev
  BY <1>1 DEF TypeOK, Taken
<1>2. CASE known[r].state = "unknown" /\ ops[r].expected = rev
           /\ known' = [known EXCEPT ![r].state = "accepted"] /\ rev' = rev + 1
  <2> DEFINE x == [known[r] EXCEPT !.state = "accepted"]
  <2>1. known[r] \in Answers
    BY DEF TypeOK
  <2>2. x \in Answers /\ x.state = "accepted" /\ x.exec = known[r].exec
    BY <2>1 DEF Answers
  <2>3. known' = [known EXCEPT ![r] = x]
    BY <1>2
  <2> HIDE DEF x
  <2>4. known \in [Requests -> Answers] /\ rev \in Nat
    BY DEF TypeOK
  <2>5. known'[r] = x /\ known' \in [Requests -> Answers] /\ \A q \in Requests \ {r} : known'[q] = known[q]
    BY <2>2, <2>3, <2>4
  <2> QED BY <1>2, <2>2, <2>4, <2>5 DEF Taken
<1> QED BY <1>1, <1>2 DEF Take, Accepts

\* An answer tells of a request that the collector knows.
LEMMA AnswerTells ==
  ASSUME NEW r \in Requests, known'[r] \in Answers, known'[r].state # "unknown",
         known'[r].state = "started" => execs'[known'[r].exec] \in Executions
  PROVE  /\ Answer(r) \in Told
         /\ Answer(r) = "started" => known'[r].state = "started"
         /\ known'[r].state = "started" => Answer(r) \in {"started", "completed", "cancelled"}
<1>1. CASE known'[r].state # "started"
  BY <1>1 DEF Answer, Answers, Told
<1>2. CASE known'[r].state = "started"
  <2>1. execs'[known'[r].exec].state \in {"running", "ended", "stopped"}
    BY <1>2 DEF Executions
  <2> QED BY <1>2, <2>1 DEF Answer, Told
<1> QED BY <1>1, <1>2

\* Known requests have an execution of theirs once they are started.
LEMMA StartedRuns ==
  ASSUME TypeOK, KnownInv, NEW r \in Requests, Taken(r), execs' = execs
  PROVE  known'[r] \in Answers /\ (known'[r].state = "started" => execs'[known'[r].exec] \in Executions)
<1>1. known[r] \in Answers /\ (known[r].state = "started" => execs[known[r].exec] \in Executions)
  BY Lists DEF TypeOK, KnownInv
<1> QED BY <1>1 DEF Taken

LEMMA Records ==
  ASSUME TypeOK, KnownInv, NEW r \in Requests, ops[r] # None, Taken(r), execs' = execs,
         NEW s, Record(r, s), (s = "rejected" /\ known'[r].state = "unknown") \/ (s = Answer(r) /\ known'[r].state # "unknown")
  PROVE  Outcome(r)
<1>1. known'[r] \in Answers /\ (known'[r].state = "started" => execs'[known'[r].exec] \in Executions)
  BY StartedRuns
<1>2. known'[r].exec \in Nat
  BY <1>1 DEF Answers
<1>3. s \in Told \cup {"rejected"}
  BY <1>1, AnswerTells
<1>4. s \in Blocking \cup Dead \cup {"started", "completed"}
  BY <1>3 DEF Told, Blocking, Dead
<1>5. ops' = [ops EXCEPT ![r].status = s, ![r].exec = known'[r].exec]
  BY DEF Record
<1>6. Rewritten(ops', r, s, known'[r].exec)
  BY <1>2, <1>4, <1>5, Recorded
<1>7. CASE s = "rejected" /\ known'[r].state = "unknown"
  BY <1>6, <1>7 DEF Outcome, Rewritten
<1>8. CASE s = Answer(r) /\ known'[r].state # "unknown"
  <2>1. /\ s \in Told /\ (s = "started" => known'[r].state = "started")
        /\ known'[r].state = "started" => s \in {"started", "completed", "cancelled"}
    BY <1>1, <1>8, AnswerTells
  <2> QED BY <1>6, <1>8, <2>1 DEF Outcome, Rewritten
<1> QED BY <1>7, <1>8

LEMMA Uncertain ==
  ASSUME TypeOK, NEW r \in Requests, ops[r] # None, ops[r].status \in Unsent,
         ops' = [ops EXCEPT ![r].status = IF Refused(FALSE) THEN "rejected" ELSE "uncertain"]
  PROVE  Outcome(r)
<1>1. "uncertain" \in Blocking \cup Dead \cup {"started", "completed"} /\ 0 \in Nat
  BY DEF Blocking
<1>2. ops' = [ops EXCEPT ![r].status = "uncertain"]
  BY DEF Refused
<1>3. Rewritten(ops', r, "uncertain", ops[r].exec)
  BY <1>1, <1>2, Recorded
<1> QED BY <1>3 DEF Outcome, Rewritten

\* A request that is sent: the collector may take it, and the platform records what it heard.
LEMMA Sends ==
  ASSUME TypeOK, KnownInv, NEW r \in Requests, SendOrNot(r)
  PROVE  /\ ops[r] # None /\ ops[r].status \in Unsent
         /\ Taken(r) /\ Outcome(r) /\ known' \in [Requests -> Answers] /\ rev' \in Nat
         /\ UNCHANGED <<execs, corrs, head, intent, receipts>>
<1>1. ops[r] # None /\ ops[r].status \in Unsent /\ UNCHANGED <<head, intent, receipts>>
  BY DEF SendOrNot
<1>2. CASE Send(r)
  <2>1. Taken(r) /\ known' \in [Requests -> Answers] /\ rev' \in Nat /\ UNCHANGED <<execs, corrs>>
    BY <1>2, TakeTakes DEF Send
  <2>2. CASE Record(r, IF known'[r].state = "unknown" THEN "rejected" ELSE Answer(r))
    <3> DEFINE s == IF known'[r].state = "unknown" THEN "rejected" ELSE Answer(r)
    <3>1. (s = "rejected" /\ known'[r].state = "unknown") \/ (s = Answer(r) /\ known'[r].state # "unknown")
      OBVIOUS
    <3>2. Record(r, s)
      BY <2>2
    <3> HIDE DEF s
    <3>3. Outcome(r)
      BY <1>1, <2>1, <3>1, <3>2, Records
    <3> QED BY <1>1, <2>1, <3>3
  <2>3. CASE ops' = [ops EXCEPT ![r].status = IF Refused(FALSE) THEN "rejected" ELSE "uncertain"]
    BY <1>1, <2>1, <2>3, Uncertain
  <2> QED BY <1>2, <2>2, <2>3 DEF Send
<1>3. CASE NotSent(r)
  <2>1. Taken(r) /\ known' \in [Requests -> Answers] /\ rev' \in Nat /\ UNCHANGED <<execs, corrs>>
    BY <1>3 DEF NotSent, collector, Taken, TypeOK
  <2> QED BY <1>1, <1>3, <2>1, Uncertain DEF NotSent
<1> QED BY <1>2, <1>3 DEF SendOrNot

-----------------------------------------------------------------------------
(* The collector's own steps: what it knew it still knows. *)

Moved ==
  /\ known' \in [Requests -> Answers]
  /\ execs' \in Seq(Executions) /\ execs' # <<>> /\ DOMAIN execs \subseteq DOMAIN execs'
  /\ \A e \in DOMAIN execs : execs'[e].op = execs[e].op /\ execs'[e].covers = execs[e].covers
  /\ \A r \in Requests : /\ known'[r].state = "unknown" <=> known[r].state = "unknown"
                         /\ known[r].state = "started" => known'[r] = known[r]

LEMMA PrepareMoves ==
  ASSUME TypeOK, KnownInv, NEW r \in Requests, Prepare(r)
  PROVE  Moved /\ KnownInv'
<1>1. /\ known \in [Requests -> Answers] /\ known[r].state = "accepted" /\ UNCHANGED <<rev, ops>>
      /\ ops[r] # None
  BY DEF Prepare, TypeOK, KnownInv, requests
<1>2. ops[r] \in Operations
  BY <1>1 DEF TypeOK
<1>3. CASE /\ execs' = Append(execs, [op |-> r, covers |-> ops[r].covers, state |-> "running"])
           /\ known' = [known EXCEPT ![r] = [state |-> "started", exec |-> Len(execs) + 1]]
  <2> DEFINE x == [op |-> r, covers |-> ops[r].covers, state |-> "running"]
             k == [state |-> "started", exec |-> Len(execs) + 1]
  <2>1. x \in Executions /\ x.op = r /\ x.state = "running"
    BY <1>2 DEF Executions, Operations
  <2>2. Len(execs) \in Nat
    BY Lists
  <2>3. k \in Answers /\ k.state = "started" /\ k.exec = Len(execs) + 1
    BY <2>2 DEF Answers
  <2>4. execs' = Append(execs, x) /\ known' = [known EXCEPT ![r] = k]
    BY <1>3
  <2> HIDE DEF x, k
  <2>5. /\ execs' \in Seq(Executions) /\ execs' # <<>>
        /\ DOMAIN execs' = DOMAIN execs \cup {Len(execs) + 1}
        /\ \A e \in DOMAIN execs : execs'[e] = execs[e]
        /\ execs'[Len(execs) + 1] = x
    BY <2>1, <2>4, Appended
  <2>6. known' \in [Requests -> Answers] /\ known'[r] = k /\ \A q \in Requests \ {r} : known'[q] = known[q]
    BY <1>1, <2>3, <2>4
  <2>7. Moved
    BY <1>1, <2>3, <2>5, <2>6 DEF Moved
  <2>8. ASSUME NEW q \in Requests
        PROVE  /\ known'[q].state # "unknown" => ops'[q] # None /\ ops'[q].expected < rev'
               /\ known'[q].state = "started" => known'[q].exec \in DOMAIN execs'
               /\ known'[q].state # "started" => known'[q].exec = 0
    BY <1>1, <2>3, <2>5, <2>6 DEF KnownInv
  <2>9. ASSUME NEW e \in DOMAIN execs', execs'[e].state = "running"
        PROVE  execs'[e].op \in Requests /\ known'[execs'[e].op].state = "started"
    BY <1>1, <2>1, <2>3, <2>5, <2>6, <2>9 DEF KnownInv
  <2> QED BY <2>7, <2>8, <2>9 DEF KnownInv
<1>4. CASE known' = [known EXCEPT ![r].state = "failed"] /\ UNCHANGED execs
  <2> DEFINE k == [known[r] EXCEPT !.state = "failed"]
  <2>1. k \in Answers /\ k.state = "failed" /\ k.exec = known[r].exec
    BY <1>1 DEF Answers
  <2>2. known' = [known EXCEPT ![r] = k]
    BY <1>4
  <2> HIDE DEF k
  <2>3. known' \in [Requests -> Answers] /\ known'[r] = k /\ \A q \in Requests \ {r} : known'[q] = known[q]
    BY <1>1, <2>1, <2>2
  <2>4. Moved
    BY <1>1, <1>4, <2>1, <2>3 DEF Moved, TypeOK
  <2>5. KnownInv'
    BY <1>1, <1>4, <2>1, <2>3 DEF KnownInv
  <2> QED BY <2>4, <2>5
<1> QED BY <1>3, <1>4 DEF Prepare

LEMMA EndMoves ==
  ASSUME TypeOK, KnownInv, NEW e \in DOMAIN execs, End(e)
  PROVE  Moved /\ KnownInv'
<1> DEFINE f == [d \in DOMAIN execs |-> IF d \in {e} THEN [execs[d] EXCEPT !.state = "ended"] ELSE execs[d]]
<1>1. Ended(f)
  BY Restated
<1>2. execs' = f
  BY Lists DEF End
<1> HIDE DEF f
<1>3. UNCHANGED <<known, rev, ops>>
  BY DEF End, requests
<1>4. Moved
  BY <1>1, <1>2, <1>3 DEF Moved, Ended, TypeOK
<1>5. KnownInv'
  BY <1>1, <1>2, <1>3 DEF KnownInv, Ended
<1> QED BY <1>4, <1>5

LEMMA StopsMove ==
  ASSUME TypeOK, KnownInv, Stops, UNCHANGED <<rev, ops>>
  PROVE  Moved /\ KnownInv'
<1> DEFINE D == {e \in DOMAIN execs : execs[e].state = "running"}
           f == [e \in DOMAIN execs |-> IF e \in D THEN [execs[e] EXCEPT !.state = "stopped"] ELSE execs[e]]
<1>1. Ended(f) /\ \A e \in DOMAIN execs : f[e].state # "running"
  <2>1. Ended(f)
    BY Restated
  <2>2. ASSUME NEW e \in DOMAIN execs PROVE f[e].state # "running"
    <3>1. execs[e] \in Executions
      BY Lists
    <3> QED BY <3>1 DEF Executions
  <2> QED BY <2>1, <2>2
<1>2. execs' = f
  BY DEF Stops
<1> HIDE DEF f
<1>3. ASSUME NEW r \in Requests
      PROVE  /\ known'[r] \in Answers /\ known'[r].exec = known[r].exec
             /\ known'[r].state = IF known[r].state = "accepted" THEN "cancelled" ELSE known[r].state
             /\ known[r].state # "accepted" => known'[r] = known[r]
  <2>1. known[r] \in Answers /\ known'[r] = IF known[r].state = "accepted" THEN [known[r] EXCEPT !.state = "cancelled"] ELSE known[r]
    BY DEF Stops, TypeOK
  <2> QED BY <2>1 DEF Answers
<1>4. known' \in [Requests -> Answers]
  BY <1>3 DEF Stops
<1>5. Moved
  BY <1>1, <1>2, <1>3, <1>4 DEF Moved, Ended
<1>6. KnownInv'
  BY <1>1, <1>2, <1>3 DEF KnownInv, Ended
<1> QED BY <1>5, <1>6

\* A plan is what the run covers.
LEMMA PlanStays ==
  ASSUME TypeOK, Moved \/ execs' = execs
  PROVE  Plan' = Plan
BY Lists DEF Plan, Moved

-----------------------------------------------------------------------------
(* The requests' records: nothing of them is lost. *)

Kept ==
  /\ ops' \in [Requests -> Operations \cup {None}]
  /\ \A r \in Requests : ops[r] # None =>
       ops'[r] # None /\ ops'[r].expected = ops[r].expected /\ ops'[r].epoch = ops[r].epoch

LEMMA OutcomeKeeps ==
  ASSUME NEW r \in Requests, Outcome(r)
  PROVE  Kept
BY DEF Outcome, Kept

\* An epoch is a head whose results are blocked, at the next revision.
LEMMA HeadOpens ==
  ASSUME NEW h \in Heads
  PROVE  LET j == [h EXCEPT !.revision = @ + 1, !.active = TRUE] IN
         j \in Heads /\ j.active /\ j.revision = h.revision + 1 /\ j.remote = h.remote
<1> DEFINE i == [h EXCEPT !.revision = @ + 1]
           j == [i EXCEPT !.active = TRUE]
<1>1. i \in Heads /\ i.revision = h.revision + 1 /\ i.remote = h.remote
  BY DEF Heads
<1>2. [h EXCEPT !.revision = @ + 1, !.active = TRUE] = j
  BY DEF Heads
<1> HIDE DEF i
<1>3. j \in Heads /\ j.active /\ j.revision = i.revision /\ j.remote = i.remote
  BY <1>1 DEF Heads
<1> QED BY <1>1, <1>2, <1>3

LEMMA SubmitKeeps ==
  ASSUME TypeOK, NEW r \in Requests, NEW p \in Previews, Submit(r, p)
  PROVE  /\ Kept /\ ops[r] = None /\ \A q \in Requests \ {r} : ops'[q] = ops[q]
         /\ ops'[r] # None /\ ops'[r].status = "pending" /\ ops'[r].exec = 0
         /\ ops'[r].expected = p.expected /\ p.expected \in Nat /\ p.expected <= rev
         /\ ops'[r].epoch = head'.revision
         /\ head' \in Heads /\ head'.active /\ head'.remote = p.expected
         /\ head'.revision \in Nat /\ head'.revision = HeadRow.revision + 1
<1> DEFINE x == [status |-> "pending", expected |-> p.expected, covers |-> p.covers,
                 epoch |-> HeadRow.revision + 1, exec |-> 0]
           h == [HeadRow EXCEPT !.revision = @ + 1, !.active = TRUE, !.remote = p.expected]
<1>1. ops \in [Requests -> Operations \cup {None}] /\ rev \in Nat
  BY DEF TypeOK
<1>2. p.expected \in Nat /\ p.expected <= rev /\ p.covers \subseteq Instances
  BY <1>1, Lists DEF Previews
<1>3. HeadRow \in Heads
  BY HeadRowIs
<1>4. HeadRow.revision \in Nat
  BY <1>3 DEF Heads
<1>5. /\ x \in Operations /\ x.status = "pending" /\ x.exec = 0 /\ x.expected = p.expected
      /\ x.epoch = HeadRow.revision + 1
  BY <1>2, <1>4 DEF Operations, Blocking
<1>6. h \in Heads /\ h.active /\ h.remote = p.expected /\ h.revision = HeadRow.revision + 1
  <2> DEFINE j == [HeadRow EXCEPT !.revision = @ + 1, !.active = TRUE]
  <2>1. j \in Heads /\ j.active /\ j.revision = HeadRow.revision + 1
    BY <1>3, HeadOpens
  <2>2. h = [j EXCEPT !.remote = p.expected]
    BY <1>3 DEF Heads
  <2> HIDE DEF j, h
  <2> QED BY <1>2, <2>1, <2>2 DEF Heads
<1>7. ops' = [ops EXCEPT ![r] = x] /\ head' = h /\ ops[r] = None
  BY DEF Submit
<1> HIDE DEF x, h
<1>8. ops'[r] = x /\ ops' \in [Requests -> Operations \cup {None}] /\ \A q \in Requests \ {r} : ops'[q] = ops[q]
  BY <1>1, <1>5, <1>7
<1>9. Kept
  BY <1>7, <1>8 DEF Kept
<1>10. x # None
  BY <1>5, ResumeAssumption
<1> QED BY <1>2, <1>4, <1>5, <1>6, <1>7, <1>8, <1>9, <1>10

LEMMA ReceiveKeeps ==
  ASSUME TypeOK, NEW e, Receive(e)
  PROVE  /\ Kept
         /\ \A r \in Requests : \/ ops'[r] = ops[r]
                                \/ /\ ops[r] # None /\ ops[r].exec = e
                                   /\ ops'[r].status = "completed" /\ ops'[r].exec = e
<1>1. ASSUME NEW r \in Requests
      PROVE  /\ ops'[r] \in Operations \cup {None}
             /\ ops[r] # None => ops'[r] # None /\ ops'[r].expected = ops[r].expected /\ ops'[r].epoch = ops[r].epoch
             /\ \/ ops'[r] = ops[r]
                \/ /\ ops[r] # None /\ ops[r].exec = e
                   /\ ops'[r].status = "completed" /\ ops'[r].exec = e
  <2>1. ops[r] \in Operations \cup {None} /\ None \notin Operations
    BY ResumeAssumption DEF TypeOK
  <2>2. CASE ops'[r] = ops[r]
    BY <2>1, <2>2
  <2>3. CASE ops[r] # None /\ ops[r].exec = e /\ ops'[r] = [ops[r] EXCEPT !.status = "completed"]
    <3>1. /\ ops'[r] \in Operations /\ ops'[r].expected = ops[r].expected /\ ops'[r].epoch = ops[r].epoch
          /\ ops'[r].status = "completed" /\ ops'[r].exec = ops[r].exec
      BY <2>1, <2>3 DEF Operations
    <3> QED BY <2>1, <2>3, <3>1
  <2> QED BY <2>2, <2>3 DEF Receive
<1>2. ops' \in [Requests -> Operations \cup {None}]
  BY <1>1 DEF Receive
<1> QED BY <1>1, <1>2 DEF Kept

\* A poll of a request that the collector knows.
LEMMA PollTells ==
  ASSUME TypeOK, KnownInv, NEW r \in Requests, ops[r] # None, known[r].state # "unknown",
         UNCHANGED collector, Record(r, Answer(r))
  PROVE  Outcome(r)
<1>1. Taken(r) /\ execs' = execs /\ known' = known
  BY DEF collector, Taken
<1> QED BY <1>1, Records

-----------------------------------------------------------------------------
(* Types. *)

LEMMA TypeInit ==
  ASSUME ResumeInit
  PROVE  TypeOK
<1>1. PICK s \in Settings : left = s
  BY DEF ResumeInit
<1> DEFINE x == [op |-> None, covers |-> left.plan, state |-> "ended"]
<1>2. x \in Executions
  BY <1>1 DEF Executions, Instances
<1>3. execs = <<x>>
  BY DEF ResumeInit
<1> HIDE DEF x
<1>4. execs \in Seq(Executions) /\ execs # <<>>
  BY <1>2, <1>3
<1>5. known \in [Requests -> Answers]
  BY DEF ResumeInit, Answers
<1>6. corrs \in Seq(Nat \X Instances) /\ Len(corrs) = 0
  BY DEF ResumeInit
<1>7. worker \in Workers
  BY DEF ResumeInit, Idle, Workers
<1>8. cursor \in 0..Len(corrs) /\ rev \in Nat
  BY <1>6 DEF ResumeInit
<1> QED BY <1>4, <1>5, <1>6, <1>7, <1>8 DEF ResumeInit, TypeOK

\* A pass of the worker begins and ends with nothing in hand.
LEMMA IdleIs == Idle \in Workers
BY DEF Idle, Workers

\* What the worker holds after each of its steps.
LEMMA WorkerType ==
  ASSUME TypeOK, WorkerInv, Work \/ Crash
  PROVE  worker' \in Workers
<1>1. worker \in Workers /\ ops \in [Requests -> Operations \cup {None}] /\ intent \in Intents \cup {None}
  BY DEF TypeOK
<1>2. worker.todo \in SUBSET Nat /\ Requests \subseteq Nat /\ DOMAIN execs \subseteq Nat
  BY <1>1, Lists, ResumeAssumption DEF Workers, Requests
<1>3. CASE Refresh
  <2> DEFINE c == IF intent # None /\ ~intent.acknowledged /\ ~intent.rejected THEN "cancel" ELSE "corrections"
             s == IF intent # None /\ ~intent.acknowledged /\ ~intent.rejected THEN intent ELSE None
  <2>1. c \in {"cancel", "corrections"} /\ s \in Intents \cup {None} /\ (1 \in closed) \in BOOLEAN
    BY <1>1
  <2>2. worker' = [Idle EXCEPT !.pc = c, !.stop = s, !.run = 1 \in closed]
    BY <1>3 DEF Refresh
  <2> HIDE DEF c, s
  <2> QED BY <2>1, <2>2, IdleIs DEF Workers
<1>4. CASE SendCancel
  <2>1. [worker EXCEPT !.pc = "ok"] \in Workers /\ [worker EXCEPT !.pc = "refused"] \in Workers
    BY <1>1 DEF Workers
  <2>2. [worker EXCEPT !.pc = "corrections", !.stop = None] \in Workers
    BY <1>1 DEF Workers
  <2> QED BY <1>4, <2>1, <2>2 DEF SendCancel
<1>5. CASE NoteCancel
  <2>1. [worker EXCEPT !.pc = "corrections", !.stop = None] \in Workers
    BY <1>1 DEF Workers
  <2> QED BY <1>5, <2>1 DEF NoteCancel
<1>6. CASE ApplyCorrection
  BY <1>1, <1>6 DEF ApplyCorrection
<1>7. CASE CorrectionsDone
  <2> DEFINE T == {r \in Requests : ops[r] # None /\ ops[r].status \in Blocking \cup {"started"}}
  <2>1. T \in SUBSET Nat
    BY <1>2
  <2>2. worker' = Idle \/ worker' = [worker EXCEPT !.pc = "requests", !.todo = T]
    BY <1>7 DEF CorrectionsDone
  <2> HIDE DEF T
  <2>3. [worker EXCEPT !.pc = "requests", !.todo = T] \in Workers
    BY <1>1, <2>1 DEF Workers
  <2> QED BY <2>2, <2>3, IdleIs
<1>8. ASSUME NEW r \in Requests, Recover(r) PROVE worker' \in Workers
  <2>1. worker' = Idle \/ worker' = [worker EXCEPT !.todo = worker.todo \ {r}]
    BY <1>8 DEF Recover
  <2>2. worker.todo \ {r} \in SUBSET Nat
    BY <1>2
  <2>3. [worker EXCEPT !.todo = worker.todo \ {r}] \in Workers
    BY <1>1, <2>2 DEF Workers
  <2> QED BY <2>1, <2>3, IdleIs
<1>9. CASE ReadIndex
  <2> DEFINE x == IF \A e \in DOMAIN execs : execs[e].state # "running" THEN Current ELSE None
  <2>1. x \in Snapshots \cup {None}
    BY CurrentIs
  <2>2. worker' = Idle \/ worker' = [worker EXCEPT !.pc = "receive", !.todo = DOMAIN execs \ {1}, !.index = x]
    BY <1>9 DEF ReadIndex
  <2>3. DOMAIN execs \ {1} \in SUBSET Nat
    BY <1>2
  <2> HIDE DEF x
  <2>4. [worker EXCEPT !.pc = "receive", !.todo = DOMAIN execs \ {1}, !.index = x] \in Workers
    BY <1>1, <2>1, <2>3 DEF Workers
  <2> QED BY <2>2, <2>4, IdleIs
<1>10. ASSUME NEW e, Receive(e) PROVE worker' \in Workers
  <2>1. worker' = [worker EXCEPT !.todo = worker.todo \ {e}] /\ worker.todo \ {e} \in SUBSET Nat
    BY <1>2, <1>10 DEF Receive
  <2>2. [worker EXCEPT !.todo = worker.todo \ {e}] \in Workers
    BY <1>1, <2>1 DEF Workers
  <2> QED BY <2>1, <2>2
<1>11. CASE ReadSnapshot
  <2> DEFINE y == [revision |-> head.revision, remote |-> Remote(0), ops |-> ops]
  <2>1. head \in Heads
    BY <1>11 DEF ReadSnapshot, WorkerInv, TypeOK
  <2>2. y \in Reads
    BY <1>1, <2>1 DEF Heads, Reads, Remote
  <2>3. worker' = Idle \/ worker' = [worker EXCEPT !.pc = "commit", !.read = y]
    BY <1>11 DEF ReadSnapshot
  <2> HIDE DEF y
  <2>4. [worker EXCEPT !.pc = "commit", !.read = y] \in Workers
    BY <1>1, <2>2 DEF Workers
  <2> QED BY <2>3, <2>4, IdleIs
<1>12. CASE Commit \/ Crash
  BY <1>12, IdleIs DEF Commit, Crash
<1> QED BY <1>3, <1>4, <1>5, <1>6, <1>7, <1>8, <1>9, <1>10, <1>11, <1>12 DEF Work

-----------------------------------------------------------------------------
(* The head and the stop of a run. *)

LEMMA Reopens ==
  ASSUME TypeOK, ApplyCorrection
  PROVE  /\ head' \in Heads /\ head'.active /\ head'.revision = HeadRow.revision + 1
         /\ head'.remote = HeadRow.remote /\ HeadRow \in Heads
BY HeadRowIs, HeadOpens DEF ApplyCorrection, Reopened

LEMMA IndexRead ==
  ASSUME head \in Heads, rev \in Nat, head' = [head EXCEPT !.remote = rev]
  PROVE  /\ head' \in Heads /\ head'.remote = rev /\ head'.revision = head.revision
         /\ head'.active = head.active /\ head'.snap = head.snap
BY DEF Heads

LEMMA Handed ==
  ASSUME head \in Heads, NEW s \in Snapshots, Plan \subseteq Instances,
         head' = [head EXCEPT !.active = FALSE, !.snap = s, !.input = InputOf(s)]
  PROVE  /\ head' \in Heads /\ head'.revision = head.revision /\ head'.remote = head.remote
         /\ ~head'.active /\ head'.snap = s
<1>1. InputOf(s) \in Inputs
  BY DEF InputOf, Inputs, Snapshots, Placings
<1> DEFINE j == [head EXCEPT !.active = FALSE, !.snap = s]
<1>2. /\ j \in Heads /\ j.revision = head.revision /\ j.remote = head.remote
      /\ ~j.active /\ j.snap = s
  <2> DEFINE i == [head EXCEPT !.active = FALSE]
  <2>1. i \in Heads /\ i.revision = head.revision /\ i.remote = head.remote /\ ~i.active
    BY DEF Heads
  <2>2. j = [i EXCEPT !.snap = s]
    BY DEF Heads
  <2> HIDE DEF i, j
  <2> QED BY <2>1, <2>2 DEF Heads
<1>3. head' = [j EXCEPT !.input = InputOf(s)]
  BY DEF Heads
<1> HIDE DEF j
<1> QED BY <1>1, <1>2, <1>3 DEF Heads

LEMMA CommitHands ==
  ASSUME TypeOK, WorkerInv, Commit, head' # head
  PROVE  LET s == worker.index IN
         /\ head \in Heads /\ head' \in Heads /\ head'.revision = head.revision /\ head'.remote = head.remote
         /\ ~head'.active /\ head'.snap = s /\ s # None /\ Arrived(s) /\ Covers(s)
         /\ ~Unanswered(ops)
<1> DEFINE s == worker.index
<1>1. /\ worker.pc = "commit" /\ s # None /\ worker.read # None /\ Covers(s) /\ head \in Heads
      /\ worker.read.revision = head.revision => ops = worker.read.ops
  BY DEF Commit, WorkerInv, TypeOK
<1>2. s \in Snapshots /\ Plan \subseteq Instances
  BY <1>1, Lists DEF TypeOK, Workers
<1>3. /\ Arrived(s) /\ head.revision = worker.read.revision /\ ~Unanswered(worker.read.ops)
      /\ head' = [head EXCEPT !.active = FALSE, !.snap = s, !.input = InputOf(s)]
  BY DEF Commit
<1> HIDE DEF s
<1>4. /\ head' \in Heads /\ head'.revision = head.revision /\ head'.remote = head.remote
      /\ ~head'.active /\ head'.snap = s
  BY <1>1, <1>2, <1>3, Handed
<1>5. ~Unanswered(ops)
  BY <1>1, <1>3
<1> QED BY <1>1, <1>3, <1>4, <1>5 DEF s

LEMMA CancelAsks ==
  ASSUME TypeOK, Cancel
  PROVE  /\ intent' \in Intents /\ intent'.epoch = head.revision /\ intent'.blind = (head.remote = None)
         /\ head \in Heads
         /\ intent'.expected = rev \/ intent'.expected = head.remote \/ intent'.blind
<1>1. /\ head \in Heads /\ intent \in Intents \cup {None} /\ rev \in Nat
  BY DEF TypeOK, Cancel
<1> DEFINE n == IF intent = None THEN 1 ELSE intent.no + 1
           x == IF intent # None /\ intent.rejected THEN rev ELSE Remote(head.revision)
<1>2. n \in Nat /\ x \in Nat /\ (x = rev \/ x = head.remote \/ head.remote = None)
  BY <1>1 DEF Heads, Intents, Remote
<1>3. intent' = [no |-> n, epoch |-> head.revision, expected |-> x, blind |-> head.remote = None,
                 acknowledged |-> FALSE, rejected |-> FALSE]
  BY DEF Cancel
<1> HIDE DEF n, x
<1>4. head.revision \in Nat /\ (head.remote = None) \in BOOLEAN
  BY <1>1 DEF Heads
<1>5. /\ intent' \in Intents /\ intent'.epoch = head.revision /\ intent'.blind = (head.remote = None)
      /\ intent'.expected = x
  BY <1>2, <1>3, <1>4 DEF Intents
<1> QED BY <1>1, <1>2, <1>5

LEMMA NoteMarks ==
  ASSUME TypeOK, StopInv, NoteCancel
  PROVE  /\ intent' \in Intents /\ intent \in Intents
         /\ intent'.epoch = intent.epoch /\ intent'.blind = intent.blind /\ intent'.expected = intent.expected
<1>1. intent \in Intents
  BY DEF NoteCancel, StopInv, TypeOK
<1>2. intent' = intent \/ intent' = [intent EXCEPT !.acknowledged = worker.pc = "ok", !.rejected = worker.pc = "refused"]
  BY DEF NoteCancel, Marked
<1> DEFINE b == worker.pc = "ok"
           c == worker.pc = "refused"
<1>3. b \in BOOLEAN /\ c \in BOOLEAN
  OBVIOUS
<1>4. intent' = intent \/ intent' = [intent EXCEPT !.acknowledged = b, !.rejected = c]
  BY <1>2
<1> HIDE DEF b, c
<1> QED BY <1>1, <1>3, <1>4 DEF Intents

LEMMA CorrectAppends ==
  ASSUME TypeOK, NEW e \in DOMAIN execs, NEW i \in Plan, Correct(e, i)
  PROVE  /\ corrs' \in Seq(Nat \X Instances) /\ Len(corrs') = Len(corrs) + 1
         /\ \A c \in 1..Len(corrs) : corrs'[c] = corrs[c]
<1>1. corrs \in Seq(Nat \X Instances) /\ <<e, i>> \in Nat \X Instances
  BY Lists DEF TypeOK
<1>2. corrs' = Append(corrs, <<e, i>>)
  BY DEF Correct
<1> QED BY <1>1, <1>2, AppendProperties

\* A request that is asked after: sent again, left, or told of.
LEMMA Recovers ==
  ASSUME TypeOK, KnownInv, RecordInv, WorkerInv, NEW r \in Requests, Recover(r)
  PROVE  /\ worker.pc = "requests" /\ (worker' = Idle \/ worker' = [worker EXCEPT !.todo = @ \ {r}])
         /\ ops[r] # None /\ UNCHANGED <<execs, corrs, head, intent, receipts>>
         /\ \/ SendOrNot(r) /\ worker' = [worker EXCEPT !.todo = @ \ {r}]
            \/ UNCHANGED <<collector, ops>>
            \/ /\ UNCHANGED collector /\ Outcome(r) /\ known[r].state # "unknown"
               /\ ops[r].status \in {"accepted", "preparing", "started"}
               /\ worker' = [worker EXCEPT !.todo = @ \ {r}]
<1>1. /\ worker.pc = "requests" /\ (worker' = Idle \/ worker' = [worker EXCEPT !.todo = @ \ {r}])
      /\ ops[r] # None /\ ops[r].status \in Blocking \cup {"started"}
  BY DEF Recover, WorkerInv
<1>2. CASE SendOrNot(r) /\ worker' = [worker EXCEPT !.todo = @ \ {r}]
  BY <1>1, <1>2, Sends
<1>3. CASE UNCHANGED <<collector, head, intent, receipts, ops>>
  BY <1>1, <1>3 DEF collector
<1>4. CASE /\ Record(r, Answer(r)) /\ UNCHANGED <<collector, head, intent, receipts>> /\ ops[r].status \notin Unsent
           /\ worker' = [worker EXCEPT !.todo = @ \ {r}]
  <2>1. ops[r].status \in {"accepted", "preparing", "started"}
    BY <1>1, <1>4 DEF Unsent, Blocking
  <2>2. known[r].state # "unknown"
    BY <1>1, <2>1 DEF RecordInv, Told
  <2>3. Outcome(r)
    BY <1>1, <1>4, <2>2, PollTells
  <2> QED BY <1>1, <1>4, <2>1, <2>2, <2>3 DEF collector
<1> QED BY <1>2, <1>3, <1>4 DEF Recover

-----------------------------------------------------------------------------
LEMMA TypeStep ==
  ASSUME TypeOK, KnownInv, RecordInv, StopInv, WorkerInv, [Next]_vars
  PROVE  TypeOK'
<1> USE DEF collector, requests, receipts
<1>1. CASE UNCHANGED vars
  BY <1>1 DEF TypeOK, vars
<1>2. ASSUME NEW r \in Requests, Prepare(r) PROVE TypeOK'
  BY <1>2, PrepareMoves DEF TypeOK, Moved, Prepare
<1>3. ASSUME NEW e \in DOMAIN execs, End(e) PROVE TypeOK'
  BY <1>3, EndMoves DEF TypeOK, Moved, End
<1>4. ASSUME NEW e \in DOMAIN execs, NEW i \in Plan, Correct(e, i) PROVE TypeOK'
  <2>1. /\ corrs' \in Seq(Nat \X Instances) /\ Len(corrs') = Len(corrs) + 1
        /\ Len(corrs) \in Nat /\ cursor \in 0..Len(corrs)
    BY <1>4, CorrectAppends, Lists DEF TypeOK
  <2>2. cursor \in 0..Len(corrs')
    BY <2>1
  <2> QED BY <1>4, <2>1, <2>2 DEF TypeOK, Correct
<1>5. ASSUME NEW r \in Requests, NEW p \in Previews, Submit(r, p) PROVE TypeOK'
  BY <1>5, SubmitKeeps DEF TypeOK, Kept, Submit
<1>6. CASE Cancel
  BY <1>6, CancelAsks DEF TypeOK, Cancel
<1>7. ASSUME NEW r \in Requests, SendNow(r) PROVE TypeOK'
  BY <1>7, Sends DEF TypeOK, SendNow, Outcome
<1>8. CASE Crash
  BY <1>8, WorkerType DEF TypeOK, Crash
<1>9. CASE ReceiveRun
  BY <1>9 DEF TypeOK, ReceiveRun
<1>10. CASE Work
  <2>1. worker' \in Workers
    BY <1>10, WorkerType
  <2>2. CASE Refresh \/ CorrectionsDone \/ ReadSnapshot
    BY <2>1, <2>2 DEF TypeOK, Refresh, CorrectionsDone, ReadSnapshot
  <2>3. CASE SendCancel
    <3>1. UNCHANGED <<rev, corrs, requests, receipts>>
      BY <2>3 DEF SendCancel
    <3>2. UNCHANGED <<execs, known>> \/ Moved
      BY <2>3, <3>1, StopsMove DEF SendCancel
    <3> QED BY <2>1, <3>1, <3>2 DEF TypeOK, Moved
  <2>4. CASE NoteCancel
    BY <2>1, <2>4, NoteMarks DEF TypeOK, NoteCancel
  <2>5. CASE ApplyCorrection
    <3>1. cursor' \in 0..Len(corrs') /\ UNCHANGED <<collector, ops, intent>>
      BY <2>5, Lists DEF ApplyCorrection, TypeOK
    <3> QED BY <2>1, <2>5, <3>1, Reopens DEF TypeOK
  <2>6. ASSUME NEW r \in Requests, Recover(r) PROVE TypeOK'
    <3>1. UNCHANGED <<execs, corrs, head, intent, receipts>>
      BY <2>6, Recovers
    <3>2. /\ ops' \in [Requests -> Operations \cup {None}]
          /\ known' \in [Requests -> Answers] /\ rev' \in Nat
      BY <2>6, Recovers, Sends DEF TypeOK, Outcome
    <3> QED BY <2>1, <3>1, <3>2 DEF TypeOK
  <2>7. CASE ReadIndex
    <3>1. head \in Heads /\ rev \in Nat
      BY <2>7 DEF ReadIndex, WorkerInv, TypeOK
    <3>2. head' \in Heads
      BY <2>7, <3>1, IndexRead DEF ReadIndex
    <3> QED BY <2>1, <2>7, <3>2 DEF TypeOK, ReadIndex
  <2>8. ASSUME NEW e \in DOMAIN execs, Receive(e) PROVE TypeOK'
    BY <2>1, <2>8, ReceiveKeeps DEF TypeOK, Kept, Receive
  <2>9. CASE Commit
    <3>1. head' \in Heads \cup {None}
      BY <2>9, CommitHands DEF TypeOK
    <3> QED BY <2>1, <2>9, <3>1 DEF TypeOK, Commit
  <2> QED BY <1>10, <2>2, <2>3, <2>4, <2>5, <2>6, <2>7, <2>8, <2>9 DEF Work
<1> QED BY <1>1, <1>2, <1>3, <1>4, <1>5, <1>6, <1>7, <1>8, <1>9, <1>10 DEF Next, People, Collector

-----------------------------------------------------------------------------
(* What is known and recorded. *)

\* The revision, and what is known and recorded, only grow.
Grown ==
  /\ Kept /\ rev \in Nat /\ rev' \in Nat /\ rev <= rev'
  /\ \A r \in Requests : /\ known'[r].state # "unknown" =>
                              \/ known[r].state # "unknown"
                              \/ /\ rev < rev' /\ ops[r].status \in Unsent /\ ops[r] # None
                                 /\ worker.pc \in {"idle", "requests"}
                         /\ known[r].state # "unknown" => known'[r].state # "unknown"
                         /\ known[r].state = "started" => known'[r].state = "started"

LEMMA StepGrows ==
  ASSUME TypeOK, KnownInv, RecordInv, StopInv, WorkerInv, [Next]_vars
  PROVE  Grown
<1> USE DEF collector, requests, receipts
<1>1. ops \in [Requests -> Operations \cup {None}] /\ rev \in Nat /\ TypeOK'
  BY TypeStep DEF TypeOK
<1>2. rev' \in Nat /\ (ops' = ops => Kept)
  BY <1>1 DEF TypeOK, Kept
<1>3. CASE UNCHANGED <<rev, known, ops>>
  BY <1>1, <1>2, <1>3 DEF Grown
<1>4. CASE Moved /\ UNCHANGED <<rev, ops>>
  BY <1>1, <1>2, <1>4 DEF Grown, Moved
<1>5. CASE Kept /\ UNCHANGED <<rev, known>>
  BY <1>1, <1>2, <1>5 DEF Grown
<1>6. ASSUME NEW r \in Requests, SendOrNot(r), worker.pc \in {"idle", "requests"} PROVE Grown
  <2>1. Kept /\ Taken(r) /\ ops[r] # None /\ ops[r].status \in Unsent
    BY <1>6, Sends, OutcomeKeeps
  <2> QED BY <1>1, <1>2, <1>6, <2>1 DEF Grown, Taken
<1>7. ASSUME NEW r \in Requests, Recover(r) PROVE Grown
  BY <1>3, <1>5, <1>6, <1>7, Recovers, OutcomeKeeps
<1>8. ASSUME NEW r \in Requests, Prepare(r) PROVE Grown
  BY <1>4, <1>8, PrepareMoves DEF Prepare
<1>9. ASSUME NEW e \in DOMAIN execs, End(e) PROVE Grown
  BY <1>4, <1>9, EndMoves DEF End
<1>10. ASSUME NEW r \in Requests, NEW p \in Previews, Submit(r, p) PROVE Grown
  BY <1>5, <1>10, SubmitKeeps DEF Submit
<1>11. ASSUME NEW e, Receive(e) PROVE Grown
  BY <1>5, <1>11, ReceiveKeeps DEF Receive
<1>12. CASE SendCancel
  <2>1. UNCHANGED <<rev, ops>>
    BY <1>12 DEF SendCancel
  <2>2. UNCHANGED <<execs, known>> \/ Moved
    BY <1>12, <2>1, StopsMove DEF SendCancel
  <2> QED BY <1>3, <1>4, <2>1, <2>2
<1>13. CASE UNCHANGED vars \/ Cancel \/ Refresh \/ NoteCancel \/ ApplyCorrection \/ CorrectionsDone
            \/ ReadIndex \/ ReadSnapshot \/ Commit \/ ReceiveRun \/ Crash
  BY <1>3, <1>13 DEF vars, Cancel, Refresh, NoteCancel, ApplyCorrection, CorrectionsDone, ReadIndex,
     ReadSnapshot, Commit, ReceiveRun, Crash
<1>14. ASSUME NEW e, NEW i, Correct(e, i) PROVE Grown
  BY <1>3, <1>14 DEF Correct
<1> QED BY <1>6, <1>7, <1>8, <1>9, <1>10, <1>11, <1>12, <1>13, <1>14 DEF Next, People, Collector, Work, SendNow

LEMMA KnownKept ==
  ASSUME TypeOK, KnownInv, Kept, execs' = execs,
         UNCHANGED <<known, rev>> \/ \E r \in Requests : Taken(r) /\ ops[r] # None
  PROVE  KnownInv'
<1>1. CASE UNCHANGED <<known, rev>>
  BY <1>1 DEF KnownInv, Kept
<1>2. ASSUME NEW r \in Requests, Taken(r), ops[r] # None, ~UNCHANGED <<known, rev>> PROVE KnownInv'
  <2>1. /\ known[r].state = "unknown" /\ ops[r].expected = rev /\ rev' = rev + 1
        /\ \A q \in Requests \ {r} : known'[q] = known[q]
        /\ known'[r].state = "accepted" /\ known'[r].exec = known[r].exec
    BY <1>2 DEF Taken
  <2>2. rev \in Nat /\ ops \in [Requests -> Operations \cup {None}]
    BY DEF TypeOK
  <2>3. ASSUME NEW q \in Requests
        PROVE  /\ known'[q].state # "unknown" => ops'[q] # None /\ ops'[q].expected < rev'
               /\ known'[q].state = "started" => known'[q].exec \in DOMAIN execs'
               /\ known'[q].state # "started" => known'[q].exec = 0
    <3>1. ops[q] # None => ops[q].expected \in Nat
      BY <2>2 DEF Operations
    <3>2. CASE q = r
      BY <1>2, <2>1, <2>2, <3>1, <3>2 DEF KnownInv, Kept
    <3>3. CASE q # r
      BY <2>1, <2>2, <3>1, <3>3 DEF KnownInv, Kept
    <3> QED BY <3>2, <3>3
  <2>4. ASSUME NEW e \in DOMAIN execs', execs'[e].state = "running"
        PROVE  execs'[e].op \in Requests /\ known'[execs'[e].op].state = "started"
    BY <2>1, <2>4 DEF KnownInv
  <2> QED BY <2>3, <2>4 DEF KnownInv
<1> QED BY <1>1, <1>2

LEMMA KnownStep ==
  ASSUME TypeOK, KnownInv, RecordInv, StopInv, WorkerInv, [Next]_vars
  PROVE  KnownInv'
<1> USE DEF collector, requests, receipts
<1>1. Kept
  BY StepGrows DEF Grown
<1>2. CASE UNCHANGED <<execs, known, rev>>
  BY <1>1, <1>2, KnownKept
<1>3. ASSUME NEW r \in Requests, SendOrNot(r) PROVE KnownInv'
  BY <1>1, <1>3, Sends, KnownKept
<1>4. ASSUME NEW r \in Requests, Recover(r) PROVE KnownInv'
  BY <1>2, <1>3, <1>4, Recovers
<1>5. ASSUME NEW r \in Requests, Prepare(r) PROVE KnownInv'
  BY <1>5, PrepareMoves
<1>6. ASSUME NEW e \in DOMAIN execs, End(e) PROVE KnownInv'
  BY <1>6, EndMoves
<1>7. CASE SendCancel
  <2>1. UNCHANGED <<rev, ops>>
    BY <1>7 DEF SendCancel
  <2> QED BY <1>2, <1>7, <2>1, StopsMove DEF SendCancel
<1>8. CASE UNCHANGED vars \/ Cancel \/ Refresh \/ NoteCancel \/ ApplyCorrection \/ CorrectionsDone
           \/ ReadIndex \/ ReadSnapshot \/ Commit \/ ReceiveRun \/ Crash
  BY <1>2, <1>8 DEF vars, Cancel, Refresh, NoteCancel, ApplyCorrection, CorrectionsDone, ReadIndex,
     ReadSnapshot, Commit, ReceiveRun, Crash
<1>9. ASSUME NEW e, NEW i, Correct(e, i) PROVE KnownInv'
  BY <1>2, <1>9 DEF Correct
<1>10. ASSUME NEW r, NEW p, Submit(r, p) PROVE KnownInv'
  BY <1>2, <1>10 DEF Submit
<1>11. ASSUME NEW e, Receive(e) PROVE KnownInv'
  BY <1>2, <1>11 DEF Receive
<1> QED BY <1>3, <1>4, <1>5, <1>6, <1>7, <1>8, <1>9, <1>10, <1>11 DEF Next, People, Collector, Work, SendNow

\* A step's head: a new epoch, the index, what is handed out, or none.
LEMMA HeadKinds ==
  ASSUME [Next]_vars
  PROVE  \/ head' = head
         \/ \E r \in Requests, p \in Previews : Submit(r, p)
         \/ ApplyCorrection
         \/ ReadIndex /\ head' = [head EXCEPT !.remote = rev]
         \/ Commit /\ head' # head
<1> USE DEF collector, requests, receipts
<1>1. ASSUME NEW r, SendNow(r) \/ Recover(r) PROVE head' = head
  BY <1>1 DEF SendNow, Recover, SendOrNot
<1>2. ASSUME NEW e, NEW i, Correct(e, i) \/ End(e) \/ Prepare(i) \/ Receive(e) PROVE head' = head
  BY <1>2 DEF Correct, End, Prepare, Receive
<1>3. CASE UNCHANGED vars \/ Cancel \/ Refresh \/ SendCancel \/ NoteCancel \/ CorrectionsDone
           \/ ReadSnapshot \/ ReceiveRun \/ Crash
  BY <1>3 DEF vars, Cancel, Refresh, SendCancel, NoteCancel, CorrectionsDone, ReadSnapshot, ReceiveRun, Crash
<1>4. CASE ReadIndex
  BY <1>4 DEF ReadIndex
<1> QED BY <1>1, <1>2, <1>3, <1>4 DEF Next, People, Collector, Work

LEMMA HeadStep ==
  ASSUME TypeOK, KnownInv, RecordInv, StopInv, WorkerInv, [Next]_vars
  PROVE  /\ head # None => head' # None /\ head \in Heads /\ head' \in Heads /\ head.revision <= head'.revision
         /\ head' # None /\ head'.remote # None => head'.remote <= rev'
<1>1. rev <= rev' /\ rev \in Nat /\ rev' \in Nat /\ TypeOK'
  BY StepGrows, TypeStep DEF Grown
<1>2. /\ head \in Heads \cup {None} /\ head' \in Heads \cup {None} /\ None \notin Heads
      /\ head \in Heads => head.revision \in Nat /\ head.remote \in Nat \cup {None}
  BY <1>1, ResumeAssumption DEF TypeOK, Heads
<1> DEFINE Kept2 == /\ head # None => head' # None /\ head \in Heads /\ head' \in Heads /\ head.revision <= head'.revision
                    /\ head' # None /\ head'.remote # None => head'.remote <= rev'
<1>3. ASSUME UNCHANGED head PROVE Kept2
  BY <1>1, <1>2, <1>3 DEF RecordInv
<1>4. ASSUME NEW r \in Requests, NEW p \in Previews, Submit(r, p) PROVE Kept2
  <2>1. /\ head' \in Heads /\ head'.remote = p.expected /\ p.expected <= rev /\ head'.revision = HeadRow.revision + 1
        /\ rev' = rev /\ (head # None => HeadRow = head)
    BY <1>4, SubmitKeeps, HeadRowIs DEF Submit, collector
  <2> QED BY <1>1, <1>2, <2>1
<1>5. CASE ApplyCorrection
  <2>1. /\ head' \in Heads /\ head'.remote = HeadRow.remote /\ head'.revision = HeadRow.revision + 1
        /\ rev' = rev /\ (head # None => HeadRow = head) /\ (head = None => HeadRow.remote = None)
    BY <1>5, Reopens, HeadRowIs DEF ApplyCorrection, NoHead, collector
  <2> QED BY <1>1, <1>2, <2>1 DEF RecordInv
<1>6. CASE ReadIndex /\ head' = [head EXCEPT !.remote = rev]
  <2>1. head \in Heads /\ rev' = rev
    BY <1>2, <1>6 DEF ReadIndex, WorkerInv, collector
  <2>2. head' \in Heads /\ head'.remote = rev /\ head'.revision = head.revision
    BY <1>1, <1>6, <2>1, IndexRead
  <2> QED BY <1>1, <1>2, <2>1, <2>2
<1>7. CASE Commit /\ head' # head
  <2>1. /\ head \in Heads /\ head' \in Heads /\ head'.revision = head.revision /\ head'.remote = head.remote
        /\ rev' = rev
    BY <1>7, CommitHands DEF Commit, collector
  <2> QED BY <1>1, <1>2, <2>1 DEF RecordInv
<1> QED BY <1>3, <1>4, <1>5, <1>6, <1>7, HeadKinds

\* A step's records: a new request, an answer, a receipt, or none.
LEMMA RecordKinds ==
  ASSUME TypeOK, KnownInv, RecordInv, StopInv, WorkerInv, [Next]_vars
  PROVE  \/ ops' = ops
         \/ \E r \in Requests, p \in Previews : Submit(r, p)
         \/ \E r \in Requests : /\ ops[r] # None /\ Outcome(r) /\ worker.pc \in {"idle", "requests"}
                                /\ ops[r].status \in Blocking \cup {"started"}
         \/ \E e \in DOMAIN execs : Receive(e)
<1> USE DEF collector, requests, receipts
<1>1. ASSUME NEW r \in Requests, SendNow(r) \/ Recover(r)
      PROVE  ops' = ops \/ (ops[r] # None /\ Outcome(r) /\ worker.pc \in {"idle", "requests"}
                            /\ ops[r].status \in Blocking \cup {"started"})
  BY <1>1, Sends, Recovers DEF SendNow, Unsent, Blocking
<1>2. ASSUME NEW e, NEW i, Correct(e, i) \/ End(e) \/ Prepare(i) PROVE ops' = ops
  BY <1>2 DEF Correct, End, Prepare
<1>3. CASE UNCHANGED vars \/ Cancel \/ Refresh \/ SendCancel \/ NoteCancel \/ ApplyCorrection \/ CorrectionsDone
           \/ ReadIndex \/ ReadSnapshot \/ Commit \/ ReceiveRun \/ Crash
  BY <1>3 DEF vars, Cancel, Refresh, SendCancel, NoteCancel, ApplyCorrection, CorrectionsDone, ReadIndex,
     ReadSnapshot, Commit, ReceiveRun, Crash
<1> QED BY <1>1, <1>2, <1>3 DEF Next, People, Collector, Work

LEMMA RecordStep ==
  ASSUME TypeOK, KnownInv, RecordInv, StopInv, WorkerInv, [Next]_vars
  PROVE  RecordInv'
<1>1. /\ Grown /\ rev \in Nat /\ rev' \in Nat /\ rev <= rev'
  BY StepGrows DEF Grown
<1>2. /\ head # None => head' # None /\ head \in Heads /\ head' \in Heads /\ head.revision <= head'.revision
      /\ head' # None /\ head'.remote # None => head'.remote <= rev'
  BY HeadStep
<1>3. ops \in [Requests -> Operations \cup {None}]
  BY DEF TypeOK
<1> DEFINE Told2(r) == /\ head' # None /\ ops'[r].epoch <= head'.revision /\ ops'[r].expected <= rev'
                       /\ ops'[r].status \in Told => known'[r].state # "unknown"
                       /\ ops'[r].status = "started" \/ ops'[r].exec # 0 => known'[r].state = "started"
<1>4. ASSUME NEW r \in Requests, ops[r] # None
      PROVE  /\ head' # None /\ ops[r].epoch <= head'.revision /\ ops[r].expected <= rev'
             /\ ops[r].status \in Told => known'[r].state # "unknown"
             /\ ops[r].status = "started" \/ ops[r].exec # 0 => known'[r].state = "started"
  <2>1. ops[r].epoch \in Nat /\ ops[r].expected \in Nat
    BY <1>3, <1>4 DEF Operations
  <2>2. /\ head # None /\ ops[r].epoch <= head.revision /\ ops[r].expected <= rev
        /\ ops[r].status \in Told => known[r].state # "unknown"
        /\ ops[r].status = "started" \/ ops[r].exec # 0 => known[r].state = "started"
    BY <1>4 DEF RecordInv
  <2>3. head.revision \in Nat /\ head'.revision \in Nat
    BY <1>2, <2>2 DEF Heads
  <2>4. /\ ops[r].status \in Told => known'[r].state # "unknown"
        /\ ops[r].status = "started" \/ ops[r].exec # 0 => known'[r].state = "started"
    BY <1>1, <2>2 DEF Grown
  <2> QED BY <1>1, <1>2, <2>1, <2>2, <2>3, <2>4
<1>5. CASE ops' = ops
  BY <1>2, <1>4, <1>5 DEF RecordInv
<1>6. ASSUME NEW q \in Requests, NEW p \in Previews, Submit(q, p) PROVE RecordInv'
  <2>1. /\ ops'[q].status = "pending" /\ ops'[q].exec = 0 /\ ops'[q].expected <= rev
        /\ ops'[q].epoch = head'.revision /\ head' \in Heads /\ head'.revision \in Nat
        /\ \A r \in Requests \ {q} : ops'[r] = ops[r]
        /\ ops'[q].expected \in Nat
    BY <1>6, SubmitKeeps
  <2>2. ASSUME NEW r \in Requests, ops'[r] # None PROVE Told2(r)
    <3>1. CASE r = q
      BY <1>1, <2>1, <3>1, ResumeAssumption DEF Told
    <3>2. CASE r # q
      BY <1>4, <2>1, <2>2, <3>2
    <3> QED BY <3>1, <3>2
  <2> QED BY <1>2, <2>2 DEF RecordInv
<1>7. ASSUME NEW q \in Requests, ops[q] # None, Outcome(q) PROVE RecordInv'
  <2>1. TypeOK' /\ KnownInv'
    BY TypeStep, KnownStep
  <2>2. ASSUME NEW r \in Requests, ops'[r] # None PROVE Told2(r)
    <3>1. CASE r = q
      <4>1. /\ head' # None /\ ops'[q].epoch <= head'.revision /\ ops'[q].expected <= rev'
        BY <1>4, <1>7 DEF Outcome
      <4>2. ops'[q].status \in Told => known'[q].state # "unknown"
        BY <1>7 DEF Outcome, Told
      <4>3. ops'[q].exec # 0 => known'[q].state = "started"
        BY <1>4, <1>7, <2>1 DEF Outcome, KnownInv
      <4>4. ops'[q].status = "started" => known'[q].state = "started"
        BY <1>7 DEF Outcome
      <4> QED BY <3>1, <4>1, <4>2, <4>3, <4>4
    <3>2. CASE r # q
      BY <1>4, <1>7, <2>2, <3>2 DEF Outcome
    <3> QED BY <3>1, <3>2
  <2> QED BY <1>2, <2>2 DEF RecordInv
<1>8. ASSUME NEW e \in DOMAIN execs, Receive(e) PROVE RecordInv'
  <2>1. e # 0
    BY Lists
  <2>2. ASSUME NEW r \in Requests, ops'[r] # None PROVE Told2(r)
    <3>1. CASE ops'[r] = ops[r]
      BY <1>4, <2>2, <3>1
    <3>2. CASE /\ ops[r] # None /\ ops[r].exec = e
               /\ ops'[r].status = "completed" /\ ops'[r].exec = e
      <4>1. ops'[r].expected = ops[r].expected /\ ops'[r].epoch = ops[r].epoch
        BY <1>8, <3>2, ReceiveKeeps DEF Kept
      <4>2. known'[r].state = "started"
        BY <1>4, <2>1, <3>2
      <4> QED BY <1>4, <3>2, <4>1, <4>2
    <3> QED BY <1>8, <3>1, <3>2, ReceiveKeeps
  <2> QED BY <1>2, <2>2 DEF RecordInv
<1> QED BY <1>5, <1>6, <1>7, <1>8, RecordKinds

-----------------------------------------------------------------------------
(* Stops. *)

LEMMA PastStays ==
  ASSUME TypeOK, KnownInv, Grown, NEW s \in Intents \cup {None}, Past(s)
  PROVE  s # None /\ ~s.blind =>
           /\ s.expected <= rev'
           /\ \A r \in Requests : known'[r].state # "unknown" /\ ops'[r].epoch > s.epoch => s.expected < rev'
<1> SUFFICES ASSUME s # None, ~s.blind
             PROVE  /\ s.expected <= rev'
                    /\ \A r \in Requests : known'[r].state # "unknown" /\ ops'[r].epoch > s.epoch => s.expected < rev'
  OBVIOUS
<1>1. s.expected \in Nat /\ rev \in Nat /\ rev' \in Nat /\ rev <= rev' /\ s.expected <= rev
  BY DEF Intents, Grown, Past
<1>2. ASSUME NEW r \in Requests, known'[r].state # "unknown", ops'[r].epoch > s.epoch PROVE s.expected < rev'
  <2>1. CASE rev < rev'
    BY <1>1, <2>1
  <2>2. CASE known[r].state # "unknown"
    <3>1. ops'[r].epoch = ops[r].epoch
      BY <2>2 DEF KnownInv, Grown, Kept
    <3>2. s.expected < rev
      BY <1>2, <2>2, <3>1 DEF Past
    <3> QED BY <1>1, <3>2
  <2> QED BY <1>2, <2>1, <2>2 DEF Grown
<1> QED BY <1>1, <1>2

\* A stop that is asked for now: nothing was submitted after it.
LEMMA CancelPast ==
  ASSUME TypeOK, KnownInv, RecordInv, Cancel
  PROVE  Past(intent)'
<1>1. /\ intent' \in Intents /\ intent'.epoch = head.revision /\ intent'.blind = (head.remote = None)
      /\ head \in Heads
      /\ intent'.expected = rev \/ intent'.expected = head.remote \/ intent'.blind
  BY CancelAsks
<1>2. rev' = rev /\ rev \in Nat /\ known' = known /\ ops' = ops
  BY DEF Cancel, collector, TypeOK
<1>3. ASSUME ~intent'.blind PROVE intent'.expected <= rev'
  <2>1. head # None
    BY <1>1, ResumeAssumption
  <2>2. head.remote # None /\ head.remote <= rev
    BY <1>1, <1>3, <2>1 DEF RecordInv
  <2>3. intent'.expected = rev \/ intent'.expected = head.remote
    BY <1>1, <1>3
  <2> QED BY <1>2, <2>2, <2>3
<1>4. ASSUME NEW r \in Requests, known'[r].state # "unknown", ops'[r].epoch > intent'.epoch PROVE FALSE
  <2>1. ops[r] # None /\ ops[r].epoch <= head.revision
    BY <1>2, <1>4 DEF KnownInv, RecordInv
  <2>2. ops[r].epoch \in Nat /\ head.revision \in Nat
    BY <1>1, <2>1 DEF TypeOK, Heads, Operations
  <2> QED BY <1>1, <1>2, <1>4, <2>1, <2>2
<1> QED BY <1>3, <1>4 DEF Past

\* A step's stop: the worker keeps it, drops it, or takes the one that was asked for.
LEMMA WorkerStops ==
  ASSUME TypeOK, WorkerInv, [Next]_vars
  PROVE  \/ worker' = worker
         \/ worker'.pc \notin {"cancel", "ok", "refused"} /\ worker'.stop \in {worker.stop, None, intent}
         \/ worker.pc = "cancel" /\ worker'.stop = worker.stop
         \/ worker'.stop = intent /\ intent # None
<1>1. worker \in Workers
  BY DEF TypeOK
<1>2. ASSUME NEW r, SendNow(r) \/ Prepare(r) PROVE worker' = worker
  BY <1>2 DEF SendNow, Prepare
<1>3. ASSUME NEW e, NEW i, Correct(e, i) \/ End(e) \/ Submit(e, i) PROVE worker' = worker
  BY <1>3 DEF Correct, End, Submit
<1>4. CASE UNCHANGED vars \/ ReceiveRun \/ Cancel \/ ApplyCorrection
  BY <1>4 DEF vars, ReceiveRun, Cancel, ApplyCorrection
<1>5. Idle.pc = "idle" /\ Idle.stop = None
  BY DEF Idle
<1>6. ASSUME worker.pc \in {"requests", "receive"}, NEW T, worker' = [worker EXCEPT !.todo = T]
      PROVE  worker'.pc \notin {"cancel", "ok", "refused"} /\ worker'.stop = worker.stop
  BY <1>1, <1>6 DEF Workers
<1>7. ASSUME NEW r, Recover(r)
      PROVE  worker' = Idle \/ (worker'.pc \notin {"cancel", "ok", "refused"} /\ worker'.stop = worker.stop)
  BY <1>6, <1>7 DEF Recover
<1>8. ASSUME NEW e, Receive(e) PROVE worker'.pc \notin {"cancel", "ok", "refused"} /\ worker'.stop = worker.stop
  BY <1>6, <1>8 DEF Receive
<1>9. CASE Refresh
  <2>1. CASE intent # None /\ ~intent.acknowledged /\ ~intent.rejected
    BY <1>9, <2>1 DEF Refresh, Idle
  <2>2. CASE ~(intent # None /\ ~intent.acknowledged /\ ~intent.rejected)
    BY <1>9, <2>2 DEF Refresh, Idle
  <2> QED BY <2>1, <2>2
<1>10. CASE SendCancel
  BY <1>1, <1>10 DEF SendCancel, Workers
<1>11. CASE NoteCancel
  BY <1>1, <1>11 DEF NoteCancel, Workers
<1>12. CASE CorrectionsDone
  BY <1>1, <1>5, <1>12 DEF CorrectionsDone, Workers
<1>13. CASE ReadIndex
  BY <1>1, <1>5, <1>13 DEF ReadIndex, Workers
<1>14. CASE ReadSnapshot
  BY <1>1, <1>5, <1>14 DEF ReadSnapshot, Workers
<1>15. CASE Commit \/ Crash
  BY <1>5, <1>15 DEF Commit, Crash
<1> QED BY <1>2, <1>3, <1>4, <1>5, <1>7, <1>8, <1>9, <1>10, <1>11, <1>12, <1>13, <1>14, <1>15
        DEF Next, People, Collector, Work

LEMMA IntentKinds ==
  ASSUME [Next]_vars
  PROVE  intent' = intent \/ Cancel \/ NoteCancel
<1> USE DEF collector, requests, receipts
<1>1. ASSUME NEW r, SendNow(r) \/ Recover(r) PROVE intent' = intent
  BY <1>1 DEF SendNow, Recover, SendOrNot
<1>2. ASSUME NEW e, NEW i, Correct(e, i) \/ End(e) \/ Prepare(i) \/ Receive(e) \/ Submit(e, i) PROVE intent' = intent
  BY <1>2 DEF Correct, End, Prepare, Receive, Submit
<1>3. CASE UNCHANGED vars \/ Refresh \/ SendCancel \/ ApplyCorrection \/ CorrectionsDone \/ ReadIndex
           \/ ReadSnapshot \/ Commit \/ ReceiveRun \/ Crash
  BY <1>3 DEF vars, Refresh, SendCancel, ApplyCorrection, CorrectionsDone, ReadIndex, ReadSnapshot, Commit,
     ReceiveRun, Crash
<1> QED BY <1>1, <1>2, <1>3 DEF Next, People, Collector, Work

LEMMA StopStep ==
  ASSUME TypeOK, KnownInv, RecordInv, StopInv, WorkerInv, [Next]_vars
  PROVE  StopInv'
<1>1. Grown /\ intent \in Intents \cup {None} /\ worker.stop \in Intents \cup {None} /\ None \notin Intents
  BY StepGrows, ResumeAssumption DEF TypeOK, Workers
<1> DEFINE Later(s) == s # None /\ ~s.blind =>
              /\ s.expected <= rev'
              /\ \A r \in Requests : known'[r].state # "unknown" /\ ops'[r].epoch > s.epoch => s.expected < rev'
<1>2. Later(intent) /\ Later(worker.stop) /\ Later(None)
  BY <1>1, PastStays DEF StopInv
<1>3. Past(intent)' /\ (intent # None => intent' # None)
  <2>1. CASE intent' = intent
    BY <1>2, <2>1 DEF Past
  <2>2. CASE Cancel
    BY <1>1, <2>2, CancelPast, CancelAsks
  <2>3. CASE NoteCancel
    <3>1. /\ intent' \in Intents /\ intent \in Intents
          /\ intent'.epoch = intent.epoch /\ intent'.blind = intent.blind /\ intent'.expected = intent.expected
      BY <2>3, NoteMarks
    <3> QED BY <1>1, <1>2, <3>1 DEF Past
  <2> QED BY <2>1, <2>2, <2>3, IntentKinds
<1>4. Past(worker.stop)'
  <2>1. worker'.stop \in {worker.stop, None, intent}
    BY WorkerStops
  <2>2. Later(worker'.stop)
    BY <1>2, <2>1
  <2> QED BY <2>2 DEF Past
<1>5. worker'.pc \in {"cancel", "ok", "refused"} => worker'.stop # None /\ intent' # None
  BY <1>3, WorkerStops DEF StopInv
<1> QED BY <1>3, <1>4, <1>5 DEF StopInv

-----------------------------------------------------------------------------
(* What is received and handed out. *)

\* Receipts and corrections stay, and a pass applies corrections before it reads the index.
LEMMA Sources ==
  ASSUME TypeOK, KnownInv, RecordInv, StopInv, WorkerInv, [Next]_vars
  PROVE  /\ rows \subseteq rows' /\ Plan' = Plan
         /\ \/ ApplyCorrection
            \/ cursor' = cursor /\ \A c \in 1..cursor : corrs'[c] = corrs[c]
<1> USE DEF collector, requests, receipts
<1>1. ASSUME NEW r \in Requests, SendNow(r) \/ Recover(r)
      PROVE  UNCHANGED <<rows, execs, cursor, corrs>>
  BY <1>1, Sends, Recovers DEF SendNow
<1>2. ASSUME NEW r \in Requests, Prepare(r) PROVE UNCHANGED <<rows, cursor, corrs>> /\ Plan' = Plan
  BY <1>2, PrepareMoves, PlanStays DEF Prepare
<1>3. ASSUME NEW e \in DOMAIN execs, End(e) PROVE UNCHANGED <<rows, cursor, corrs>> /\ Plan' = Plan
  BY <1>3, EndMoves, PlanStays DEF End
<1>4. CASE SendCancel
  <2>1. UNCHANGED <<rev, ops, rows, cursor, corrs>>
    BY <1>4 DEF SendCancel
  <2>2. execs' = execs \/ Moved
    BY <1>4, <2>1, StopsMove DEF SendCancel
  <2> QED BY <2>1, <2>2, PlanStays
<1>5. ASSUME NEW e \in DOMAIN execs, NEW i \in Plan, Correct(e, i)
      PROVE  UNCHANGED <<rows, execs, cursor>> /\ \A c \in 1..cursor : corrs'[c] = corrs[c]
  BY <1>5, CorrectAppends, Lists DEF Correct
<1>6. ASSUME NEW r, NEW p, Submit(r, p) PROVE UNCHANGED <<rows, execs, cursor, corrs>>
  BY <1>6 DEF Submit
<1>7. ASSUME NEW e, Receive(e) PROVE UNCHANGED <<execs, cursor, corrs>> /\ rows \subseteq rows'
  BY <1>7 DEF Receive
<1>8. CASE ReceiveRun
  BY <1>8, PlanStays DEF ReceiveRun
<1>9. CASE UNCHANGED vars \/ Cancel \/ Refresh \/ NoteCancel \/ CorrectionsDone \/ ReadIndex
           \/ ReadSnapshot \/ Commit \/ Crash
  BY <1>9, PlanStays DEF vars, Cancel, Refresh, NoteCancel, CorrectionsDone, ReadIndex, ReadSnapshot, Commit, Crash
<1>10. CASE ApplyCorrection
  BY <1>10, PlanStays DEF ApplyCorrection
<1>11. ASSUME NEW e \in DOMAIN execs, NEW i \in Plan, Correct(e, i)
       PROVE  rows \subseteq rows' /\ Plan' = Plan /\ cursor' = cursor /\ \A c \in 1..cursor : corrs'[c] = corrs[c]
  BY <1>5, <1>11, PlanStays
<1>12. ASSUME NEW r \in Requests, SendNow(r) \/ Recover(r) \/ \E p : Submit(r, p)
       PROVE  rows \subseteq rows' /\ Plan' = Plan /\ cursor' = cursor /\ corrs' = corrs
  BY <1>1, <1>6, <1>12, PlanStays
<1>13. ASSUME NEW e, Receive(e) PROVE rows \subseteq rows' /\ Plan' = Plan /\ cursor' = cursor /\ corrs' = corrs
  BY <1>7, <1>13, PlanStays
<1> QED BY <1>2, <1>3, <1>4, <1>8, <1>9, <1>10, <1>11, <1>12, <1>13 DEF Next, People, Collector, Work

LEMMA CoversStays ==
  ASSUME TypeOK, KnownInv, Kept, Plan' = Plan, NEW s, Covers(s),
         \A r \in Requests : known'[r].state # "unknown" => known[r].state # "unknown",
         cursor' = cursor, \A c \in 1..cursor : corrs'[c] = corrs[c]
  PROVE  /\ \A r \in Requests : known'[r].state # "unknown" => ops'[r].expected < s.rev
         /\ \A i \in Plan' : s.corr[i] = 0 => \A c \in 1..cursor' : corrs'[c] # <<s.of[i], i>>
<1>1. ASSUME NEW r \in Requests, known'[r].state # "unknown" PROVE ops'[r].expected < s.rev
  BY <1>1 DEF Covers, KnownInv, Kept
<1>2. ASSUME NEW i \in Plan', s.corr[i] = 0, NEW c \in 1..cursor' PROVE corrs'[c] # <<s.of[i], i>>
  BY <1>2 DEF Covers
<1> QED BY <1>1, <1>2

\* A step of someone else: what the worker holds stays true.
LEMMA OthersKeep ==
  ASSUME TypeOK, KnownInv, RecordInv, StopInv, WorkerInv, [Next]_vars, worker' = worker,
         ops' = ops \/ \E r \in Requests, p \in Previews : Submit(r, p)
  PROVE  WorkerInv'
<1>1. Grown /\ Kept /\ worker \in Workers
  BY StepGrows DEF Grown, TypeOK
<1>2. head # None => head' # None /\ head \in Heads /\ head' \in Heads /\ head.revision <= head'.revision
  BY HeadStep
<1>3. CASE worker.pc \notin {"requests", "receive", "commit"}
  BY <1>3 DEF WorkerInv
<1>4. ASSUME worker.pc = "requests" PROVE WorkerInv'
  <2>1. ASSUME NEW r \in worker.todo \cap Requests PROVE ops'[r] = ops[r]
    BY <1>4, SubmitKeeps DEF WorkerInv
  <2> QED BY <1>2, <1>4, <2>1 DEF WorkerInv
<1>5. ASSUME worker.pc \in {"receive", "commit"} PROVE WorkerInv'
  <2>1. \A r \in Requests : known'[r].state # "unknown" => known[r].state # "unknown"
    BY <1>1, <1>5 DEF Grown
  <2>2. Plan' = Plan /\ cursor' = cursor /\ \A c \in 1..cursor : corrs'[c] = corrs[c]
    BY <1>5, Sources DEF ApplyCorrection
  <2>3. worker.index # None => Covers(worker.index)'
    <3>1. SUFFICES ASSUME worker.index # None PROVE Covers(worker.index)'
      OBVIOUS
    <3>2. Covers(worker.index)
      BY <1>5, <3>1 DEF WorkerInv
    <3>3. /\ \A r \in Requests : known'[r].state # "unknown" => ops'[r].expected < worker.index.rev
          /\ \A i \in Plan' : worker.index.corr[i] = 0 => \A c \in 1..cursor' : corrs'[c] # <<worker.index.of[i], i>>
      BY <1>1, <2>1, <2>2, <3>2, CoversStays
    <3> QED BY <3>3 DEF Covers
  <2>4. head # None /\ head' # None
    BY <1>2, <1>5 DEF WorkerInv
  <2>5. CASE worker.pc = "receive"
    BY <2>3, <2>4, <2>5 DEF WorkerInv
  <2>6. CASE worker.pc = "commit"
    <3>1. /\ worker.index # None /\ worker.read # None /\ worker.read.revision <= head.revision
          /\ worker.read.revision = head.revision => ops = worker.read.ops
          /\ worker.read \in Reads
      BY <1>1, <2>6 DEF WorkerInv, Workers
    <3>2. worker.read.revision \in Nat /\ head.revision \in Nat /\ head'.revision \in Nat
      BY <1>2, <2>4, <3>1 DEF Reads, Heads
    <3>3. worker.read.revision <= head'.revision
      BY <1>2, <2>4, <3>1, <3>2
    <3>4. ASSUME worker.read.revision = head'.revision PROVE ops' = worker.read.ops
      <4>1. ASSUME NEW r \in Requests, NEW p \in Previews, Submit(r, p) PROVE FALSE
        <5>1. head'.revision = HeadRow.revision + 1 /\ HeadRow = head
          BY <2>4, <4>1, SubmitKeeps, HeadRowIs
        <5> QED BY <3>1, <3>2, <3>4, <5>1
      <4>2. head.revision = worker.read.revision
        BY <1>2, <2>4, <3>1, <3>2, <3>4
      <4> QED BY <3>1, <4>1, <4>2
    <3> QED BY <2>3, <2>4, <2>6, <3>1, <3>3, <3>4 DEF WorkerInv
  <2> QED BY <1>5, <2>5, <2>6
<1> QED BY <1>3, <1>4, <1>5

LEMMA RecoverKeeps ==
  ASSUME TypeOK, KnownInv, RecordInv, StopInv, WorkerInv, NEW r \in Requests, Recover(r)
  PROVE  WorkerInv'
<1>1. CASE worker' = Idle
  BY <1>1 DEF WorkerInv, Idle
<1>2. CASE worker' = [worker EXCEPT !.todo = @ \ {r}]
  <2>1. worker.pc = "requests" /\ worker \in Workers /\ head' = head
    BY Recovers DEF TypeOK
  <2>2. worker'.pc = "requests" /\ worker'.todo = worker.todo \ {r}
    BY <1>2, <2>1 DEF Workers
  <2>3. \A q \in Requests \ {r} : ops'[q] = ops[q]
    BY Recovers, Sends DEF Outcome
  <2> QED BY <2>1, <2>2, <2>3 DEF WorkerInv
<1> QED BY <1>1, <1>2, Recovers

LEMMA IndexKeeps ==
  ASSUME TypeOK, KnownInv, RecordInv, StopInv, WorkerInv, ReadIndex
  PROVE  WorkerInv'
<1>1. CASE worker' = Idle
  BY <1>1 DEF WorkerInv, Idle
<1>2. CASE /\ worker' = [worker EXCEPT !.pc = "receive", !.todo = DOMAIN execs \ {1},
                                      !.index = IF \A e \in DOMAIN execs : execs[e].state # "running" THEN Current ELSE None]
           /\ head' = [head EXCEPT !.remote = rev]
  <2>1. head \in Heads /\ worker \in Workers /\ rev \in Nat
    BY DEF ReadIndex, WorkerInv, TypeOK
  <2>2. worker'.pc = "receive" /\ worker'.index \in {Current, None}
    BY <1>2, <2>1 DEF Workers
  <2>3. head' # None
    BY <1>2, <2>1, IndexRead, ResumeAssumption
  <2>4. UNCHANGED <<known, execs, corrs, ops, cursor>>
    BY DEF ReadIndex, collector
  <2>5. Covers(Current)
    BY CurrentIs DEF Covers, KnownInv
  <2>6. ASSUME worker'.index # None PROVE Covers(worker.index)'
    BY <2>2, <2>4, <2>5, <2>6, PlanStays DEF Covers
  <2> QED BY <2>2, <2>3, <2>6 DEF WorkerInv
<1> QED BY <1>1, <1>2 DEF ReadIndex

LEMMA ReceiptKeeps ==
  ASSUME TypeOK, KnownInv, RecordInv, StopInv, WorkerInv, NEW e, Receive(e)
  PROVE  WorkerInv'
<1>1. worker \in Workers /\ worker.pc = "receive" /\ worker' = [worker EXCEPT !.todo = @ \ {e}]
  BY DEF TypeOK, Receive
<1>2. worker'.pc = "receive" /\ worker'.index = worker.index
  BY <1>1 DEF Workers
<1>3. Kept /\ UNCHANGED <<known, execs, corrs, cursor, head>>
  BY ReceiveKeeps DEF Receive, collector
<1>4. ASSUME worker'.index # None PROVE Covers(worker.index)'
  <2>1. Covers(worker.index)
    BY <1>1, <1>2, <1>4 DEF WorkerInv
  <2>2. /\ \A r \in Requests : known'[r].state # "unknown" => ops'[r].expected < worker.index.rev
        /\ \A i \in Plan' : worker.index.corr[i] = 0 => \A c \in 1..cursor' : corrs'[c] # <<worker.index.of[i], i>>
    BY <1>3, <2>1, CoversStays, PlanStays
  <2> QED BY <1>2, <2>2 DEF Covers
<1> QED BY <1>1, <1>2, <1>3, <1>4 DEF WorkerInv

LEMMA SnapshotKeeps ==
  ASSUME TypeOK, KnownInv, RecordInv, StopInv, WorkerInv, ReadSnapshot
  PROVE  WorkerInv'
<1>1. CASE worker' = Idle
  BY <1>1 DEF WorkerInv, Idle
<1>2. CASE /\ worker.index # None
           /\ worker' = [worker EXCEPT !.pc = "commit", !.read = [revision |-> head.revision, remote |-> Remote(0), ops |-> ops]]
  <2> DEFINE y == [revision |-> head.revision, remote |-> Remote(0), ops |-> ops]
  <2>1. head \in Heads /\ worker \in Workers /\ worker.pc = "receive" /\ ops \in [Requests -> Operations \cup {None}]
    BY DEF ReadSnapshot, WorkerInv, TypeOK
  <2>2. head.revision \in Nat /\ y \in Reads
    BY <2>1 DEF Heads, Remote, Reads
  <2>3. y.revision = head.revision /\ y.ops = ops /\ y # None
    BY <2>2, ResumeAssumption
  <2>4. worker' = [worker EXCEPT !.pc = "commit", !.read = y]
    BY <1>2
  <2> HIDE DEF y
  <2>5. worker'.pc = "commit" /\ worker'.read = y /\ worker'.index = worker.index
    BY <2>1, <2>4 DEF Workers
  <2>6. UNCHANGED <<known, execs, corrs, ops, cursor, head>>
    BY DEF ReadSnapshot, collector, requests, receipts
  <2>7. Covers(worker.index)'
    BY <1>2, <2>1, <2>5, <2>6, PlanStays DEF Covers, WorkerInv
  <2>8. head' # None
    BY <2>1, <2>6, ResumeAssumption
  <2> QED BY <1>2, <2>2, <2>3, <2>5, <2>6, <2>7, <2>8 DEF WorkerInv
<1> QED BY <1>1, <1>2 DEF ReadSnapshot

LEMMA WorkerStep ==
  ASSUME TypeOK, KnownInv, RecordInv, StopInv, WorkerInv, [Next]_vars
  PROVE  WorkerInv'
<1> USE DEF requests
<1>1. worker \in Workers
  BY DEF TypeOK
<1>2. CASE worker'.pc \notin {"requests", "receive", "commit"}
  BY <1>2 DEF WorkerInv
<1>3. CASE worker' = worker /\ (ops' = ops \/ \E r \in Requests, p \in Previews : Submit(r, p))
  BY <1>3, OthersKeep
<1>4. ASSUME NEW e, NEW i, Correct(e, i) \/ End(e) \/ Prepare(i) PROVE WorkerInv'
  BY <1>3, <1>4 DEF Correct, End, Prepare
<1>5. ASSUME NEW r \in Requests, NEW p \in Previews, Submit(r, p) PROVE WorkerInv'
  BY <1>3, <1>5 DEF Submit
<1>6. CASE UNCHANGED vars \/ Cancel \/ ReceiveRun
  BY <1>3, <1>6 DEF vars, Cancel, ReceiveRun
<1>7. ASSUME NEW r, SendNow(r) PROVE WorkerInv'
  BY <1>2, <1>7 DEF SendNow
<1>8. CASE Refresh \/ Commit \/ Crash
  <2>1. CASE Commit \/ Crash
    BY <1>2, <2>1 DEF Commit, Crash, Idle
  <2>2. CASE Refresh
    <3> DEFINE c == IF intent # None /\ ~intent.acknowledged /\ ~intent.rejected THEN "cancel" ELSE "corrections"
    <3>1. worker'.pc = c
      BY <2>2 DEF Refresh, Idle
    <3> QED BY <1>2, <3>1
  <2> QED BY <1>8, <2>1, <2>2
<1>9. CASE SendCancel \/ NoteCancel \/ ApplyCorrection
  <2>1. worker'.pc \in {"ok", "refused", "corrections"}
    BY <1>1, <1>9 DEF SendCancel, NoteCancel, ApplyCorrection, Workers
  <2> QED BY <1>2, <2>1
<1>10. CASE CorrectionsDone
  <2>1. CASE worker' = Idle
    BY <1>2, <2>1 DEF Idle
  <2>2. CASE head # None /\ worker' = [worker EXCEPT !.pc = "requests",
                     !.todo = {r \in Requests : ops[r] # None /\ ops[r].status \in Blocking \cup {"started"}}]
    <3>1. worker'.pc = "requests" /\ worker'.todo = {r \in Requests : ops[r] # None /\ ops[r].status \in Blocking \cup {"started"}}
      BY <1>1, <2>2 DEF Workers
    <3>2. head' = head /\ ops' = ops
      BY <1>10 DEF CorrectionsDone
    <3> QED BY <2>2, <3>1, <3>2 DEF WorkerInv
  <2> QED BY <1>10, <2>1, <2>2 DEF CorrectionsDone
<1> QED BY <1>4, <1>5, <1>6, <1>7, <1>8, <1>9, <1>10, RecoverKeeps, IndexKeeps, ReceiptKeeps, SnapshotKeeps
        DEF Next, People, Collector, Work

-----------------------------------------------------------------------------
\* What is handed out: it was when the head last settled, or it is now.
LEMMA SettledKinds ==
  ASSUME TypeOK, KnownInv, RecordInv, StopInv, WorkerInv, [Next]_vars, Settled'
  PROVE  \/ Settled /\ head'.snap = head.snap /\ ~ApplyCorrection /\ ~(\E r \in Requests, p \in Previews : Submit(r, p))
         \/ Commit /\ head' # head
<1>1. ASSUME NEW r \in Requests, NEW p \in Previews, Submit(r, p) PROVE FALSE
  BY <1>1, SubmitKeeps DEF Settled
<1>2. ~ApplyCorrection
  BY Reopens DEF Settled
<1>3. CASE head' = head
  BY <1>1, <1>2, <1>3 DEF Settled
<1>4. CASE ReadIndex /\ head' = [head EXCEPT !.remote = rev]
  <2>1. head \in Heads /\ rev \in Nat
    BY <1>4 DEF ReadIndex, WorkerInv, TypeOK
  <2>2. head'.active = head.active /\ head'.snap = head.snap /\ head # None
    BY <1>4, <2>1, IndexRead, ResumeAssumption
  <2> QED BY <1>1, <1>2, <2>2 DEF Settled
<1> QED BY <1>1, <1>2, <1>3, <1>4, HeadKinds

LEMMA SettledStays ==
  ASSUME ResumeInv, [Next]_vars, Settled, Settled', head'.snap = head.snap,
         ~ApplyCorrection, ~(\E r \in Requests, p \in Previews : Submit(r, p))
  PROVE  SettledInv'
<1>1. TypeOK /\ KnownInv /\ RecordInv /\ StopInv /\ WorkerInv /\ SettledInv
  BY DEF ResumeInv
<1>2. Grown /\ Kept /\ TypeOK'
  BY <1>1, StepGrows, TypeStep DEF Grown
<1>3. /\ rows \subseteq rows' /\ Plan' = Plan
      /\ cursor' = cursor /\ \A c \in 1..cursor : corrs'[c] = corrs[c]
  BY <1>1, Sources
<1>4. ASSUME NEW r \in Requests, known'[r].state # "unknown" PROVE ops'[r].expected < head'.snap.rev
  <2>1. ops[r] # None => ops[r].status \notin Unsent
    BY <1>1 DEF SettledInv, Unsent, Blocking
  <2>2. known[r].state # "unknown"
    BY <1>2, <1>4, <2>1 DEF Grown
  <2> QED BY <1>1, <1>2, <2>2 DEF SettledInv, KnownInv, Kept
<1>5. ASSUME NEW r \in Requests, ops'[r] # None PROVE ops'[r].status \notin Blocking
  <2>1. CASE ops'[r] = ops[r]
    BY <1>1, <1>5, <2>1 DEF SettledInv
  <2>2. ASSUME NEW q \in Requests, ops[q] # None, Outcome(q), ops[q].status \in Blocking \cup {"started"}
        PROVE  ops'[r].status \notin Blocking
    <3>1. ops[q].status = "started" /\ ops[q].status \notin Unsent
      BY <1>1, <2>2 DEF SettledInv, Unsent
    <3>5. known'[q].state = "started"
      BY <1>1, <1>2, <2>2, <3>1 DEF RecordInv, Grown
    <3>2. CASE r # q
      BY <2>1, <2>2, <3>2 DEF Outcome
    <3>3. CASE r = q
      <4>1. ops'[q].status \in {"started", "completed", "cancelled"}
        BY <2>2, <3>1, <3>5 DEF Outcome
      <4> QED BY <3>3, <4>1 DEF Blocking
    <3> QED BY <3>2, <3>3
  <2>3. ASSUME NEW e \in DOMAIN execs, Receive(e) PROVE ops'[r].status \notin Blocking
    BY <1>1, <2>1, <2>3, ReceiveKeeps DEF Blocking
  <2> QED BY <1>1, <2>1, <2>2, <2>3, RecordKinds
<1>6. ASSUME NEW i \in Plan'
      PROVE  <<head'.snap.of[i], i>> \in rows' /\ Applied(head.snap.of[i], i)' = head'.snap.corr[i]
  <2> DEFINE e == head.snap.of[i]
  <2>1. <<e, i>> \in rows /\ Applied(e, i) = head.snap.corr[i]
    BY <1>1, <1>3 DEF SettledInv
  <2>2. {c \in 1..cursor' : corrs'[c] = <<e, i>>} = {c \in 1..cursor : corrs[c] = <<e, i>>}
    BY <1>3
  <2> HIDE DEF e
  <2>3. e = head'.snap.of[i]
    BY DEF e
  <2>4. Applied(head.snap.of[i], i)' = Max({0} \cup {c \in 1..cursor' : corrs'[c] = <<head'.snap.of[i], i>>})
    BY DEF Applied
  <2>5. Applied(e, i) = Max({0} \cup {c \in 1..cursor : corrs[c] = <<e, i>>})
    BY DEF Applied
  <2> QED BY <1>3, <2>1, <2>2, <2>3, <2>4, <2>5
<1> QED BY <1>4, <1>5, <1>6 DEF SettledInv

LEMMA SettledNow ==
  ASSUME ResumeInv, [Next]_vars, Commit, head' # head
  PROVE  SettledInv'
<1>1. TypeOK /\ KnownInv /\ RecordInv /\ StopInv /\ WorkerInv
  BY DEF ResumeInv
<1> DEFINE s == worker.index
<1>2. head'.snap = s /\ Arrived(s) /\ Covers(s) /\ ~Unanswered(ops)
  BY <1>1, CommitHands
<1>3. UNCHANGED <<known, execs, corrs, ops, cursor, rows>> /\ Plan' = Plan
  BY <1>1, PlanStays DEF Commit, collector, requests, receipts
<1> HIDE DEF s
<1>4. ASSUME NEW r \in Requests
      PROVE  /\ known'[r].state # "unknown" => ops'[r].expected < head'.snap.rev
             /\ ops'[r] # None => ops'[r].status \notin Blocking
  BY <1>2, <1>3 DEF Covers, Unanswered
<1>5. ASSUME NEW i \in Plan'
      PROVE  <<head'.snap.of[i], i>> \in rows' /\ Applied(head.snap.of[i], i)' = head'.snap.corr[i]
  <2>1. <<s.of[i], i>> \in rows /\ (s.corr[i] = 0 \/ Applied(s.of[i], i) = s.corr[i])
    BY <1>2, <1>3 DEF Arrived
  <2>2. ASSUME s.corr[i] = 0 PROVE Applied(s.of[i], i) = 0
    <3>1. \A c \in 1..cursor : corrs[c] # <<s.of[i], i>>
      BY <1>2, <1>3, <2>2 DEF Covers
    <3> QED BY <1>1, <3>1, LastApplied
  <2>3. Applied(s.of[i], i) = s.corr[i]
    BY <2>1, <2>2
  <2>4. Applied(head.snap.of[i], i)' = Applied(s.of[i], i)
    BY <1>2, <1>3 DEF Applied
  <2> QED BY <1>2, <1>3, <2>1, <2>3, <2>4
<1> QED BY <1>4, <1>5 DEF SettledInv

-----------------------------------------------------------------------------
LEMMA ResumeInitial ==
  ASSUME ResumeInit
  PROVE  ResumeInv
<1>1. TypeOK
  BY TypeInit
<1>2. KnownInv
  BY DEF ResumeInit, KnownInv
<1>3. RecordInv /\ StopInv /\ WorkerInv /\ SettledInv
  BY DEF ResumeInit, RecordInv, StopInv, Past, WorkerInv, SettledInv, Settled, Idle
<1> QED BY <1>1, <1>2, <1>3 DEF ResumeInv

LEMMA ResumeStep ==
  ASSUME ResumeInv, [Next]_vars
  PROVE  ResumeInv'
<1>1. TypeOK /\ KnownInv /\ RecordInv /\ StopInv /\ WorkerInv /\ SettledInv
  BY DEF ResumeInv
<1>2. TypeOK' /\ KnownInv' /\ RecordInv' /\ StopInv' /\ WorkerInv'
  BY <1>1, TypeStep, KnownStep, RecordStep, StopStep, WorkerStep
<1>3. SettledInv'
  <2>1. CASE ~Settled'
    BY <2>1 DEF SettledInv
  <2>2. CASE Settled'
    BY <1>1, <2>2, SettledKinds, SettledStays, SettledNow
  <2> QED BY <2>1, <2>2
<1> QED BY <1>2, <1>3 DEF ResumeInv

\* The records of a continuation keep their shape and fit together: a request the
\* collector knows is on record and counted in its revision, a stop is older than
\* what it may not end, the index the worker holds covers what was known when it read
\* it, and what is handed out covers all that is known since.
THEOREM ResumeInvariance == Spec => []ResumeInv
<1>1. ResumeInit => ResumeInv
  BY ResumeInitial
<1>2. ResumeInv /\ [Next]_vars => ResumeInv'
  BY ResumeStep
<1> QED BY <1>1, <1>2, PTL DEF Spec

\* The results of a run are handed out only when they are final, however many people
\* continue, correct and stop it while the worker polls, and whatever fails.
THEOREM Final == Spec => []SettledIsFinal
<1>1. ResumeInv => SettledIsFinal
  <2> SUFFICES ASSUME ResumeInv, Settled PROVE SettledIsFinal
    BY DEF SettledIsFinal, Settled
  <2>1. TypeOK /\ RecordInv /\ SettledInv
    BY DEF ResumeInv
  <2>2. ASSUME NEW r \in Requests, ops[r] # None, ops[r].status \notin Dead
        PROVE  head.snap.rev > ops[r].expected
    <3>1. ops[r] \in Operations /\ head.snap \in Snapshots
      BY <2>1, <2>2 DEF TypeOK, Settled, Heads
    <3>2. ops[r].status \in Told
      BY <2>1, <2>2, <3>1 DEF SettledInv, Operations, Told
    <3>3. ops[r].expected < head.snap.rev
      BY <2>1, <2>2, <3>2 DEF SettledInv, RecordInv
    <3>4. ops[r].expected \in Nat /\ head.snap.rev \in Nat
      BY <3>1 DEF Operations, Snapshots
    <3> QED BY <3>3, <3>4
  <2>3. ~Unanswered(ops)
    BY <2>1 DEF SettledInv, Unanswered
  <2> QED BY <2>1, <2>2, <2>3 DEF SettledInv, SettledIsFinal
<1> QED BY <1>1, ResumeInvariance, PTL

\* Nothing but a stop for the current revision stops anything.
LEMMA OnlyStops ==
  ASSUME TypeOK, KnownInv, RecordInv, StopInv, WorkerInv, [Next]_vars,
         NEW r \in Requests, Stopped(r)', ~Stopped(r)
  PROVE  SendCancel /\ Stops /\ Expected(worker.stop) = rev
<1> USE DEF collector
<1>1. CASE UNCHANGED <<known, execs>>
  BY <1>1 DEF Stopped
<1>2. ASSUME NEW q \in Requests, SendOrNot(q) PROVE FALSE
  BY <1>2, Sends DEF Stopped, Taken
<1>3. ASSUME NEW q \in Requests, Recover(q) PROVE FALSE
  BY <1>1, <1>2, <1>3, Recovers DEF Stopped
<1>4. ASSUME NEW e \in DOMAIN execs, End(e) PROVE FALSE
  <2>1. known' = known /\ execs' = [execs EXCEPT ![e].state = "ended"]
    BY <1>4 DEF End
  <2>2. \A d \in DOMAIN execs : execs[d] \in Executions
    BY Lists
  <2>3. DOMAIN execs' = DOMAIN execs
    BY <2>1
  <2>4. ASSUME NEW d \in DOMAIN execs PROVE execs'[d].op = execs[d].op /\ (execs'[d].state = "stopped" => execs[d].state = "stopped")
    BY <2>1, <2>2 DEF Executions
  <2> QED BY <2>1, <2>3, <2>4 DEF Stopped
<1>5. ASSUME NEW q \in Requests, Prepare(q) PROVE FALSE
  <2>1. known \in [Requests -> Answers] /\ known[q].state = "accepted" /\ ops[q] \in Operations
    BY <1>5 DEF Prepare, TypeOK, KnownInv
  <2>2. known'[r].state = "cancelled" => known[r].state = "cancelled"
    <3>1. known[q] \in Answers
      BY <2>1
    <3>2. known'[q].state \in {"started", "failed"} /\ \A p \in Requests \ {q} : known'[p] = known[p]
      BY <1>5, <2>1, <3>1 DEF Prepare, Answers
    <3> QED BY <3>2
  <2> DEFINE x == [op |-> q, covers |-> ops[q].covers, state |-> "running"]
  <2>3. x \in Executions /\ x.state = "running"
    BY <2>1 DEF Executions, Operations
  <2>4. execs' = execs \/ execs' = Append(execs, x)
    BY <1>5 DEF Prepare
  <2> HIDE DEF x
  <2>5. ASSUME NEW e \in DOMAIN execs', execs'[e].state = "stopped" PROVE e \in DOMAIN execs /\ execs'[e] = execs[e]
    BY <2>3, <2>4, <2>5, Appended
  <2>6. ASSUME NEW e \in DOMAIN execs', execs'[e].op = r, execs'[e].state = "stopped" PROVE FALSE
    BY <2>5, <2>6 DEF Stopped
  <2>7. ~(known'[r].state = "cancelled")
    BY <2>2 DEF Stopped
  <2> QED BY <2>6, <2>7 DEF Stopped
<1>6. CASE SendCancel
  BY <1>1, <1>6 DEF SendCancel
<1>7. ASSUME NEW e, NEW i, Correct(e, i) \/ Submit(e, i) \/ Receive(e) PROVE FALSE
  BY <1>7 DEF Correct, Submit, Receive, Stopped
<1>8. CASE UNCHANGED vars \/ Cancel \/ Refresh \/ NoteCancel \/ ApplyCorrection \/ CorrectionsDone
           \/ ReadIndex \/ ReadSnapshot \/ Commit \/ ReceiveRun \/ Crash
  BY <1>1, <1>8 DEF vars, Cancel, Refresh, NoteCancel, ApplyCorrection, CorrectionsDone, ReadIndex,
     ReadSnapshot, Commit, ReceiveRun, Crash
<1> QED BY <1>2, <1>3, <1>4, <1>5, <1>6, <1>7, <1>8 DEF Next, People, Collector, Work, SendNow

\* What a stop that is not blind may end was submitted before it was asked for: by the
\* time a later continuation has begun, the collector has left the stop's revision.
THEOREM Scope == Spec => StopScope
<1> DEFINE A == \A r \in Requests :
                  Stopped(r)' /\ ~Stopped(r) => worker.stop.blind \/ ops[r].epoch <= worker.stop.epoch
<1>1. ASSUME ResumeInv, [Next]_vars PROVE [A]_vars
  <2> SUFFICES ASSUME NEW r \in Requests, Stopped(r)', ~Stopped(r), ~worker.stop.blind
               PROVE  ops[r].epoch <= worker.stop.epoch
    OBVIOUS
  <2>1. TypeOK /\ KnownInv /\ RecordInv /\ StopInv /\ WorkerInv
    BY <1>1 DEF ResumeInv
  <2>2. SendCancel /\ Stops /\ Expected(worker.stop) = rev
    BY <1>1, <2>1, OnlyStops
  <2>3. worker.stop \in Intents /\ worker.stop.expected = rev /\ Past(worker.stop)
    BY <2>1, <2>2 DEF SendCancel, StopInv, TypeOK, Workers, Expected
  <2>4. known[r].state # "unknown"
    <3>1. CASE known'[r].state = "cancelled"
      <4>1. known'[r] = IF known[r].state = "accepted" THEN [known[r] EXCEPT !.state = "cancelled"] ELSE known[r]
        BY <2>2 DEF Stops
      <4> QED BY <3>1, <4>1
    <3>2. ASSUME NEW e \in DOMAIN execs', execs'[e].op = r, execs'[e].state = "stopped" PROVE known[r].state = "started"
      <4>1. /\ e \in DOMAIN execs
            /\ execs'[e] = IF execs[e].state = "running" THEN [execs[e] EXCEPT !.state = "stopped"] ELSE execs[e]
        BY <2>2 DEF Stops
      <4>2. execs[e] \in Executions
        BY <2>1, <4>1, Lists
      <4>3. execs[e].op = r /\ execs[e].state = "running"
        BY <3>2, <4>1, <4>2 DEF Stopped, Executions
      <4> QED BY <2>1, <4>1, <4>3 DEF KnownInv
    <3> QED BY <3>1, <3>2 DEF Stopped
  <2>5. ~(ops[r].epoch > worker.stop.epoch)
    BY <2>1, <2>3, <2>4, ResumeAssumption DEF Past, TypeOK
  <2>6. ops[r].epoch \in Nat /\ worker.stop.epoch \in Nat
    BY <2>1, <2>3, <2>4 DEF KnownInv, TypeOK, Operations, Intents
  <2> QED BY <2>5, <2>6
<1>2. ResumeInv /\ [Next]_vars => [A]_vars
  BY <1>1
<1> QED BY <1>2, ResumeInvariance, PTL DEF Spec, StopScope
=============================================================================
