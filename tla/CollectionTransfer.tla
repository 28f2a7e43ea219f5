-------------------------- MODULE CollectionTransfer --------------------------
(* Collection runs of either protocol and when they are synchronised
   (collection_transfer.py, remote_sync.py): the poller takes a run whose policy
   says that it is due, a person may ask for a sync at any time, a failure sends
   the run into back-off, which here is no more than a poll that comes some time,
   too many of some kinds pause it until a person asks.
   RemoteSyncPolicy.execute lets one sync of a run through at a time, of this
   process or another.  A behaviour is the life of one run that streams artifacts or
   is sent as an archive, or that of the service which collects such runs. *)
EXTENDS CollectionReceipts, ArchiveTransfer, CollectorService

CONSTANTS Protocols,                 \* "stream", "archive", "service"
          MissingLimit, FinalLimit   \* bounds: 3 and 8 in the code

ASSUME TransferAssumption == MissingLimit \in Nat \ {0} /\ FinalLimit \in Nat \ {0}

VARIABLES protocol, policy

vars == <<receiptVars, archiveVars, serviceVars, protocol, policy>>

\* missing and final count failures: not_found_count, final_failure_count.
Active == [state |-> "active", missing |-> 0, final |-> 0, observed |-> FALSE]

TransferInit ==
  /\ Init /\ InitArchive /\ InitService
  /\ protocol \in Protocols
  /\ protocol # "stream" => list = (CHOOSE s \in Settings : TRUE).list   \* not used
  /\ policy = Active

\* reset, for a person who asks.
Reset == [policy EXCEPT !.state = "active", !.missing = 0, !.final = 0]

\* A success of a run that is over ends the polling.
After(over) == [Reset EXCEPT !.state = IF over THEN "complete" ELSE "active"]

\* Mutant of Failed: nothing is counted.
FailedNever(missing) == {policy}

\* _failed: back-off, or a pause when the run stays unknown to the collector (and
\* is old enough) or cannot be received although it has ended.
Failed(missing) ==
  LET m == IF missing THEN policy.missing + 1 ELSE 0
      f == IF policy.observed THEN policy.final + 1 ELSE 0 IN
  {[policy EXCEPT !.missing = IF m > MissingLimit THEN MissingLimit ELSE m, !.final = f,
                  !.state = IF paused THEN "paused" ELSE @] :
     paused \in IF f >= FinalLimit THEN {TRUE} ELSE IF m >= MissingLimit THEN BOOLEAN ELSE {FALSE}}

\* observe_remote: an end that was seen is not unseen.
Observes == policy' = [policy EXCEPT !.observed = @ \/ source # "running", !.missing = 0]

\* due: the poller, when the policy says so.
Due == policy.state \notin {"paused", "complete"}

\* Nothing is being synchronised.
Idle == sync.pc = "idle" /\ step = "idle"

Stream(A) == protocol = "stream" /\ A /\ UNCHANGED <<archiveVars, serviceVars, protocol>>
Archive(A) == protocol = "archive" /\ A /\ UNCHANGED <<receiptVars, serviceVars, protocol>>

\* The service is taken by itself: what it shows of a run is one of ArchiveTransfer's Ends.
Service(A) == protocol = "service" /\ A /\ UNCHANGED <<receiptVars, archiveVars, protocol, policy>>

Poll  == Idle /\ Due /\ UNCHANGED policy /\ (Stream(Start) \/ Archive(StartArchive))
Forced == Idle /\ policy' = Reset /\ (Stream(Start) \/ Archive(StartArchive))

StreamDone ==
  /\ sync.pc = "done"
  /\ sync' = Resting /\ policy' = After(run.state # "open")
  /\ UNCHANGED <<remote, phones, durable, mem, work, disk>>

StreamFailed ==
  /\ sync.pc = "failed"
  /\ sync' = Resting /\ policy' \in Failed(FALSE)
  /\ UNCHANGED <<remote, phones, durable, mem, work, disk>>

ArchiveDone ==
  /\ step = "done"
  /\ step' = "idle" /\ policy' = After(archive.transfer \in {"completed", "remote_failed"})
  /\ UNCHANGED <<source, archive, journal, staging, final, mishaps>>

ArchiveFailed ==
  /\ step \in {"failed", "missing"}
  /\ step' = "idle" /\ policy' \in Failed(step = "missing")
  /\ UNCHANGED <<source, archive, journal, staging, final, mishaps>>

Collector == UNCHANGED policy /\ (Stream(Publish) \/ Stream(End) \/ Archive(SourceEnds))

StreamStep ==
  \/ Control \/ ReadList \/ (\E w \in SUBSET Pending : Select(w))
  \/ (\E a \in Listed : Ingest(a)) \/ Joined \/ Final \/ CloseRun \/ Show
  \/ Recover \/ NoSpace

ArchiveStep == SyncArchive /\ IF step = "read" THEN Observes ELSE UNCHANGED policy

Disturb == UNCHANGED policy /\ (Stream(Fill) \/ Stream(CrashReceipts) \/ Archive(CrashArchive) \/ Archive(Mishap))

Next ==
  \/ Poll \/ Forced \/ Collector \/ Disturb
  \/ UNCHANGED policy /\ (Stream(StreamStep) \/ Stream(Free))
  \/ Archive(ArchiveStep)
  \/ Stream(StreamDone) \/ Stream(StreamFailed) \/ Archive(ArchiveDone) \/ Archive(ArchiveFailed)
  \/ Service(NextService)

Spec == TransferInit /\ [][Next]_vars

\* Threads and the poller go on, the collector does, the disk is freed, and a row
\* that waits is due some time.
Fairness ==
  /\ WF_vars(Poll) /\ WF_vars(Collector)
  /\ WF_vars(UNCHANGED policy /\ Stream(StreamStep))
  /\ SF_vars(UNCHANGED policy /\ Stream(Select({})))
  /\ WF_vars(UNCHANGED policy /\ Stream(Free))
  /\ WF_vars(Archive(ArchiveStep))
  /\ WF_vars(Stream(StreamDone) \/ Stream(StreamFailed) \/ Archive(ArchiveDone) \/ Archive(ArchiveFailed))
  /\ WF_vars(Service(ServiceWork)) /\ WF_vars(Service(SaveRun \/ Deletion))

FairSpec == Spec /\ Fairness
-----------------------------------------------------------------------------
TypeOK ==
  /\ ArchiveTypeOK /\ ServiceTypeOK
  /\ \E s \in Settings : list = s.list /\ faults \in 0..s.faults /\ fills \in 0..s.fills
  /\ published \in 0..Len(list) /\ ended \in BOOLEAN /\ phones \in BOOLEAN
  /\ row \in [Artifacts -> [status: Settled \cup {"none", "pending", "downloading", "verified", "retry_wait"},
                            fails: 0..2, blocked: BOOLEAN, entry: BOOLEAN]]
  /\ cursor \in 0..published
  /\ claim \in [Instances -> Artifacts \cup {None}] /\ dir \in [Instances -> Artifacts \cup {None}]
  /\ temp \subseteq Artifacts
  /\ run \in [state: {"open", "closed", "shown"}, training: SUBSET Artifacts]
  /\ \A a \in Artifacts : work[a].step \in Errors \cup
        {"none", "start", "fetch", "move", "acknowledge"}
  /\ policy.final \in 0..FinalLimit /\ policy.missing \in 0..MissingLimit
  /\ full \in BOOLEAN

\* What the platform says it has is there: the files of a received artifact stand
\* in the directory of its instance and are the ones the collector sealed, no
\* other artifact is received for that instance, and an archive is not lost
\* between its verification and the completion of its run.
EvidenceKept ==
  /\ \A a \in Listed : row[a].status = "received" =>
       /\ claim[Place(a)] = a
       /\ Item(a).kind = "trajectory" => dir[Place(a)] = a /\ Item(a).good
  /\ ArchiveKept

\* A closed run has settled every artifact the collector ever listed, holds one
\* for every instance of the plan unless one is quarantined, and hands on exactly
\* the trajectories that were received.
ClosedIsComplete ==
  run.state # "open" =>
    /\ ended /\ Pending = {} /\ cursor = Len(list)
    /\ run.training = Training
    /\ Plan = {Place(a) : a \in {b \in Listed : row[b].status = "received"}}
       \/ \E a \in Listed : row[a].status = "quarantined"

\* A run whose collection has ended is received, or told to have failed, or waits
\* for a person, unless a person resets the count of its failures again and again;
\* and the service of this repository ends every run that no deletion is stopping.
TransferEnds ==
  \/ []<><<Forced /\ policy # Reset>>_vars
  \/ (\/ protocol = "stream" /\ ended
      \/ protocol = "archive" /\ source # "running"
      \/ protocol = "service") ~>
       \/ run.state # "open" \/ archive.status = "completed" \/ archive.transfer = "remote_failed"
       \/ policy.state = "paused"
       \/ protocol = "service" /\ \A r \in Runs : Live(r) => cancel[r]

\* A pause the platform has on record is lifted, over crashes, lost requests and
\* lost answers, as long as the run is open.
PauseLifted == store.paused /\ phones ~> ~phones \/ run.state # "open"
=============================================================================
