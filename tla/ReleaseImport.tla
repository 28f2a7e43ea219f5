---------------------------- MODULE ReleaseImport ----------------------------
(***************************************************************************)
(* backend/data_publishing/external_imports.py: workbooks of people become *)
(* immutable releases.                                                     *)
(*                                                                         *)
(* A preview stores the upload and a record of it; a request publishes the *)
(* record: its files are copied to a staging directory, that is renamed,   *)
(* and one transaction registers release, record, request and the two      *)
(* indexes by which the same data is recognised.  Everything but the       *)
(* receipt of an upload happens under one lock, so at most one call is in  *)
(* progress; a crash or an exception may end it between any two steps.     *)
(*                                                                         *)
(* The release of an import is named after it: allocate_id is keyed by the *)
(* import, and asking again gives the same number.                         *)
(***************************************************************************)
EXTENDS Naturals, FiniteSets

CONSTANTS Imports,    \* previews, one for each upload
          Data,       \* what each upload is: its file (and sheet), metadata, content
          Platform,   \* files that were downloaded from a release of the platform
          Workflow,   \* releases the platform itself publishes
          Requests,   \* identities under which a page asks for a publication
          None,
          MaxFaults   \* bound on crashes and exceptions

ASSUME ImportAssumption ==
  /\ \A i \in Imports : {"file", "meta", "content"} \subseteq DOMAIN Data[i]
  /\ \A i, j \in Imports :    \* the content is that of the sheet and its metadata
       Data[i].file = Data[j].file /\ Data[i].meta = Data[j].meta => Data[i].content = Data[j].content
  /\ None \notin Imports \cup Workflow \cup Requests /\ Imports \cap Workflow = {} /\ MaxFaults \in Nat
  /\ \A i, j \in Imports : [rel |-> i, meta |-> Data[j].meta] # None

VARIABLES
  imp,       \* dataset_release_imports: status and the release of a published one
  upload,    \* the temporary directory of an upload: "none", "torn" or "whole"
  staging,   \* the directory .<release>.importing
  final,     \* the directory <release>
  releases,  \* dataset_releases
  answers,   \* dataset_import_requests: what a request asked for, and its release
  byFile,    \* dataset_import_files: the owner of a file and its metadata
  byContent, \* dataset_import_contents: the owner of a content
  old,       \* uploads that are older than TTL_HOURS
  call,      \* the call that holds the lock: its step, import and request
  sweep,     \* the imports the running recover() has yet to look at
  told,      \* releases a page was told of, whose conversion it asks for next
  phase,     \* the part of the start that runs, or "up"
  faults

records  == <<imp, releases, answers, byFile, byContent>>
disk     == <<upload, staging, final>>
importVars == <<records, disk, old, call, sweep, told>>
Releases == Imports \cup Workflow

Idle == [pc |-> "idle", imp |-> None, req |-> None]
At(pc) == call.pc = pc
Goto(pc) == call' = [call EXCEPT !.pc = pc]
I == call.imp

\* recover() goes on with the next record, a publication with its own.
Return == IF call.req = None THEN Goto("sweep") ELSE Goto("ready")

ImportInit ==
  /\ imp = [i \in Imports |-> [status |-> "none", rel |-> None]]
  /\ upload = [i \in Imports |-> "none"]
  /\ staging = [i \in Imports |-> "none"] /\ final = [i \in Releases |-> "none"]
  /\ releases = {}
  /\ answers = [r \in Requests |-> None]
  /\ byFile = [d \in {Data[i].file : i \in Imports} |-> None]
  /\ byContent = [c \in {Data[i].content : i \in Imports} |-> None]
  /\ old = {} /\ call = Idle /\ sweep = {} /\ told = {} /\ phase = "up" /\ faults = 0

-----------------------------------------------------------------------------
(* Who published the same data. *)

\* Mutant of Owners: the content index is not looked at.
OwnersOfFile(i) == {o \in {byFile[Data[i].file]} : o # None}

\* The releases the two indexes name, the file's first.
Owners(i) ==
  IF byFile[Data[i].file] # None THEN {byFile[Data[i].file]}
  ELSE {[rel |-> o, meta |-> Data[i].meta] : o \in {byContent[Data[i].content]} \ {None}}

\* The same file with other metadata, or a file of the platform, is refused.
Conflict(i) == \/ \E o \in Owners(i) : o.meta # Data[i].meta
               \/ Owners(i) = {} /\ Data[i].file \in Platform

\* _index_entries: what is missing is added, what names another release refused.
Indexable(i, rel) == \A o \in Owners(i) : o.rel = rel
Index(i, rel) ==
  /\ byFile' = [byFile EXCEPT ![Data[i].file] =
                  IF @ = None THEN [rel |-> rel, meta |-> Data[i].meta] ELSE @]
  /\ byContent' = [byContent EXCEPT ![Data[i].content] = IF @ = None THEN rel ELSE @]

-----------------------------------------------------------------------------
(* Previews. *)

\* The upload is written before the lock is taken.
Receive(i) ==
  /\ phase = "up" /\ imp[i].status = "none"
  /\ imp' = [imp EXCEPT ![i].status = "receiving"]
  /\ upload' = [upload EXCEPT ![i] = "whole"]
  /\ UNCHANGED <<staging, final, releases, answers, byFile, byContent, old, call, sweep, told, phase, faults>>

\* A conflict is shown at once and the upload removed.
Preview(i) ==
  /\ At("idle") /\ imp[i].status = "receiving"
  /\ IF Conflict(i)
     THEN /\ imp' = [imp EXCEPT ![i].status = "gone"]
          /\ upload' = [upload EXCEPT ![i] = "none"]
     ELSE imp' = [imp EXCEPT ![i].status = "validated"] /\ UNCHANGED upload
  /\ UNCHANGED <<staging, final, releases, answers, byFile, byContent, old, call, sweep, told, phase, faults>>

Expire(i) ==
  /\ imp[i].status \in {"validated", "publishing", "gone"} /\ i \notin old
  /\ old' = old \cup {i}
  /\ UNCHANGED <<records, disk, call, sweep, told, phase, faults>>

-----------------------------------------------------------------------------
(* _recover_record, for recover() and at the beginning of a publication.    *)

\* rmtree takes a while: what is half removed may be found by the next start.
Removing(dir) == dir' = [dir EXCEPT ![I] = IF @ = "whole" THEN "torn" ELSE "none"]

\* A publication that was cut short is taken back, unless it was committed.
Cut == imp[I].status = "publishing" /\ I \notin releases

TakeBack ==
  /\ At("record") /\ Cut
  /\ \/ staging[I] # "none" /\ Removing(staging) /\ UNCHANGED <<final, imp>>
     \/ staging[I] = "none" /\ final[I] # "none" /\ Removing(final) /\ UNCHANGED <<staging, imp>>
     \/ /\ staging[I] = "none" /\ final[I] = "none"
        /\ imp' = [imp EXCEPT ![I].status = "validated"] /\ UNCHANGED <<staging, final>>
  /\ UNCHANGED <<upload, releases, answers, byFile, byContent, old, call, sweep, told, phase, faults>>

\* The upload of what is published or expired goes.
Over == imp[I].status # "validated" \/ I \in old

Tidy ==
  /\ At("record") /\ ~Cut /\ Over /\ upload[I] # "none"
  /\ Removing(upload)
  /\ UNCHANGED <<records, staging, final, old, call, sweep, told, phase, faults>>

Recovered ==
  /\ At("record") /\ ~Cut /\ (Over => upload[I] = "none")
  /\ imp' = [imp EXCEPT ![I] = IF @.status = "publishing" THEN [status |-> "published", rel |-> I]
                               ELSE IF @.status = "validated" /\ Over THEN [@ EXCEPT !.status = "expired"] ELSE @]
  /\ Return
  /\ UNCHANGED <<disk, releases, answers, byFile, byContent, old, sweep, told, phase, faults>>

RecoverRecord == TakeBack \/ Tidy \/ Recovered

\* recover(): at the start, every hour and at every preview.
Registered ==
  {i \in Imports : imp[i].status \notin {"none", "receiving", "gone"}}
StartSweep ==
  /\ At("idle") /\ phase \in {"imports", "up"}
  /\ call' = [Idle EXCEPT !.pc = "sweep"] /\ sweep' = Registered
  /\ UNCHANGED <<records, disk, old, told, phase, faults>>

NextRecord(i) ==
  /\ At("sweep") /\ i \in sweep
  /\ call' = [call EXCEPT !.pc = "record", !.imp = i] /\ sweep' = sweep \ {i}
  /\ UNCHANGED <<records, disk, old, told, phase, faults>>

\* Uploads without a record go when they are old; the start goes on.
SweepDone ==
  /\ At("sweep") /\ sweep = {}
  /\ upload' = [i \in Imports |-> IF imp[i].status = "gone" /\ i \in old THEN "none" ELSE upload[i]]
  /\ call' = Idle /\ phase' = IF phase = "imports" THEN "overview" ELSE phase
  /\ UNCHANGED <<records, staging, final, old, sweep, told, faults>>

Sweep == StartSweep \/ (\E i \in Imports : NextRecord(i)) \/ SweepDone

-----------------------------------------------------------------------------
(* publish. *)

\* A request that was answered is answered again (or refused, if it asks for
\* something else).
AskAgain(r) ==
  /\ phase = "up" /\ At("idle") /\ answers[r] # None /\ answers[r].rel \notin told
  /\ told' = told \cup {answers[r].rel}
  /\ UNCHANGED <<records, disk, old, call, sweep, phase, faults>>

Ask(i, r) ==
  /\ phase = "up" /\ At("idle") /\ answers[r] = None /\ i \in Registered
  /\ call' = [pc |-> "record", imp |-> i, req |-> r]
  /\ UNCHANGED <<records, disk, old, sweep, told, phase, faults>>

Answer(rel) == answers' = [answers EXCEPT ![call.req] = [imp |-> I, rel |-> rel]]

\* Published before: the request is noted under its release.
AnswerAgain ==
  /\ At("ready") /\ imp[I].status = "published"
  /\ Answer(imp[I].rel) /\ call' = Idle /\ told' = told \cup {imp[I].rel}
  /\ UNCHANGED <<imp, releases, byFile, byContent, disk, old, sweep, phase, faults>>

Refuse ==
  /\ At("ready") /\ imp[I].status # "published"
  /\ imp[I].status = "expired" \/ upload[I] # "whole" \/ Conflict(I)
  /\ call' = Idle
  /\ UNCHANGED <<records, disk, old, sweep, told, phase, faults>>

Publishable == At("ready") /\ imp[I].status = "validated" /\ upload[I] = "whole" /\ ~Conflict(I)

\* _reuse: the same data has a release.
Reuse ==
  /\ Publishable
  /\ \E o \in Owners(I) :
       /\ imp' = [imp EXCEPT ![I] = [status |-> "published", rel |-> o.rel]]
       /\ Answer(o.rel) /\ Index(I, o.rel)
  /\ Goto("clean")
  /\ UNCHANGED <<releases, disk, old, sweep, told, phase, faults>>

Mark ==
  /\ Publishable /\ Owners(I) = {}
  /\ imp' = [imp EXCEPT ![I].status = "publishing"]
  /\ Goto("stage")
  /\ UNCHANGED <<releases, answers, byFile, byContent, disk, old, sweep, told, phase, faults>>

\* mkdir(exist_ok=False), then the copies and the manifests.
Stage ==
  /\ At("stage")
  /\ \/ staging[I] = "none" /\ staging' = [staging EXCEPT ![I] = "torn"] /\ UNCHANGED call
     \/ staging[I] = "torn" /\ staging' = [staging EXCEPT ![I] = "whole"] /\ Goto("rename")
  /\ UNCHANGED <<records, upload, final, old, sweep, told, phase, faults>>

Rename ==
  /\ At("rename") /\ final[I] = "none"
  /\ final' = [final EXCEPT ![I] = staging[I]] /\ staging' = [staging EXCEPT ![I] = "none"]
  /\ Goto("commit")
  /\ UNCHANGED <<records, upload, old, sweep, told, phase, faults>>

Register ==
  /\ Indexable(I, I) /\ I \notin releases
  /\ releases' = releases \cup {I}
  /\ imp' = [imp EXCEPT ![I] = [status |-> "published", rel |-> I]]
  /\ Answer(I) /\ Index(I, I)

Commit ==
  /\ At("commit") /\ Register /\ Goto("clean")
  /\ UNCHANGED <<disk, old, sweep, told, phase, faults>>

\* The answer of the database is lost: the caller sees an exception.
CommitUnheard ==
  /\ At("commit") /\ Register /\ Goto("failed") /\ faults < MaxFaults /\ faults' = faults + 1
  /\ UNCHANGED <<disk, old, sweep, told, phase>>

\* An exception: the publication undoes what it did, any other call just ends.
Raise ==
  /\ ~At("idle") /\ phase = "up"
  /\ call' = IF call.pc \in {"stage", "rename", "commit"} THEN [call EXCEPT !.pc = "failed"] ELSE Idle
  /\ sweep' = {}
  /\ faults < MaxFaults /\ faults' = faults + 1
  /\ UNCHANGED <<records, disk, old, told, phase>>

\* Mutant of Unregistered: the database is not asked.
Failed == TRUE

\* "An uncertain commit must never delete registered release files."
Unregistered == I \notin releases

Keep ==
  /\ At("failed") /\ ~Unregistered /\ call' = Idle
  /\ UNCHANGED <<records, disk, old, sweep, told, phase, faults>>

Undo ==
  /\ At("failed") /\ Unregistered
  /\ \/ staging[I] # "none" /\ Removing(staging) /\ UNCHANGED <<final, imp, call>>
     \/ staging[I] = "none" /\ final[I] # "none" /\ Removing(final) /\ UNCHANGED <<staging, imp, call>>
     \/ /\ staging[I] = "none" /\ final[I] = "none"
        /\ imp' = [imp EXCEPT ![I].status = "validated"] /\ call' = Idle
        /\ UNCHANGED <<staging, final>>
  /\ UNCHANGED <<upload, releases, answers, byFile, byContent, old, sweep, told, phase, faults>>

\* The answer is on its way when the upload is gone; the page then asks for
\* the conversion of the release.
Clean ==
  /\ At("clean")
  /\ \/ upload[I] # "none" /\ Removing(upload) /\ UNCHANGED <<call, told>>
     \/ upload[I] = "none" /\ call' = Idle /\ told' = told \cup {imp[I].rel} /\ UNCHANGED upload
  /\ UNCHANGED <<records, staging, final, old, sweep, phase, faults>>

Publish == \/ AnswerAgain \/ Refuse \/ Reuse \/ Mark \/ Stage \/ Rename \/ Commit
           \/ CommitUnheard \/ Raise \/ Keep \/ Undo \/ Clean

\* What a crash leaves of the imports.
ImportCrash ==
  /\ call' = Idle /\ sweep' = {} /\ told' = {}
  /\ imp' = [i \in Imports |-> IF imp[i].status = "receiving"
                               THEN [imp[i] EXCEPT !.status = "gone"] ELSE imp[i]]
  /\ UNCHANGED <<disk, releases, answers, byFile, byContent, old>>

ImportNext == \/ \E i \in Imports : Receive(i) \/ Preview(i) \/ Expire(i)
              \/ RecoverRecord \/ Sweep \/ Publish
              \/ \E r \in Requests : AskAgain(r) \/ \E i \in Imports : Ask(i, r)

-----------------------------------------------------------------------------
(* The files of a registered release are there, whole, whatever is cleaned  *)
(* up behind a failed, cut or uncertain publication.                        *)
ReleasesWhole == \A i \in releases : final[i] = "whole"

(* The same data is released once, under every request, file name and       *)
(* restart, and a request is answered with a release of the data it is of.  *)
ReleasedOnce ==
  /\ \A i, j \in releases \ Workflow : i # j => Data[i].file # Data[j].file /\ Data[i].content # Data[j].content
  /\ \A i \in releases \ Workflow : Data[i].file \notin Platform
  /\ \A r \in Requests : answers[r] # None =>
       /\ answers[r].rel \in releases
       /\ LET asked == Data[answers[r].imp]
              got == Data[answers[r].rel]
          IN  asked.content = got.content
=============================================================================
