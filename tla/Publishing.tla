----------------------------- MODULE Publishing -----------------------------
(***************************************************************************)
(* Releases and what follows from them: external imports, releases of the  *)
(* platform, the upload of their tables and their conversion into the      *)
(* training overview, in one service that may end at any step and starts   *)
(* again (api.py: lifespan).                                               *)
(***************************************************************************)
EXTENDS ReleaseUpload, TrainingCatalog

CONSTANT Plans   \* who does what: the imports and releases there are, what is uploaded

ASSUME PlansAssumption ==
  \A p \in Plans : p.releases \subseteq Releases /\ p.requests \subseteq Requests /\ p.uploads \subseteq Releases /\ p.again \in BOOLEAN

VARIABLE plan

vars == <<importVars, phase, faults, uploadVars, catalogVars, plan>>

Init == ImportInit /\ UploadInit /\ CatalogInit /\ plan \in Plans

Imported ==
  /\ ImportNext
  /\ \A i \in Imports \ plan.releases : imp'[i].status = "none"
  /\ call'.req \in plan.requests \cup {None}
  /\ UNCHANGED <<uploadVars, catalogVars, plan>>

\* DatasetReleaseRegistry.create: a release of the platform, and its page.
Create(w) ==
  /\ phase = "up" /\ w \in (Workflow \cap plan.releases) \ releases
  /\ releases' = releases \cup {w} /\ final' = [final EXCEPT ![w] = "whole"]
  /\ told' = told \cup {w}
  /\ UNCHANGED <<imp, answers, byFile, byContent, upload, staging, old, call, sweep, phase, faults,
                 uploadVars, catalogVars, plan>>

Uploaded ==
  /\ \/ UploadSteps /\ UNCHANGED <<phase, faults>>
     \/ (\E r \in plan.uploads : SubmitUpload(r)) /\ UNCHANGED <<phase, faults>>
     \/ SaveFails /\ UNCHANGED phase
     \/ UploadsBooted /\ UNCHANGED <<uploadVars, faults>>
  /\ UNCHANGED <<importVars, catalogVars, plan>>

Converted ==
  /\ \/ CatalogSteps /\ UNCHANGED <<told, phase, faults>>
     \/ \E r \in Releases : (r \in told \/ plan.again) /\ SubmitConversion(r) /\ UNCHANGED <<phase, faults>>
     \/ faults < MaxFaults /\ faults' = faults + 1 /\ UNCHANGED phase
        /\ ((\E r \in Releases : SubmitFails(r)) \/ (CommitCatalogUnheard /\ UNCHANGED told))
     \/ StartConversions /\ UNCHANGED <<told, faults>>
  /\ UNCHANGED <<records, disk, old, call, sweep, uploadVars, plan>>

Crash ==
  /\ faults < MaxFaults /\ faults' = faults + 1 /\ phase' = "uploads"
  /\ ImportCrash /\ UploadCrash /\ CatalogCrash /\ UNCHANGED plan

Next == Imported \/ (\E w \in Workflow : Create(w)) \/ Uploaded \/ Converted \/ Crash

Spec == Init /\ [][Next]_vars

\* The start goes on, and so do the threads; people need not.
FairSpec ==
  /\ Spec
  /\ WF_vars(UploadSteps /\ UNCHANGED <<importVars, phase, faults, catalogVars, plan>>)
  /\ WF_vars(UploadsBooted /\ UNCHANGED <<importVars, faults, uploadVars, catalogVars, plan>>)
  /\ WF_vars((RecoverRecord \/ Sweep) /\ phase = "imports" /\ UNCHANGED <<uploadVars, catalogVars, plan>>)
  /\ WF_vars(StartConversions /\ UNCHANGED <<importVars, faults, uploadVars, plan>>)
  /\ WF_vars(CatalogSteps /\ UNCHANGED <<importVars, phase, faults, uploadVars, plan>>)

-----------------------------------------------------------------------------
TypeOK ==
  /\ imp \in [Imports -> [status : {"none", "receiving", "gone", "validated", "publishing", "published", "expired"},
                          rel : Imports \cup {None}]]
  /\ releases \subseteq Releases /\ told \subseteq releases /\ rows \subseteq releases
  /\ phase \in {"uploads", "imports", "overview", "up"} /\ faults \in 0..MaxFaults

(* Once nothing more goes wrong, a start converts every release there is,   *)
(* those whose page was cut off before it asked for it included.            *)
EveryReleaseConverted ==
  \A r \in Releases :
    (r \in releases /\ phase # "up" /\ faults = MaxFaults)
      ~> (conversions[r].status = "failed" \/ (conversions[r].status = "succeeded" /\ r \in rows))
=============================================================================
