-------------------------- MODULE CurrentArtifacts --------------------------
(***************************************************************************)
(* What backend/data_store promises of one batch: it holds one current     *)
(* artifact per stage, a publication replaces several of them in one step  *)
(* or none, an equal input keeps the revision it has, and a published      *)
(* batch never changes again.  There is no disk here, no crash and no      *)
(* lock; ArtifactStore implements this.                                    *)
(***************************************************************************)
EXTENDS Naturals

CONSTANTS Stages, Payloads, Absent

VARIABLES current,      \* [Stages -> Manifest \cup {Absent}]
          closed        \* the batch is published

vars == <<current, closed>>

Manifest == [rev: Nat, data: Payloads]

Revision(manifest) == IF manifest = Absent THEN 0 ELSE manifest.rev

Successor(manifest, payload) == [rev |-> Revision(manifest) + 1, data |-> payload]

Differs(manifest, payload) == manifest # Absent => manifest.data # payload

Init == /\ current = [s \in Stages |-> Absent]
        /\ closed = FALSE

Publish(T) ==
  /\ ~closed
  /\ \E payload \in [T -> Payloads] :
       /\ \A s \in T : Differs(current[s], payload[s])
       /\ current' = [s \in Stages |-> IF s \in T THEN Successor(current[s], payload[s])
                                                  ELSE current[s]]
  /\ UNCHANGED closed

Close == /\ ~closed
         /\ closed' = TRUE
         /\ UNCHANGED current

Next == Close \/ \E T \in SUBSET Stages : Publish(T)

Spec == Init /\ [][Next]_vars
=============================================================================
