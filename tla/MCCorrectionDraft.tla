------------------------- MODULE MCCorrectionDraft -------------------------
(* Two tasks: the input of a step changes under the same trajectory, or a   *)
(* judgement chooses another trajectory.                                    *)
EXTENDS CorrectionDraft, TLC

CONSTANTS p, q, f, g

Of(t, traj, fp) == [task |-> t, traj |-> traj, fp |-> fp]

MCJudged == {Of(1, p, f), Of(2, p, f), Of(2, p, g), Of(2, q, f)}

MCFeed == <<{None, Of(1, p, f)}, {Unjudged, Of(2, p, f), Of(2, p, g), Of(2, q, f)}>>

\* Task 1 comes later, and then task 2 moves down a row.
MCFirst == {<<None, Of(2, p, f)>>}

\* Boxes and texts, over what is there: any other request does a part of that.
MCRequests == {[bbox |-> TRUE, force |-> TRUE]}

MCPages == Permutations(Pages)
=============================================================================
