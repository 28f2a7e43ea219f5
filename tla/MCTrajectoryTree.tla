-------------------------- MODULE MCTrajectoryTree --------------------------
EXTENDS TrajectoryTree

Click(box, point) == [kind |-> "click", box |-> box, point |-> point, arg |-> "none", launch |-> FALSE]

\* c overlaps the boxes of a and b, which do not overlap; d has no box, it is a point of a's.
a == Click({1, 2}, 1)
b == Click({3, 4}, 4)
c == Click({2, 3}, 3)
d == Click({}, 2)
o == [a EXCEPT !.kind = "open", !.box = {}]
z == [a EXCEPT !.kind = "terminate", !.box = {}, !.arg = "success"]
All == {a, b, c, d, o, z}

Acts(S, n) == [1..n -> S]
Sure(acts) == [acts |-> acts, classes |-> {"normal"}]
Any(acts) == [acts |-> acts, classes |-> Classes]
Again == [acts |-> {}, classes |-> {}]

\* Any five steps over a small tree; short trajectories, one of which comes again; and
\* trajectories that launch an app or end.
Long == <<Sure(Acts({a, b}, 2) \union Acts({a}, 3)), Any(Acts({a, b}, 5))>>
Mixed == <<Sure(Acts({a, d}, 1)), Any(Acts({a, b, c, d}, 2)), Sure(Acts({b, c}, 2)), Again>>
Ending == <<Sure(Acts({a, o}, 2)), Any({s \in Acts({a, o, z}, 4) : s[1] # z}), Again>>
Tasks == {Long, Mixed, Ending}
=============================================================================
