---------------------------- MODULE MCPublishing ----------------------------
EXTENDS Publishing

CONSTANTS q1, q2, i1, i2, i3, i4, w, f, g, h, c, d

\* A file, another file with its content, the file with other metadata, and a
\* file that was downloaded from the platform.
Datum(file, meta, content) == [file |-> file, meta |-> meta, content |-> content]

MCData == [i \in Imports |-> CASE i = i1 -> Datum(f, 1, c) [] i = i2 -> Datum(g, 1, c)
                               [] i = i3 -> Datum(f, 2, d) [] i = i4 -> Datum(h, 1, c)]

Plan(rs, qs, us, again) == [releases |-> rs, requests |-> qs, uploads |-> us, again |-> again]

MCPlans == {Plan({i1, i2}, Requests, {}, FALSE), Plan({i1, i3}, {q1}, {}, FALSE), Plan({i4}, {q1}, {}, FALSE),
            Plan({w}, {}, {w}, TRUE), Plan({i1, w}, {q1}, {}, FALSE)}
=============================================================================
