-------------------------- MODULE MCCollectionResume --------------------------
EXTENDS CollectionResume

CONSTANTS x, y

Setting(plan, n, c, s, f) ==
  [plan |-> plan, requests |-> n, corrections |-> c, stops |-> s, faults |-> f]

\* Two requests of one instance, with a stop or a correction and a fault; two
\* instances, continued apart.
Some == {Setting({x}, 2, 1, 0, 1), Setting({x}, 2, 0, 1, 1),
         Setting({x, y}, 1, 1, 1, 1), Setting({x, y}, 2, 0, 0, 1)}
=============================================================================
