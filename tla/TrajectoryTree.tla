--------------------------- MODULE TrajectoryTree ---------------------------
(***************************************************************************)
(* The prefix tree of one task: trajectories_tree/tree_builder.py.  The    *)
(* trajectories of the task are laid over one tree of actions, one after   *)
(* another: a step that fully matches a child of the node its trajectory   *)
(* stands on is put there, any other opens a branch.  Steps that a model   *)
(* takes for short interruptions are left out, under two policies that     *)
(* know nothing of each other: a short run the model is confident of, with *)
(* two confident normal steps behind it, and a gap of steps the model is   *)
(* not confident of, when the two steps behind it match the tree and a     *)
(* reviewer agrees from the screenshots.                                   *)
(***************************************************************************)
EXTENDS Naturals, Sequences, FiniteSets

CONSTANTS Points,      \* of the screen; a box is a set of points
          Args,        \* texts, buttons, directions and endings; "none" is none of them
          Actions,     \* what the steps do
          Feeds,       \* per task, what its trajectories are made of
          MaxSkip

VARIABLES feed,        \* the task
          trajs,       \* its trajectories so far, the last one being laid
          nodes,       \* the tree: the parent and the reference action of each node
          at,          \* the node the last trajectory stands on; 0 is the desktop
          decided      \* per trajectory, what was decided of its steps so far

treeVars == <<feed, trajs, nodes, at, decided>>

Confirmations == 2
Kinds == {"click", "long_press", "swipe", "type", "open", "system_button", "terminate",
          "wait", "other", "unreadable"}
Classes == {"normal", "candidate", "uncertain"}
TreeStep == [act : Actions, cls : Classes \union {"none"}]
Rejoin == {<<>>} \union (Nat \X (Nat \X Nat))
Decision == [node : Nat, why : {"reuse", "branch", "terminate", "short", "gap"}, rejoin : Rejoin]

\* launch: the summary speaks of launching an app.  A step without a box has the empty one.
ASSUME ActionsAssumption ==
    Actions \subseteq [kind : Kinds, box : SUBSET Points, point : Points, arg : Args, launch : BOOLEAN]
ASSUME PointsAssumption == IsFiniteSet(Points)
ASSUME SkipAssumption == MaxSkip \in Nat
ASSUME FeedsAssumption ==
    Feeds \subseteq Seq([acts : SUBSET Seq(Actions), classes : SUBSET Classes])

----------------------------------------------------------------------------
(* What an action scores against the first action of a node *)

\* The boxes share half of the smaller; without both, the point is in the node's box.
Overlap(A, B) == \E C \in {A, B} : 2 * Cardinality(A \intersect B) >= Cardinality(C)
Hits(a, ref) == IF a.box # {} /\ ref.box # {} THEN Overlap(a.box, ref.box) ELSE a.point \in ref.box

\* The score is 3.5.  Less than that is no match, however much less it is.
Full(a, ref) ==
    /\ a.kind = ref.kind /\ a.kind # "unreadable"
    /\ a.kind \in {"click", "long_press", "swipe"} => Hits(a, ref)
    /\ a.kind \in {"swipe", "type", "open", "system_button", "terminate"} => a.arg = ref.arg
    /\ a.kind = "swipe" => a.arg # "none"
    /\ a.kind = "other" => a.arg = ref.arg /\ a.point = ref.point

----------------------------------------------------------------------------
(* The classes of a trajectory's steps *)

\* A terminate that is not the last step is never shown to the model.
Excluded(acts, p) == acts[p].kind = "terminate" /\ p < Len(acts)

\* A trajectory of these actions, as the model may classify it.
Classified(acts, classes) ==
    {[p \in DOMAIN acts |-> [act |-> acts[p], cls |-> c[p]]] :
        c \in {c \in [DOMAIN acts -> classes \union {"none"}] :
                 \A p \in DOMAIN acts : c[p] = "none" <=> Excluded(acts, p)}}

\* The longest run of candidates that p belongs to.
Run(s, p) == {q \in DOMAIN s : \A r \in DOMAIN s : (p <= r /\ r <= q) \/ (q <= r /\ r <= p)
                                                      => s[r].cls = "candidate"}
OneNormal(s, q) == q + 1 \in DOMAIN s /\ s[q + 1].cls = "normal"
Recovers(s, q) == \A r \in q + 1 .. q + Confirmations : r \in DOMAIN s /\ s[r].cls = "normal"

\* apply_bounded_skip_policy: the candidates that are left out.
Bounded(s, p) ==
    /\ s[p].cls = "candidate" /\ s[p].act.kind # "open" /\ ~s[p].act.launch
    /\ \E q \in Run(s, p) : /\ \A r \in Run(s, p) : r <= q /\ q < r + MaxSkip
                            /\ Recovers(s, q)

----------------------------------------------------------------------------
(* The tree *)

Children(n) == {m \in DOMAIN nodes : nodes[m].parent = n}
Backwards(n, a) == {m \in Children(n) : Full(nodes[m].ref, a)}
Matching(n, a) == {m \in Children(n) : Full(a, nodes[m].ref)}

Youngest(n, a) == {m \in Matching(n, a) : \A k \in Matching(n, a) : m >= k}
\* The child that fully matches; of several the oldest.
Matched(n, a) == {m \in Matching(n, a) : \A k \in Matching(n, a) : m <= k}

Cursor == Len(trajs)
Now == trajs[Cursor]
Position == Len(decided[Cursor]) + 1
Laying == trajs # <<>> /\ Position \in DOMAIN Now

\* Nodes that the two steps behind a gap of k steps match.
Rejoins(k) ==
    UNION {{<<m, n>> : n \in Matched(m, Now[Position + k + 1].act)} :
              m \in Matched(at, Now[Position + k].act)}

\* find_resync_candidate: the gaps that could be left out here; the shortest is taken.
Gaps == {k \in 1..MaxSkip :
           /\ Position + k + 1 \in DOMAIN Now
           /\ \A p \in Position .. Position + k - 1 : Now[p].cls = "uncertain"
           /\ Rejoins(k) # {}}
Shortest(k) == k \in Gaps /\ \A j \in Gaps : k <= j

----------------------------------------------------------------------------
(* The steps of a trajectory *)

Kept(m, why) == [node |-> m, why |-> why, rejoin |-> <<>>]
Left(why, rejoin) == [node |-> 0, why |-> why, rejoin |-> rejoin]

Decide(d) == decided' = [decided EXCEPT ![Cursor] = @ \o d]

Fresh == UNION {Classified(acts, feed[Cursor + 1].classes) : acts \in feed[Cursor + 1].acts}
Seen == {trajs[t] : t \in DOMAIN trajs}

\* The trajectories come in the order of their names; some are like one seen before.
Begin ==
    /\ ~Laying /\ Cursor < Len(feed)
    /\ \E s \in Fresh \union Seen : trajs' = Append(trajs, s)
    /\ decided' = Append(decided, <<>>) /\ at' = 0
    /\ UNCHANGED <<feed, nodes>>

Ignored == Now[Position].cls = "none" \/ Bounded(Now, Position)

Ignore ==
    /\ Laying /\ Ignored
    /\ Decide(<<Left(IF Now[Position].cls = "none" THEN "terminate" ELSE "short", <<>>)>>)
    /\ UNCHANGED <<feed, trajs, nodes, at>>

Reuse ==
    /\ Laying /\ ~Ignored
    /\ \E m \in Matched(at, Now[Position].act) : at' = m /\ Decide(<<Kept(m, "reuse")>>)
    /\ UNCHANGED <<feed, trajs, nodes>>

\* The reviewer takes the screenshots behind the gap for those of the tree.
Bridge ==
    /\ Laying /\ ~Ignored /\ Matched(at, Now[Position].act) = {}
    /\ \E k \in Gaps : /\ Shortest(k)
                       /\ \E r \in Rejoins(k) : Decide([p \in 1..k |-> Left("gap", <<Position + k, r>>)])
    /\ UNCHANGED <<feed, trajs, nodes, at>>

\* No gap was found, or the reviewer did not agree.
Branch ==
    /\ Laying /\ ~Ignored /\ Matched(at, Now[Position].act) = {}
    /\ nodes' = Append(nodes, [parent |-> at, ref |-> Now[Position].act])
    /\ at' = Len(nodes) + 1
    /\ Decide(<<Kept(Len(nodes) + 1, "branch")>>)
    /\ UNCHANGED <<feed, trajs>>

TreeInit ==
    /\ feed \in Feeds
    /\ trajs = <<>> /\ nodes = <<>> /\ at = 0 /\ decided = <<>>

TreeNext == Begin \/ Ignore \/ Reuse \/ Bridge \/ Branch

TreeSpec == TreeInit /\ [][TreeNext]_treeVars

----------------------------------------------------------------------------
Stands(t, p) == decided[t][p].node # 0

\* Before its step p, trajectory t stands on node m.
StandsOn(t, p, m) ==
    \/ m = 0 /\ \A q \in 1..(p - 1) : ~Stands(t, q)
    \/ \E q \in 1..(p - 1) : /\ Stands(t, q) /\ decided[t][q].node = m
                             /\ \A r \in (q + 1)..(p - 1) : ~Stands(t, r)

TreeTypeOK ==
    /\ feed \in Feeds
    /\ trajs \in Seq(Seq(TreeStep))
    /\ nodes \in Seq([parent : Nat, ref : Actions])
    /\ \A m \in DOMAIN nodes : nodes[m].parent < m
    /\ at \in 0..Len(nodes)
    /\ decided \in Seq(Seq(Decision)) /\ Len(decided) = Len(trajs)
    /\ \A t \in DOMAIN trajs : Len(decided[t]) <= Len(trajs[t])
    /\ \A t \in DOMAIN trajs : \A p \in DOMAIN decided[t] : decided[t][p].node <= Len(nodes)

\* The steps of a trajectory that were not left out are a path of the tree from the
\* desktop, whatever was left out between them (build_tree, tree_builder.py:771-942).
KeptStepsArePaths ==
    \A t \in DOMAIN decided : \A p \in DOMAIN decided[t] :
        Stands(t, p) => StandsOn(t, p, nodes[decided[t][p].node].parent)

\* A branch is opened only for an action the tree does not have there: of two children
\* of a node the younger does not match the older (best_matching_child, 626-632).
SiblingsDiffer ==
    \A m, n \in DOMAIN nodes :
        m < n /\ nodes[m].parent = nodes[n].parent => ~Full(nodes[n].ref, nodes[m].ref)

\* What a step was left out for comes true: behind a short run two steps are put into the
\* tree, and behind a gap the trajectory goes on through the nodes the reviewer was shown,
\* unless the other policy leaves out a step the reviewer relied on (598-623, 644-668).
RecoveryHappens ==
    \A t \in DOMAIN decided : \A p \in DOMAIN decided[t] :
        /\ decided[t][p].why = "short" =>
             \A q \in Run(trajs[t], p) : q + 1 \notin Run(trajs[t], p) =>
                 \A r \in {q + 1, q + 2} \intersect DOMAIN decided[t] : Stands(t, r)
        /\ decided[t][p].why = "gap" =>
             LET first == decided[t][p].rejoin[1]
                 shown == decided[t][p].rejoin[2]
             IN \A j \in 1..Confirmations :
                  (\A q \in first .. first + j - 1 : q \in DOMAIN decided[t] /\ Stands(t, q))
                    => decided[t][first + j - 1].node = shown[j]

\* A trajectory like one laid before, which went through without a gap, adds nothing to
\* the tree, whatever was laid in between (if an action matches itself).
RepeatsAreAbsorbed ==
    \A t, u \in DOMAIN trajs :
        /\ t < u /\ trajs[t] = trajs[u]
        /\ \A p \in DOMAIN trajs[t] : /\ Full(trajs[t][p].act, trajs[t][p].act)
                                      /\ decided[t][p].why # "gap"
        => \A p \in DOMAIN decided[u] : decided[u][p].why # "branch"
=============================================================================
