------------------------- MODULE TreeQualityProofs -------------------------
(* Proofs about TrajectoryTree, for every set of actions and boxes, every   *)
(* task and every longest gap, and, from LeaseUpdates on, about             *)
(* QualityExecution, for every set of jobs and any number of restarts and   *)
(* unconfirmed kills. The two components share nothing, and neither do      *)
(* their proofs.                                                            *)
EXTENDS TrajectoryTree, QualityExecution, SequenceTheorems, WellFoundedInduction, TLAPS

\* What the entry of a step says of the step and of the tree.
KeptGood(t, p) ==
    LET n == decided[t][p].node
        s == trajs[t]
    IN Stands(t, p) =>
         /\ s[p].cls # "none" /\ ~Bounded(s, p)
         /\ n \in DOMAIN nodes /\ StandsOn(t, p, nodes[n].parent)
         /\ Full(s[p].act, s[p].act) \/ decided[t][p].why = "reuse"
              => n \in Matched(nodes[n].parent, s[p].act)

LeftGood(t, p) ==
    ~Stands(t, p) => \/ decided[t][p].why = "terminate" /\ trajs[t][p].cls = "none"
                     \/ decided[t][p].why = "short" /\ Bounded(trajs[t], p)
                     \/ decided[t][p].why = "gap" /\ trajs[t][p].cls = "uncertain"

KindGood(t, p) == Stands(t, p) <=> decided[t][p].why \in {"reuse", "branch"}

\* What a gap at step p was bridged for: the tree still has the path that was shown.
Shown(t, p, first, m, n) ==
    /\ decided[t][p].rejoin = <<first, <<m, n>>>>
    /\ p < first /\ first + 1 \in DOMAIN trajs[t]
    /\ \A q \in p..(first - 1) : q \in DOMAIN decided[t] /\ ~Stands(t, q)
    /\ \E l \in Nat : StandsOn(t, first, l) /\ m \in Matched(l, trajs[t][first].act)
    /\ n \in Matched(m, trajs[t][first + 1].act)

GapGood(t, p) ==
    decided[t][p].why = "gap" => \E first, m, n \in Nat : Shown(t, p, first, m, n)

EntriesInv ==
    \A t \in DOMAIN decided : \A p \in DOMAIN decided[t] :
        KeptGood(t, p) /\ LeftGood(t, p) /\ KindGood(t, p) /\ GapGood(t, p)

\* Where the trajectory stands, and that those before it are done.
CursorInv ==
    /\ trajs # <<>> => StandsOn(Cursor, Position, at)
    /\ \A t \in DOMAIN trajs : t < Cursor => Len(decided[t]) = Len(trajs[t])

\* A gap's announcement comes true.
Rejoined(t, p) ==
    \A first, m, n \in Nat :
        decided[t][p].why = "gap" /\ decided[t][p].rejoin = <<first, <<m, n>>>>
        => /\ first \in DOMAIN decided[t] /\ Stands(t, first) => decided[t][first].node = m
           /\ first \in DOMAIN decided[t] /\ Stands(t, first)
                /\ first + 1 \in DOMAIN decided[t] /\ Stands(t, first + 1)
                => decided[t][first + 1].node = n

RejoinInv == \A t \in DOMAIN decided : \A p \in DOMAIN decided[t] : Rejoined(t, p)

\* A trajectory that went through without a gap leads those like it.
Leads(t) == \A p \in DOMAIN trajs[t] : /\ Full(trajs[t][p].act, trajs[t][p].act)
                                       /\ decided[t][p].why # "gap"
RepeatInv ==
    \A t, u \in DOMAIN trajs :
        t < u /\ trajs[t] = trajs[u] /\ Leads(t)
        => \A p \in DOMAIN decided[u] : /\ decided[u][p].node = decided[t][p].node
                                        /\ decided[u][p].why # "branch"

TreeInv == TreeTypeOK /\ SiblingsDiffer /\ EntriesInv /\ CursorInv /\ RejoinInv /\ RepeatInv

----------------------------------------------------------------------------
(* Numbers and matches *)

\* A set of numbers that is not empty has a least one.
LEMMA Least ==
    ASSUME NEW S \in SUBSET Nat, S # {}
    PROVE  \E m \in S : \A k \in S : m <= k
<1>1. \E m \in S : \A k \in S : <<k, m>> \notin OpToRel(<, Nat)
    BY NatLessThanWellFounded, WFMin
<1>2. PICK m \in S : \A k \in S : <<k, m>> \notin OpToRel(<, Nat)
    BY <1>1
<1>3. \A k \in S : ~(k < m)
    BY <1>2 DEF OpToRel
<1> QED BY <1>3

\* What the variables are, without the nesting of TreeTypeOK.
LEMMA Shape ==
    ASSUME TreeTypeOK
    PROVE  /\ Len(trajs) \in Nat /\ DOMAIN trajs = 1..Len(trajs) /\ DOMAIN decided = 1..Len(trajs)
           /\ Len(nodes) \in Nat /\ DOMAIN nodes = 1..Len(nodes)
           /\ \A m \in DOMAIN nodes : nodes[m].parent \in Nat /\ nodes[m].parent < m
           /\ \A t \in DOMAIN trajs : /\ trajs[t] \in Seq(TreeStep) /\ Len(trajs[t]) \in Nat
                                      /\ DOMAIN trajs[t] = 1..Len(trajs[t])
                                      /\ \A p \in DOMAIN trajs[t] : trajs[t][p] \in TreeStep
                                      /\ decided[t] \in Seq(Decision) /\ Len(decided[t]) \in Nat
                                      /\ DOMAIN decided[t] = 1..Len(decided[t])
                                      /\ Len(decided[t]) <= Len(trajs[t])
                                      /\ \A p \in DOMAIN decided[t] :
                                            /\ decided[t][p] \in Decision
                                            /\ decided[t][p].node \in 0..Len(nodes)
<1>1. /\ Len(trajs) \in Nat /\ DOMAIN trajs = 1..Len(trajs) /\ DOMAIN decided = 1..Len(trajs)
      /\ Len(nodes) \in Nat /\ DOMAIN nodes = 1..Len(nodes)
    BY DEF TreeTypeOK
<1>2. ASSUME NEW m \in DOMAIN nodes
      PROVE  nodes[m].parent \in Nat /\ nodes[m].parent < m
    <2>1. nodes[m] \in [parent : Nat, ref : Actions]
        BY <1>1, ElementOfSeq DEF TreeTypeOK
    <2> QED BY <2>1 DEF TreeTypeOK
<1>3. ASSUME NEW t \in DOMAIN trajs
      PROVE  /\ trajs[t] \in Seq(TreeStep) /\ Len(trajs[t]) \in Nat
             /\ DOMAIN trajs[t] = 1..Len(trajs[t])
             /\ \A p \in DOMAIN trajs[t] : trajs[t][p] \in TreeStep
             /\ decided[t] \in Seq(Decision) /\ Len(decided[t]) \in Nat
             /\ DOMAIN decided[t] = 1..Len(decided[t])
             /\ Len(decided[t]) <= Len(trajs[t])
             /\ \A p \in DOMAIN decided[t] : /\ decided[t][p] \in Decision
                                             /\ decided[t][p].node \in 0..Len(nodes)
    <2>1. trajs[t] \in Seq(TreeStep) /\ decided[t] \in Seq(Decision)
        BY <1>1, ElementOfSeq DEF TreeTypeOK
    <2>2. \A p \in DOMAIN decided[t] : decided[t][p] \in Decision
        BY <2>1
    <2>3. \A p \in DOMAIN decided[t] : decided[t][p].node \in 0..Len(nodes)
        BY <2>2 DEF TreeTypeOK, Decision
    <2> QED BY <2>1, <2>2, <2>3 DEF TreeTypeOK
<1> QED BY <1>1, <1>2, <1>3

\* The oldest of the children that match is one at most, and there is one if any matches.
LEMMA OneMatch ==
    ASSUME TreeTypeOK, NEW n, NEW a
    PROVE  /\ \A m, k \in Matched(n, a) : m = k
           /\ Matching(n, a) # {} => Matched(n, a) # {}
<1>1. Matching(n, a) \in SUBSET Nat
    BY Shape DEF Matching, Children
<1>2. \A m, k \in Matched(n, a) : m = k
    BY <1>1 DEF Matched
<1>3. Matching(n, a) # {} => Matched(n, a) # {}
    BY <1>1, Least DEF Matched
<1> QED BY <1>2, <1>3

\* A trajectory stands on one node.
LEMMA OnePlace ==
    ASSUME NEW t, NEW p \in Nat, NEW m, NEW n, StandsOn(t, p, m), StandsOn(t, p, n)
    PROVE  m = n
    BY DEF StandsOn

----------------------------------------------------------------------------
(* What a step does to the entries, the trajectories and the tree *)

\* Entries are added to the trajectory being laid, at its end.
LEMMA Decided ==
    ASSUME TreeTypeOK, trajs # <<>>, NEW d \in Seq(Decision), Decide(d)
    PROVE  /\ Cursor \in DOMAIN decided /\ Len(d) \in Nat
           /\ decided' \in Seq(Seq(Decision)) /\ Len(decided') = Len(decided)
           /\ \A t \in DOMAIN decided : t # Cursor => decided'[t] = decided[t]
           /\ Len(decided'[Cursor]) = Len(decided[Cursor]) + Len(d)
           /\ \A p \in 1..Len(decided[Cursor]) : decided'[Cursor][p] = decided[Cursor][p]
           /\ \A i \in 1..Len(d) : decided'[Cursor][Len(decided[Cursor]) + i] = d[i]
<1>1. Cursor \in DOMAIN decided /\ decided[Cursor] \in Seq(Decision) /\ Len(d) \in Nat
    <2>1. Len(trajs) # 0
        BY Shape DEF TreeTypeOK
    <2> QED BY <2>1, Shape DEF Cursor
<1>2. /\ decided[Cursor] \o d \in Seq(Decision)
      /\ Len(decided[Cursor] \o d) = Len(decided[Cursor]) + Len(d)
      /\ \A i \in 1..Len(decided[Cursor]) + Len(d) : (decided[Cursor] \o d)[i] =
            IF i <= Len(decided[Cursor]) THEN decided[Cursor][i] ELSE d[i - Len(decided[Cursor])]
    BY <1>1, ConcatProperties
<1>3. decided' = [decided EXCEPT ![Cursor] = decided[Cursor] \o d]
    BY DEF Decide
<1>4. /\ decided' \in Seq(Seq(Decision)) /\ Len(decided') = Len(decided)
      /\ \A t \in DOMAIN decided : t # Cursor => decided'[t] = decided[t]
      /\ decided'[Cursor] = decided[Cursor] \o d
    BY SMTT(60), <1>1, <1>2, <1>3 DEF TreeTypeOK
<1>5. Len(decided[Cursor]) \in Nat
    BY <1>1
<1>6. \A p \in 1..Len(decided[Cursor]) : decided'[Cursor][p] = decided[Cursor][p]
    BY <1>1, <1>2, <1>4, <1>5
<1>7. ASSUME NEW i \in 1..Len(d)
      PROVE  decided'[Cursor][Len(decided[Cursor]) + i] = d[i]
    <2>1. /\ Len(decided[Cursor]) + i \in 1..Len(decided[Cursor]) + Len(d)
          /\ ~(Len(decided[Cursor]) + i <= Len(decided[Cursor]))
          /\ Len(decided[Cursor]) + i - Len(decided[Cursor]) = i
        BY <1>1, <1>5
    <2> QED BY <2>1, <1>2, <1>4
<1> QED BY <1>1, <1>2, <1>4, <1>6, <1>7

\* A classification of a task's actions is a trajectory.
LEMMA ClassifiedType ==
    ASSUME TreeTypeOK, Begin
    PROVE  trajs' \in Seq(Seq(TreeStep))
<1>1. PICK s : /\ s \in Fresh \/ s \in Seen
               /\ trajs' = Append(trajs, s)
    BY DEF Begin
<1>2. s \in Seq(TreeStep)
    <2>1. CASE s \in Seen
        BY <2>1, Shape DEF Seen
    <2>2. CASE s \in Fresh
        <3>1. PICK acts \in feed[Cursor + 1].acts : s \in Classified(acts, feed[Cursor + 1].classes)
            BY <2>2 DEF Fresh
        <3>2. acts \in Seq(Actions) /\ feed[Cursor + 1].classes \subseteq Classes
            <4>1. feed \in Seq([acts : SUBSET Seq(Actions), classes : SUBSET Classes])
                BY FeedsAssumption DEF TreeTypeOK
            <4>2. Cursor + 1 \in 1..Len(feed)
                BY <4>1, Shape DEF Begin, Cursor
            <4>3. feed[Cursor + 1] \in [acts : SUBSET Seq(Actions), classes : SUBSET Classes]
                BY <4>1, <4>2, ElementOfSeq
            <4> QED BY <4>3, <3>1
        <3>3. PICK c \in [DOMAIN acts -> feed[Cursor + 1].classes \union {"none"}] :
                    s = [p \in DOMAIN acts |-> [act |-> acts[p], cls |-> c[p]]]
            BY <3>1 DEF Classified
        <3>4. DOMAIN acts = 1..Len(acts) /\ Len(acts) \in Nat /\ \A p \in 1..Len(acts) : acts[p] \in Actions
            BY <3>2
        <3>5. \A p \in 1..Len(acts) : [act |-> acts[p], cls |-> c[p]] \in TreeStep
            BY <3>2, <3>3, <3>4 DEF TreeStep
        <3> QED BY <3>3, <3>4, <3>5
    <2> QED BY <1>1, <2>1, <2>2
<1> QED BY <1>1, <1>2, AppendProperties DEF TreeTypeOK

\* The entries of each action are decisions.
LEMMA IgnoreEntry ==
    ASSUME TreeTypeOK, Ignore
    PROVE  \E d \in Seq(Decision) :
              /\ Decide(d) /\ Len(d) = 1 /\ d[1].node = 0 /\ d[1].rejoin = <<>>
              /\ d[1].why = IF Now[Position].cls = "none" THEN "terminate" ELSE "short"
<1> DEFINE e == Left(IF Now[Position].cls = "none" THEN "terminate" ELSE "short", <<>>)
<1>1. e \in Decision
    BY DEF Left, Decision, Rejoin
<1>2. <<e>> \in Seq(Decision) /\ Len(<<e>>) = 1 /\ <<e>>[1] = e
    BY <1>1
<1>3. Decide(<<e>>)
    BY DEF Ignore
<1>4. e.node = 0 /\ e.rejoin = <<>> /\ e.why = IF Now[Position].cls = "none" THEN "terminate" ELSE "short"
    BY DEF Left
<1> HIDE DEF e
<1> QED BY <1>2, <1>3, <1>4

LEMMA ReuseEntry ==
    ASSUME TreeTypeOK, Reuse
    PROVE  \E d \in Seq(Decision) : \E m \in Matched(at, Now[Position].act) :
              /\ Decide(d) /\ Len(d) = 1 /\ at' = m
              /\ d[1].node = m /\ d[1].rejoin = <<>> /\ d[1].why = "reuse"
<1>1. PICK m \in Matched(at, Now[Position].act) : at' = m /\ Decide(<<Kept(m, "reuse")>>)
    BY DEF Reuse
<1> DEFINE e == Kept(m, "reuse")
<1>2. e \in Decision /\ e.node = m /\ e.rejoin = <<>> /\ e.why = "reuse"
    <2>1. m \in Nat
        BY Shape DEF Matched, Matching, Children
    <2> QED BY <2>1 DEF Kept, Decision, Rejoin
<1>3. <<e>> \in Seq(Decision) /\ Len(<<e>>) = 1 /\ <<e>>[1] = e
    BY <1>2
<1>4. Decide(<<e>>)
    BY <1>1
<1> HIDE DEF e
<1> QED BY <1>1, <1>2, <1>3, <1>4

LEMMA BranchEntry ==
    ASSUME TreeTypeOK, Branch
    PROVE  \E d \in Seq(Decision) :
              /\ Decide(d) /\ Len(d) = 1
              /\ d[1].node = Len(nodes) + 1 /\ d[1].rejoin = <<>> /\ d[1].why = "branch"
<1> DEFINE e == Kept(Len(nodes) + 1, "branch")
<1>1. e \in Decision /\ e.node = Len(nodes) + 1 /\ e.rejoin = <<>> /\ e.why = "branch"
    BY Shape DEF Kept, Decision, Rejoin
<1>2. <<e>> \in Seq(Decision) /\ Len(<<e>>) = 1 /\ <<e>>[1] = e
    BY <1>1
<1>3. Decide(<<e>>)
    BY DEF Branch
<1> HIDE DEF e
<1> QED BY <1>1, <1>2, <1>3

LEMMA BridgeEntries ==
    ASSUME TreeTypeOK, Bridge
    PROVE  \E d \in Seq(Decision) : \E k \in Gaps :
           \E m \in Matched(at, Now[Position + k].act) : \E n \in Matched(m, Now[Position + k + 1].act) :
              /\ Decide(d) /\ Len(d) = k
              /\ \A i \in 1..k : /\ d[i].node = 0 /\ d[i].why = "gap"
                                 /\ d[i].rejoin = <<Position + k, <<m, n>>>>
<1>a. PICK k \in Gaps : \E r \in Rejoins(k) :
            Decide([p \in 1..k |-> Left("gap", <<Position + k, r>>)])
    BY DEF Bridge
<1>1. PICK r \in Rejoins(k) : Decide([p \in 1..k |-> Left("gap", <<Position + k, r>>)])
    BY <1>a
<1>b. PICK m \in Matched(at, Now[Position + k].act) :
            \E n \in Matched(m, Now[Position + k + 1].act) : r = <<m, n>>
    BY <1>1 DEF Rejoins
<1>2. PICK n \in Matched(m, Now[Position + k + 1].act) : r = <<m, n>>
    BY <1>b
<1>3. k \in Nat /\ Position + k \in Nat /\ m \in Nat /\ n \in Nat
    <2>1. k \in 1..MaxSkip
        BY DEF Gaps
    <2>2. Position \in Nat
        <3>1. Len(decided[Cursor]) \in Nat
            <4>1. Len(trajs) # 0
                BY Shape DEF TreeTypeOK, Bridge, Laying
            <4> QED BY <4>1, Shape DEF Cursor
        <3> QED BY <3>1 DEF Position
    <2>3. m \in Nat /\ n \in Nat
        BY Shape DEF Matched, Matching, Children
    <2> QED BY <2>1, <2>2, <2>3, SkipAssumption
<1> DEFINE e == Left("gap", <<Position + k, r>>)
<1>4. e \in Decision /\ e.node = 0 /\ e.why = "gap" /\ e.rejoin = <<Position + k, <<m, n>>>>
    BY <1>2, <1>3 DEF Left, Decision, Rejoin
<1> DEFINE d == [p \in 1..k |-> e]
<1>5. d \in Seq(Decision) /\ Len(d) = k /\ \A i \in 1..k : d[i] = e
    <2> HIDE DEF e
    <2> QED BY <1>3, <1>4
<1>6. Decide(d)
    BY <1>1
<1> HIDE DEF e, d
<1> QED BY <1>2, <1>4, <1>5, <1>6

----------------------------------------------------------------------------
(* Type correctness *)

\* A trajectory being laid has a step left.
LEMMA LayingShape ==
    ASSUME TreeTypeOK, Laying
    PROVE  /\ trajs # <<>> /\ Cursor \in DOMAIN trajs /\ Cursor \in Nat
           /\ Position \in Nat /\ Position \in DOMAIN Now /\ Position <= Len(Now)
           /\ Position = Len(decided[Cursor]) + 1
<1>1. Cursor \in DOMAIN trajs
    <2>1. Len(trajs) # 0
        BY Shape DEF TreeTypeOK, Laying
    <2> QED BY <2>1, Shape DEF Cursor
<1> QED BY <1>1, Shape DEF Laying, Now, Position

\* New entries keep the types when there is room for them.
LEMMA DecideType ==
    ASSUME TreeTypeOK, Laying, NEW d \in Seq(Decision), Decide(d), trajs' = trajs,
           Len(nodes') \in Nat, Len(nodes) <= Len(nodes'),
           Len(decided[Cursor]) + Len(d) <= Len(Now),
           \A i \in 1..Len(d) : d[i].node <= Len(nodes')
    PROVE  /\ decided' \in Seq(Seq(Decision)) /\ Len(decided') = Len(trajs')
           /\ \A t \in DOMAIN trajs' : Len(decided'[t]) <= Len(trajs'[t])
           /\ \A t \in DOMAIN trajs' : \A p \in DOMAIN decided'[t] : decided'[t][p].node <= Len(nodes')
<1>1. /\ Cursor \in DOMAIN decided /\ Len(d) \in Nat
      /\ decided' \in Seq(Seq(Decision)) /\ Len(decided') = Len(decided)
      /\ \A t \in DOMAIN decided : t # Cursor => decided'[t] = decided[t]
      /\ Len(decided'[Cursor]) = Len(decided[Cursor]) + Len(d)
      /\ \A p \in 1..Len(decided[Cursor]) : decided'[Cursor][p] = decided[Cursor][p]
      /\ \A i \in 1..Len(d) : decided'[Cursor][Len(decided[Cursor]) + i] = d[i]
    BY Decided, LayingShape
<1>2. Len(decided') = Len(trajs')
    BY <1>1 DEF TreeTypeOK
<1>3. ASSUME NEW t \in DOMAIN trajs' PROVE Len(decided'[t]) <= Len(trajs'[t])
    BY <1>1, Shape DEF Now
<1>4. ASSUME NEW t \in DOMAIN trajs', NEW p \in DOMAIN decided'[t]
      PROVE  decided'[t][p].node <= Len(nodes')
    <2>1. CASE t # Cursor
        <3>1. t \in DOMAIN decided /\ decided'[t] = decided[t]
            BY <2>1, <1>1, Shape
        <3>2. decided[t][p].node \in 0..Len(nodes)
            BY <3>1, <1>1, Shape
        <3> QED BY <3>1, <3>2, Shape
    <2>2. CASE t = Cursor
        <3>1. DOMAIN decided'[Cursor] = 1..Len(decided[Cursor]) + Len(d)
            <4>1. decided'[Cursor] \in Seq(Decision)
                BY <1>1, Shape
            <4> QED BY <4>1, <1>1
        <3>2. Len(decided[Cursor]) \in Nat
            BY <1>1, Shape
        <3>3. CASE p \in 1..Len(decided[Cursor])
            <4>1. decided[Cursor][p].node \in 0..Len(nodes) /\ decided'[t][p] = decided[Cursor][p]
                BY <3>2, <3>3, <2>2, <1>1, Shape
            <4> QED BY SMTT(60), <4>1, Shape
        <3>4. CASE p \notin 1..Len(decided[Cursor])
            <4>1. /\ p - Len(decided[Cursor]) \in 1..Len(d)
                  /\ p = Len(decided[Cursor]) + (p - Len(decided[Cursor]))
                BY SMTT(60), <3>1, <3>2, <3>4, <2>2, <1>1
            <4>2. decided'[Cursor][p] = d[p - Len(decided[Cursor])]
                BY <4>1, <1>1
            <4> QED BY <4>1, <4>2, <2>2
        <3> QED BY <3>3, <3>4
    <2> QED BY <2>1, <2>2
<1> QED BY <1>1, <1>2, <1>3, <1>4

LEMMA TypeInit == TreeInit => TreeTypeOK
    BY DEF TreeInit, TreeTypeOK

LEMMA TypeNext ==
    ASSUME TreeTypeOK, [TreeNext]_treeVars
    PROVE  TreeTypeOK'
<1>1. CASE Begin
    <2>1. trajs' \in Seq(Seq(TreeStep)) /\ Len(trajs') = Len(trajs) + 1
          /\ \A t \in 1..Len(trajs) : trajs'[t] = trajs[t]
        <3>1. PICK s : trajs' = Append(trajs, s)
            BY <1>1 DEF Begin
        <3> QED BY <3>1, <1>1, ClassifiedType, Shape DEF TreeTypeOK
    <2>2. /\ decided' \in Seq(Seq(Decision)) /\ Len(decided') = Len(decided) + 1
          /\ \A t \in 1..Len(decided) : decided'[t] = decided[t]
          /\ decided'[Len(decided) + 1] = <<>>
        <3>1. <<>> \in Seq(Decision)
            OBVIOUS
        <3> QED BY <3>1, <1>1, AppendProperties DEF Begin, TreeTypeOK
    <2>3. DOMAIN trajs' = 1..Len(trajs) + 1 /\ Len(trajs) \in Nat /\ Len(decided) = Len(trajs)
        BY <2>1, Shape DEF TreeTypeOK
    <2>4. \A t \in DOMAIN trajs' : Len(decided'[t]) <= Len(trajs'[t])
        <3>1. Len(trajs'[Len(trajs) + 1]) \in Nat
            BY <2>1, <2>3, ElementOfSeq, LenProperties
        <3>2. \A t \in 1..Len(trajs) : Len(decided'[t]) <= Len(trajs'[t])
            BY <2>1, <2>2, <2>3, Shape
        <3>3. Len(decided'[Len(trajs) + 1]) = 0
            BY <2>2, <2>3
        <3> QED BY <3>1, <3>2, <3>3, <2>3
    <2>5. \A t \in DOMAIN trajs' : \A p \in DOMAIN decided'[t] : decided'[t][p].node <= Len(nodes)
        <3>1. ASSUME NEW t \in DOMAIN trajs' PROVE \A p \in DOMAIN decided'[t] : decided'[t][p].node <= Len(nodes)
            <4>1. CASE t \in 1..Len(trajs)
                <5>1. decided'[t] = decided[t] /\ t \in DOMAIN trajs
                    BY <4>1, <2>2, <2>3, Shape
                <5> QED BY <5>1, Shape
            <4>2. CASE t = Len(trajs) + 1
                BY <4>2, <2>2, <2>3
            <4> QED BY <4>1, <4>2, <2>3
        <3> QED BY <3>1
    <2>6. feed' \in Feeds /\ nodes' = nodes /\ at' = 0
        BY <1>1 DEF Begin, TreeTypeOK
    <2>7. at' \in 0..Len(nodes')
        BY <2>6, Shape
    <2> QED BY <2>1, <2>2, <2>3, <2>4, <2>5, <2>6, <2>7 DEF TreeTypeOK
<1>2. CASE Ignore
    <2>1. PICK d \in Seq(Decision) : Decide(d) /\ Len(d) = 1 /\ d[1].node = 0
        BY <1>2, IgnoreEntry
    <2>2. Laying /\ UNCHANGED <<feed, trajs, nodes, at>>
        BY <1>2 DEF Ignore
    <2>3. Len(decided[Cursor]) + Len(d) <= Len(Now) /\ \A i \in 1..Len(d) : d[i].node <= Len(nodes')
        BY <2>1, <2>2, LayingShape, Shape
    <2>4. /\ decided' \in Seq(Seq(Decision)) /\ Len(decided') = Len(trajs')
          /\ \A t \in DOMAIN trajs' : Len(decided'[t]) <= Len(trajs'[t])
          /\ \A t \in DOMAIN trajs' : \A p \in DOMAIN decided'[t] : decided'[t][p].node <= Len(nodes')
        <3>1. Len(nodes') \in Nat /\ Len(nodes) <= Len(nodes') /\ trajs' = trajs
            BY <2>2, Shape
        <3> QED BY <3>1, <2>1, <2>2, <2>3, DecideType
    <2> QED BY <2>2, <2>4 DEF TreeTypeOK
<1>3. CASE Reuse
    <2>1. PICK d \in Seq(Decision), m \in Matched(at, Now[Position].act) :
                Decide(d) /\ Len(d) = 1 /\ at' = m /\ d[1].node = m
        BY <1>3, ReuseEntry
    <2>2. Laying /\ UNCHANGED <<feed, trajs, nodes>>
        BY <1>3 DEF Reuse
    <2>3. m \in 1..Len(nodes)
        BY Shape DEF Matched, Matching, Children
    <2>4. Len(decided[Cursor]) + Len(d) <= Len(Now) /\ \A i \in 1..Len(d) : d[i].node <= Len(nodes')
        BY <2>1, <2>2, <2>3, LayingShape, Shape
    <2>5. /\ decided' \in Seq(Seq(Decision)) /\ Len(decided') = Len(trajs')
          /\ \A t \in DOMAIN trajs' : Len(decided'[t]) <= Len(trajs'[t])
          /\ \A t \in DOMAIN trajs' : \A p \in DOMAIN decided'[t] : decided'[t][p].node <= Len(nodes')
        <3>1. Len(nodes') \in Nat /\ Len(nodes) <= Len(nodes') /\ trajs' = trajs
            BY <2>2, Shape
        <3> QED BY <3>1, <2>1, <2>2, <2>4, DecideType
    <2>6. at' \in 0..Len(nodes')
        BY <2>1, <2>2, <2>3, Shape
    <2> QED BY <2>2, <2>5, <2>6 DEF TreeTypeOK
<1>4. CASE Bridge
    <2>1. PICK d \in Seq(Decision), k \in Gaps :
                Decide(d) /\ Len(d) = k /\ \A i \in 1..k : d[i].node = 0
        BY <1>4, BridgeEntries
    <2>2. Laying /\ UNCHANGED <<feed, trajs, nodes, at>>
        BY <1>4 DEF Bridge
    <2>3. k \in Nat /\ Position + k + 1 \in DOMAIN Now
        BY SkipAssumption DEF Gaps
    <2>4. Len(decided[Cursor]) + Len(d) <= Len(Now) /\ \A i \in 1..Len(d) : d[i].node <= Len(nodes')
        BY <2>1, <2>2, <2>3, LayingShape, Shape DEF Now
    <2>5. /\ decided' \in Seq(Seq(Decision)) /\ Len(decided') = Len(trajs')
          /\ \A t \in DOMAIN trajs' : Len(decided'[t]) <= Len(trajs'[t])
          /\ \A t \in DOMAIN trajs' : \A p \in DOMAIN decided'[t] : decided'[t][p].node <= Len(nodes')
        <3>1. Len(nodes') \in Nat /\ Len(nodes) <= Len(nodes') /\ trajs' = trajs
            BY <2>2, Shape
        <3> QED BY <3>1, <2>1, <2>2, <2>4, DecideType
    <2> QED BY <2>2, <2>5 DEF TreeTypeOK
<1>5. CASE Branch
    <2>1. PICK d \in Seq(Decision) : Decide(d) /\ Len(d) = 1 /\ d[1].node = Len(nodes) + 1
        BY <1>5, BranchEntry
    <2>2. Laying /\ UNCHANGED <<feed, trajs>> /\ at' = Len(nodes) + 1
          /\ nodes' = Append(nodes, [parent |-> at, ref |-> Now[Position].act])
        BY <1>5 DEF Branch
    <2>3. [parent |-> at, ref |-> Now[Position].act] \in [parent : Nat, ref : Actions]
        <3>1. Now[Position] \in TreeStep
            BY <2>2, LayingShape, Shape DEF Now
        <3> QED BY <3>1, Shape DEF TreeTypeOK, TreeStep
    <2>4. /\ nodes' \in Seq([parent : Nat, ref : Actions]) /\ Len(nodes') = Len(nodes) + 1
          /\ \A m \in 1..Len(nodes) : nodes'[m] = nodes[m]
          /\ nodes'[Len(nodes) + 1].parent = at
        BY <2>2, <2>3, AppendProperties DEF TreeTypeOK
    <2>5. \A m \in DOMAIN nodes' : nodes'[m].parent < m
        <3>1. DOMAIN nodes' = 1..Len(nodes) + 1
            BY <2>4
        <3>2. at < Len(nodes) + 1
            BY Shape DEF TreeTypeOK
        <3>3. ASSUME NEW m \in 1..Len(nodes) PROVE nodes'[m].parent < m
            BY <2>4, Shape
        <3> QED BY <3>1, <3>2, <3>3, <2>4, Shape
    <2>6. Len(decided[Cursor]) + Len(d) <= Len(Now) /\ \A i \in 1..Len(d) : d[i].node <= Len(nodes')
        BY <2>1, <2>2, <2>4, LayingShape, Shape
    <2>7. at' \in 0..Len(nodes') /\ Len(nodes') \in Nat /\ Len(nodes) <= Len(nodes')
        BY <2>2, <2>4, Shape
    <2>8. /\ decided' \in Seq(Seq(Decision)) /\ Len(decided') = Len(trajs')
          /\ \A t \in DOMAIN trajs' : Len(decided'[t]) <= Len(trajs'[t])
          /\ \A t \in DOMAIN trajs' : \A p \in DOMAIN decided'[t] : decided'[t][p].node <= Len(nodes')
        BY <2>1, <2>2, <2>6, <2>7, DecideType
    <2> QED BY <2>2, <2>4, <2>5, <2>7, <2>8 DEF TreeTypeOK
<1>6. CASE UNCHANGED treeVars
    BY <1>6 DEF treeVars, TreeTypeOK
<1> QED BY <1>1, <1>2, <1>3, <1>4, <1>5, <1>6 DEF TreeNext

\* TreeTypeOK: what the variables of a build are, at every step of it.
THEOREM TreeTypeCorrect == TreeSpec => []TreeTypeOK
    BY TypeInit, TypeNext, PTL DEF TreeSpec

----------------------------------------------------------------------------
(* Nothing that was laid changes *)

Grows ==
    /\ \A m \in DOMAIN nodes : m \in DOMAIN nodes' /\ nodes'[m] = nodes[m]
    /\ \A m \in DOMAIN nodes' : m \in DOMAIN nodes \/ (m \in Nat /\ m > Len(nodes))
    /\ \A t \in DOMAIN trajs : t \in DOMAIN trajs' /\ trajs'[t] = trajs[t]
    /\ \A t \in DOMAIN decided :
          /\ t \in DOMAIN decided'
          /\ \A p \in DOMAIN decided[t] : p \in DOMAIN decided'[t] /\ decided'[t][p] = decided[t][p]

LEMMA NodesKept ==
    ASSUME TreeTypeOK, TreeTypeOK', TreeNext
    PROVE  /\ \A m \in DOMAIN nodes : m \in DOMAIN nodes' /\ nodes'[m] = nodes[m]
           /\ \A m \in DOMAIN nodes' : m \in DOMAIN nodes \/ (m \in Nat /\ m > Len(nodes))
<1>1. CASE UNCHANGED nodes
    BY <1>1
<1>2. CASE Branch
    <2>1. nodes' = Append(nodes, [parent |-> at, ref |-> Now[Position].act])
        BY <1>2 DEF Branch
    <2>2. Len(nodes') = Len(nodes) + 1 /\ \A m \in 1..Len(nodes) : nodes'[m] = nodes[m]
        BY <2>1 DEF TreeTypeOK
    <2>3. DOMAIN nodes' = 1..Len(nodes')
        BY DEF TreeTypeOK
    <2> QED BY <2>2, <2>3, Shape
<1> QED BY <1>1, <1>2 DEF TreeNext, Begin, Ignore, Reuse, Bridge

LEMMA TrajsKept ==
    ASSUME TreeTypeOK, TreeTypeOK', TreeNext
    PROVE  \A t \in DOMAIN trajs : t \in DOMAIN trajs' /\ trajs'[t] = trajs[t]
<1>1. CASE UNCHANGED trajs
    BY <1>1
<1>2. CASE Begin
    <2>1. PICK s : trajs' = Append(trajs, s)
        BY <1>2 DEF Begin
    <2> QED BY <2>1, Shape DEF TreeTypeOK
<1> QED BY <1>1, <1>2 DEF TreeNext, Branch, Ignore, Reuse, Bridge

\* An action that decides keeps the entries.
LEMMA EntriesKept ==
    ASSUME TreeTypeOK, TreeTypeOK', TreeNext, NEW t \in DOMAIN decided
    PROVE  /\ t \in DOMAIN decided'
           /\ \A p \in DOMAIN decided[t] : p \in DOMAIN decided'[t] /\ decided'[t][p] = decided[t][p]
<1>1. CASE Begin
    <2>1. decided' = Append(decided, <<>>)
        BY <1>1 DEF Begin
    <2>2. decided \in Seq(Seq(Decision)) /\ t \in 1..Len(decided)
        BY Shape DEF TreeTypeOK
    <2>3. decided'[t] = decided[t] /\ t \in 1..Len(decided')
        BY <2>1, <2>2
    <2> QED BY <2>2, <2>3, Shape
<1>2. ASSUME Laying, NEW d \in Seq(Decision), Decide(d)
      PROVE  /\ t \in DOMAIN decided'
             /\ \A p \in DOMAIN decided[t] : p \in DOMAIN decided'[t] /\ decided'[t][p] = decided[t][p]
    <2>1. /\ Cursor \in DOMAIN decided /\ Len(d) \in Nat
          /\ decided' \in Seq(Seq(Decision)) /\ Len(decided') = Len(decided)
          /\ \A u \in DOMAIN decided : u # Cursor => decided'[u] = decided[u]
          /\ Len(decided'[Cursor]) = Len(decided[Cursor]) + Len(d)
          /\ \A p \in 1..Len(decided[Cursor]) : decided'[Cursor][p] = decided[Cursor][p]
        BY <1>2, Decided, LayingShape
    <2>2. t \in DOMAIN decided' /\ decided'[t] \in Seq(Decision)
        BY <2>1 DEF TreeTypeOK
    <2>3. CASE t # Cursor
        BY <2>1, <2>2, <2>3
    <2>4. CASE t = Cursor
        <3>1. DOMAIN decided'[t] = 1..Len(decided[t]) + Len(d) /\ DOMAIN decided[t] = 1..Len(decided[t])
              /\ Len(decided[t]) \in Nat
            BY <2>1, <2>2, <2>4, Shape
        <3> QED BY <3>1, <2>1, <2>2, <2>4
    <2> QED BY <2>3, <2>4
<1>3. CASE Ignore
    BY <1>2, <1>3, IgnoreEntry DEF Ignore
<1>4. CASE Reuse
    BY <1>2, <1>4, ReuseEntry DEF Reuse
<1>5. CASE Bridge
    BY <1>2, <1>5, BridgeEntries DEF Bridge
<1>6. CASE Branch
    BY <1>2, <1>6, BranchEntry DEF Branch
<1> QED BY <1>1, <1>3, <1>4, <1>5, <1>6 DEF TreeNext

LEMMA Growing ==
    ASSUME TreeTypeOK, TreeTypeOK', TreeNext
    PROVE  Grows
    BY NodesKept, TrajsKept, EntriesKept DEF Grows

LEMMA PlaceStable ==
    ASSUME TreeTypeOK, Grows, NEW t \in DOMAIN decided, NEW p \in 1..Len(decided[t]) + 1, NEW m
    PROVE  StandsOn(t, p, m)' <=> StandsOn(t, p, m)
<1>1. Len(decided[t]) \in Nat /\ DOMAIN decided[t] = 1..Len(decided[t])
    BY Shape
<1>2. \A q \in 1..(p - 1) : q \in DOMAIN decided[t] /\ decided'[t][q] = decided[t][q]
    BY <1>1 DEF Grows
<1>3. \A q \in 1..(p - 1) : \A r \in (q + 1)..(p - 1) : decided'[t][r] = decided[t][r]
    BY <1>1, <1>2
<1>4. \A q \in 1..(p - 1) : Stands(t, q)' <=> Stands(t, q)
    BY <1>2 DEF Stands
<1>5. \A q \in 1..(p - 1) : \A r \in (q + 1)..(p - 1) : Stands(t, r)' <=> Stands(t, r)
    BY <1>3 DEF Stands
<1> HIDE DEF Stands
<1> QED BY <1>2, <1>4, <1>5 DEF StandsOn

\* A new node is younger than those that matched.
LEMMA MatchStable ==
    ASSUME TreeTypeOK, Grows, NEW n, NEW a, NEW m \in Matched(n, a)
    PROVE  m \in Matched(n, a)'
<1>1. m \in DOMAIN nodes /\ nodes[m].parent = n /\ Full(a, nodes[m].ref)
      /\ \A k \in DOMAIN nodes : nodes[k].parent = n /\ Full(a, nodes[k].ref) => m <= k
    BY DEF Matched, Matching, Children
<1>2. m \in DOMAIN nodes' /\ nodes'[m] = nodes[m]
    BY <1>1 DEF Grows
<1>3. \A k \in DOMAIN nodes' : nodes'[k].parent = n /\ Full(a, nodes'[k].ref) => m <= k
    <2>1. ASSUME NEW k \in DOMAIN nodes', nodes'[k].parent = n, Full(a, nodes'[k].ref)
          PROVE  m <= k
        <3>1. CASE k \in DOMAIN nodes
            BY <3>1, <2>1, <1>1 DEF Grows
        <3>2. CASE k \in Nat /\ k > Len(nodes)
            BY <3>2, <1>1, Shape
        <3> QED BY <3>1, <3>2 DEF Grows
    <2> QED BY <2>1
<1> QED BY <1>1, <1>2, <1>3 DEF Matched, Matching, Children

\* What an entry says goes on to hold.
LEMMA EntryStable ==
    ASSUME TreeTypeOK, Grows, NEW t \in DOMAIN decided, NEW p \in DOMAIN decided[t],
           KeptGood(t, p), LeftGood(t, p), KindGood(t, p), GapGood(t, p)
    PROVE  KeptGood(t, p)' /\ LeftGood(t, p)' /\ KindGood(t, p)' /\ GapGood(t, p)'
<1>1. /\ trajs'[t] = trajs[t] /\ decided'[t][p] = decided[t][p]
      /\ t \in DOMAIN trajs /\ Len(decided[t]) \in Nat /\ DOMAIN decided[t] = 1..Len(decided[t])
    BY Shape DEF Grows
<1>2. LeftGood(t, p)' /\ KindGood(t, p)'
    BY <1>1 DEF LeftGood, KindGood, Stands
<1>3. KeptGood(t, p)'
    <2>1. SUFFICES ASSUME Stands(t, p)
                   PROVE  KeptGood(t, p)'
        BY <1>1 DEF KeptGood, Stands
    <2>2. PICK n : n = decided[t][p].node
        OBVIOUS
    <2>3. PICK m : m = nodes[n].parent
        OBVIOUS
    <2>4. n \in DOMAIN nodes /\ nodes'[n] = nodes[n] /\ n \in DOMAIN nodes' /\ decided'[t][p].node = n
        BY <2>1, <2>2, <1>1 DEF KeptGood, Grows
    <2>5. StandsOn(t, p, m)'
        <3>1. StandsOn(t, p, m)
            BY <2>1, <2>2, <2>3 DEF KeptGood
        <3>2. p \in 1..Len(decided[t]) + 1
            BY <1>1
        <3> QED BY <3>1, <3>2, PlaceStable
    <2>6. Full(trajs[t][p].act, trajs[t][p].act) \/ decided[t][p].why = "reuse"
              => n \in Matched(m, trajs[t][p].act)'
        <3>1. PICK a : a = trajs[t][p].act
            OBVIOUS
        <3>2. n \in Matched(m, a) => n \in Matched(m, a)'
            BY MatchStable
        <3>3. Full(a, a) \/ decided[t][p].why = "reuse" => n \in Matched(m, a)
            BY <2>1, <2>2, <2>3, <3>1 DEF KeptGood
        <3>4. a = trajs'[t][p].act
            BY <3>1, <1>1
        <3> QED BY <3>1, <3>2, <3>3, <3>4
    <2>7. trajs[t][p].cls # "none" /\ ~Bounded(trajs[t], p)
        BY <2>1 DEF KeptGood
    <2> QED BY <1>1, <2>2, <2>3, <2>4, <2>5, <2>6, <2>7 DEF KeptGood
<1>4. GapGood(t, p)'
    <2>1. SUFFICES ASSUME decided[t][p].why = "gap"
                   PROVE  GapGood(t, p)'
        BY <1>1 DEF GapGood
    <2>2. PICK first \in Nat, m \in Nat, n \in Nat : Shown(t, p, first, m, n)
        BY <2>1 DEF GapGood
    <2>3. \A q \in p..(first - 1) : /\ q \in DOMAIN decided[t] /\ q \in DOMAIN decided'[t]
                                    /\ decided'[t][q] = decided[t][q]
        BY <2>2 DEF Shown, Grows
    <2>4. first \in 1..Len(decided[t]) + 1
        <3>1. first - 1 \in p..(first - 1)
            BY <1>1, <2>2 DEF Shown
        <3> QED BY <1>1, <2>2, <2>3, <3>1
    <2>5. PICK l \in Nat : StandsOn(t, first, l) /\ m \in Matched(l, trajs[t][first].act)
        BY <2>2 DEF Shown
    <2>6. StandsOn(t, first, l)'
        BY <2>4, <2>5, PlaceStable
    <2>7. PICK a, b : a = trajs[t][first].act /\ b = trajs[t][first + 1].act
        OBVIOUS
    <2>8. m \in Matched(l, a)' /\ n \in Matched(m, b)'
        BY <2>2, <2>5, <2>7, MatchStable DEF Shown
    <2>9. a = trajs'[t][first].act /\ b = trajs'[t][first + 1].act
        BY <2>7, <1>1
    <2> QED BY <1>1, <2>2, <2>3, <2>6, <2>8, <2>9 DEF GapGood, Shown, Stands
<1> QED BY <1>2, <1>3, <1>4

\* An entry after a step is an old one or one of those the step added.
LEMMA EntriesSplit ==
    ASSUME TreeTypeOK, TreeTypeOK', Laying, NEW d \in Seq(Decision), Decide(d),
           NEW t \in DOMAIN decided', NEW p \in DOMAIN decided'[t]
    PROVE  \/ t \in DOMAIN decided /\ p \in DOMAIN decided[t]
           \/ t = Cursor /\ \E i \in 1..Len(d) : /\ p = Len(decided[Cursor]) + i
                                                 /\ decided'[t][p] = d[i]
<1>1. /\ Cursor \in DOMAIN decided /\ Len(d) \in Nat /\ Len(decided[Cursor]) \in Nat
      /\ decided' \in Seq(Seq(Decision)) /\ Len(decided') = Len(decided)
      /\ \A u \in DOMAIN decided : u # Cursor => decided'[u] = decided[u]
      /\ Len(decided'[Cursor]) = Len(decided[Cursor]) + Len(d)
      /\ \A i \in 1..Len(d) : decided'[Cursor][Len(decided[Cursor]) + i] = d[i]
    BY Decided, LayingShape, Shape
<1>2. t \in DOMAIN decided /\ decided'[t] \in Seq(Decision)
    BY <1>1 DEF TreeTypeOK
<1>3. CASE t # Cursor
    BY <1>1, <1>2, <1>3
<1>4. CASE t = Cursor
    <2>1. p \in 1..Len(decided[Cursor]) + Len(d) /\ DOMAIN decided[Cursor] = 1..Len(decided[Cursor])
        BY <1>1, <1>2, <1>4, Shape
    <2>2. CASE p \notin 1..Len(decided[Cursor])
        <3>1. p - Len(decided[Cursor]) \in 1..Len(d) /\ p = Len(decided[Cursor]) + (p - Len(decided[Cursor]))
            BY <1>1, <2>1, <2>2
        <3> QED BY <1>1, <1>4, <3>1
    <2> QED BY <1>2, <1>4, <2>1, <2>2
<1> QED BY <1>3, <1>4

\* A new trajectory has no entries.
LEMMA BeginEntries ==
    ASSUME TreeTypeOK, TreeTypeOK', Begin, NEW t \in DOMAIN decided', NEW p \in DOMAIN decided'[t]
    PROVE  t \in DOMAIN decided /\ p \in DOMAIN decided[t]
<1>1. decided' = Append(decided, <<>>) /\ decided \in Seq(Seq(Decision))
    BY DEF Begin, TreeTypeOK
<1>2. /\ Len(decided') = Len(decided) + 1 /\ Len(decided) \in Nat
      /\ \A u \in 1..Len(decided) : decided'[u] = decided[u]
      /\ decided'[Len(decided) + 1] = <<>>
    <2>1. <<>> \in Seq(Decision)
        OBVIOUS
    <2> QED BY <1>1, <2>1, AppendProperties
<1>3. DOMAIN decided' = 1..Len(decided) + 1 /\ DOMAIN decided = 1..Len(decided)
    BY <1>1, <1>2 DEF TreeTypeOK
<1>4. t # Len(decided) + 1
    BY <1>2
<1> QED BY <1>2, <1>3, <1>4

----------------------------------------------------------------------------
(* The entries *)

EntryGood(t, p) == KeptGood(t, p) /\ LeftGood(t, p) /\ KindGood(t, p) /\ GapGood(t, p)

LEMMA EntriesOld ==
    ASSUME TreeTypeOK, Grows, EntriesInv, NEW t \in DOMAIN decided, NEW p \in DOMAIN decided[t]
    PROVE  EntryGood(t, p)'
    BY EntryStable DEF EntriesInv, EntryGood

\* It is enough that the new entries are good.
LEMMA EntriesNew ==
    ASSUME TreeTypeOK, TreeTypeOK', TreeNext, EntriesInv, Laying, NEW d \in Seq(Decision), Decide(d),
           \A c, p : \A i \in 1..Len(d) : c = Cursor /\ p = Len(decided[Cursor]) + i => EntryGood(c, p)'
    PROVE  EntriesInv'
<1>1. SUFFICES ASSUME NEW t \in DOMAIN decided', NEW p \in DOMAIN decided'[t]
               PROVE  EntryGood(t, p)'
    BY DEF EntriesInv, EntryGood
<1>2. CASE t \in DOMAIN decided /\ p \in DOMAIN decided[t]
    BY <1>2, Growing, EntriesOld
<1>3. CASE t = Cursor /\ \E i \in 1..Len(d) : p = Len(decided[Cursor]) + i
    BY <1>3
<1> QED BY <1>2, <1>3, EntriesSplit

\* An action that decides a single step.
LEMMA OneEntry ==
    ASSUME TreeTypeOK, Laying, NEW d \in Seq(Decision), Decide(d), Len(d) = 1
    PROVE  decided'[Cursor][Position] = d[1]
<1>1. \A i \in 1..Len(d) : decided'[Cursor][Len(decided[Cursor]) + i] = d[i]
    BY Decided, LayingShape
<1>2. 1 \in 1..Len(d) /\ Position = Len(decided[Cursor]) + 1
    BY LayingShape
<1> QED BY <1>1, <1>2

LEMMA EntriesOne ==
    ASSUME TreeTypeOK, TreeTypeOK', TreeNext, EntriesInv, Laying, NEW d \in Seq(Decision), Decide(d), Len(d) = 1,
           NEW c, NEW q, c = Cursor, q = Position, EntryGood(c, q)'
    PROVE  EntriesInv'
<1>1. ASSUME NEW i \in 1..Len(d), NEW u, NEW p, u = Cursor, p = Len(decided[Cursor]) + i
      PROVE  EntryGood(u, p)'
    <2>1. i = 1
        OBVIOUS
    <2>2. u = c /\ p = q
        BY <1>1, <2>1, LayingShape
    <2> QED BY <2>2
<1>2. \A u, p : \A i \in 1..Len(d) : u = Cursor /\ p = Len(decided[Cursor]) + i => EntryGood(u, p)'
    BY <1>1
<1> QED BY <1>2, EntriesNew

\* The place of the trajectory being laid, before and after a step.
LEMMA Standing ==
    ASSUME TreeTypeOK, CursorInv, Grows, Laying
    PROVE  \E c \in DOMAIN decided : \E q \in DOMAIN trajs[c] : \E x \in 0..Len(nodes) :
              /\ c = Cursor /\ q = Position /\ x = at
              /\ q = Len(decided[c]) + 1 /\ Len(decided[c]) \in Nat /\ Now = trajs[c]
              /\ trajs'[c] = trajs[c]
              /\ StandsOn(c, q, x) /\ StandsOn(c, q, x)'
<1>1. PICK c, q, x : c = Cursor /\ q = Position /\ x = at
    OBVIOUS
<1>2. /\ c \in DOMAIN decided /\ q \in DOMAIN trajs[c] /\ x \in 0..Len(nodes)
      /\ q = Len(decided[c]) + 1 /\ Len(decided[c]) \in Nat /\ Now = trajs[c]
      /\ c \in DOMAIN trajs
    BY <1>1, LayingShape, Shape DEF Now, TreeTypeOK
<1>3. StandsOn(c, q, x)
    BY <1>1, LayingShape DEF CursorInv
<1>4. StandsOn(c, q, x)'
    <2>1. q \in 1..Len(decided[c]) + 1
        BY <1>2
    <2> QED BY <1>2, <1>3, <2>1, PlaceStable
<1> QED BY <1>1, <1>2, <1>3, <1>4 DEF Grows

\* What the entries of each action say is so.
LEMMA EntriesIgnore ==
    ASSUME TreeTypeOK, TreeTypeOK', EntriesInv, CursorInv, Ignore
    PROVE  EntriesInv'
<1>1. PICK d \in Seq(Decision) :
            /\ Decide(d) /\ Len(d) = 1 /\ d[1].node = 0
            /\ d[1].why = IF Now[Position].cls = "none" THEN "terminate" ELSE "short"
    BY IgnoreEntry
<1>2. Laying /\ Ignored /\ TreeNext /\ Grows
    BY Growing DEF Ignore, TreeNext
<1>3. PICK c \in DOMAIN decided : \E q \in DOMAIN trajs[c] :
            /\ c = Cursor /\ q = Position /\ q = Len(decided[c]) + 1 /\ Now = trajs[c]
            /\ trajs'[c] = trajs[c]
    BY <1>2, Standing
<1>4. PICK q \in DOMAIN trajs[c] : q = Position /\ q = Len(decided[c]) + 1
    BY <1>3
<1>5. decided'[c][q] = d[1]
    BY <1>1, <1>2, <1>3, <1>4, OneEntry
<1>6. EntryGood(c, q)'
    BY <1>1, <1>2, <1>3, <1>4, <1>5
    DEF EntryGood, KeptGood, LeftGood, KindGood, GapGood, Stands, Ignored
<1> QED BY <1>1, <1>2, <1>3, <1>4, <1>6, EntriesOne

LEMMA EntriesReuse ==
    ASSUME TreeTypeOK, TreeTypeOK', EntriesInv, CursorInv, Reuse
    PROVE  EntriesInv'
<1>1. PICK d \in Seq(Decision), m \in Matched(at, Now[Position].act) :
            Decide(d) /\ Len(d) = 1 /\ d[1].node = m /\ d[1].why = "reuse"
    BY ReuseEntry
<1>2. Laying /\ ~Ignored /\ TreeNext /\ Grows
    BY Growing DEF Reuse, TreeNext
<1>3. PICK c \in DOMAIN decided : \E q \in DOMAIN trajs[c] : \E x \in 0..Len(nodes) :
              /\ c = Cursor /\ q = Position /\ x = at
              /\ q = Len(decided[c]) + 1 /\ Now = trajs[c] /\ trajs'[c] = trajs[c]
              /\ StandsOn(c, q, x)'
    BY <1>2, Standing
<1>4. PICK q \in DOMAIN trajs[c], x \in 0..Len(nodes) :
            q = Position /\ x = at /\ q = Len(decided[c]) + 1 /\ StandsOn(c, q, x)'
    BY <1>3
<1>5. decided'[c][q] = d[1]
    BY <1>1, <1>2, <1>3, <1>4, OneEntry
<1>6. PICK a : a = trajs[c][q].act
    OBVIOUS
<1>7. m \in Matched(x, a) /\ m \in Matched(x, a)'
    BY <1>1, <1>2, <1>3, <1>4, <1>6, MatchStable
<1>8. m \in DOMAIN nodes' /\ nodes'[m].parent = x /\ m # 0
    <2>1. m \in DOMAIN nodes /\ nodes[m].parent = x
        BY <1>7 DEF Matched, Matching, Children
    <2> QED BY <2>1, <1>2, Shape DEF Grows
<1>9. trajs'[c][q].cls # "none" /\ ~Bounded(trajs'[c], q) /\ trajs'[c][q].act = a
    BY <1>2, <1>3, <1>4, <1>6 DEF Ignored
<1>10. KeptGood(c, q)'
    BY <1>1, <1>4, <1>5, <1>7, <1>8, <1>9 DEF KeptGood
<1>11. EntryGood(c, q)'
    BY <1>1, <1>5, <1>8, <1>10 DEF EntryGood, LeftGood, KindGood, GapGood, Stands
<1> QED BY <1>1, <1>2, <1>3, <1>4, <1>11, EntriesOne

LEMMA EntriesBranch ==
    ASSUME TreeTypeOK, TreeTypeOK', EntriesInv, CursorInv, Branch
    PROVE  EntriesInv'
<1>1. PICK d \in Seq(Decision) : Decide(d) /\ Len(d) = 1 /\ d[1].node = Len(nodes) + 1 /\ d[1].why = "branch"
    BY BranchEntry
<1>2. Laying /\ ~Ignored /\ TreeNext /\ Grows
    BY Growing DEF Branch, TreeNext
<1>3. PICK c \in DOMAIN decided : \E q \in DOMAIN trajs[c] : \E x \in 0..Len(nodes) :
              /\ c = Cursor /\ q = Position /\ x = at
              /\ q = Len(decided[c]) + 1 /\ Now = trajs[c] /\ trajs'[c] = trajs[c]
              /\ StandsOn(c, q, x)'
    BY <1>2, Standing
<1>4. PICK q \in DOMAIN trajs[c], x \in 0..Len(nodes) :
            q = Position /\ x = at /\ q = Len(decided[c]) + 1 /\ StandsOn(c, q, x)'
    BY <1>3
<1>5. decided'[c][q] = d[1]
    BY <1>1, <1>2, <1>3, <1>4, OneEntry
<1>6. PICK a, n : a = trajs[c][q].act /\ n = Len(nodes) + 1
    OBVIOUS
<1>7. nodes' = Append(nodes, [parent |-> x, ref |-> a]) /\ Matching(x, a) = {}
    <2>1. Matched(x, a) = {}
        BY <1>3, <1>4, <1>6 DEF Branch
    <2> QED BY <1>3, <1>4, <1>6, <2>1, OneMatch DEF Branch
<1>8. /\ n \in DOMAIN nodes' /\ nodes'[n] = [parent |-> x, ref |-> a] /\ n # 0
      /\ \A k \in DOMAIN nodes' : k \in DOMAIN nodes \/ k = n
    BY SMTT(60), <1>6, <1>7, Shape DEF TreeTypeOK
<1>9. Full(a, a) => n \in Matched(x, a)'
    <2>1. \A k \in DOMAIN nodes' : nodes'[k].parent = x /\ Full(a, nodes'[k].ref) => k = n
        BY <1>2, <1>7, <1>8 DEF Matching, Children, Grows
    <2>2. n \in Nat
        BY <1>6, Shape
    <2> QED BY <1>8, <2>1, <2>2 DEF Matched, Matching, Children
<1>10. trajs'[c][q].cls # "none" /\ ~Bounded(trajs'[c], q) /\ trajs'[c][q].act = a
    BY <1>2, <1>3, <1>4, <1>6 DEF Ignored
<1>11. KeptGood(c, q)'
    BY <1>1, <1>4, <1>5, <1>6, <1>8, <1>9, <1>10 DEF KeptGood
<1>12. EntryGood(c, q)'
    BY <1>1, <1>5, <1>6, <1>8, <1>11 DEF EntryGood, LeftGood, KindGood, GapGood, Stands
<1> QED BY <1>1, <1>2, <1>3, <1>4, <1>12, EntriesOne

\* The place does not change over steps that are left out.
LEMMA StaysPut ==
    ASSUME NEW t, NEW q \in Nat, NEW f \in Nat, q >= 1, q <= f, NEW m, StandsOn(t, q, m)',
           \A r \in q..(f - 1) : decided'[t][r].node = 0
    PROVE  StandsOn(t, f, m)'
<1>1. CASE m = 0 /\ \A r \in 1..(q - 1) : ~Stands(t, r)'
    <2>1. \A r \in 1..(f - 1) : ~Stands(t, r)'
        <3>1. \A r \in 1..(f - 1) : r \in 1..(q - 1) \/ r \in q..(f - 1)
            OBVIOUS
        <3> QED BY <1>1, <3>1 DEF Stands
    <2> QED BY <1>1, <2>1 DEF StandsOn
<1>2. CASE \E r \in 1..(q - 1) : /\ Stands(t, r)' /\ decided'[t][r].node = m
                                 /\ \A s \in (r + 1)..(q - 1) : ~Stands(t, s)'
    <2>1. PICK r \in 1..(q - 1) : /\ Stands(t, r)' /\ decided'[t][r].node = m
                                  /\ \A s \in (r + 1)..(q - 1) : ~Stands(t, s)'
        BY <1>2
    <2>2. \A s \in (r + 1)..(f - 1) : s \in (r + 1)..(q - 1) \/ s \in q..(f - 1)
        OBVIOUS
    <2>3. r \in 1..(f - 1) /\ \A s \in (r + 1)..(f - 1) : ~Stands(t, s)'
        BY <2>1, <2>2 DEF Stands
    <2> QED BY <2>1, <2>3 DEF StandsOn
<1> QED BY <1>1, <1>2 DEF StandsOn

LEMMA CursorPlace ==
    ASSUME NEW c, NEW y, NEW x, StandsOn(c, y, x)', Cursor' = c, Position' = y, at' = x
    PROVE  StandsOn(Cursor, Position, at)'
    BY DEF StandsOn

\* The trajectories before the one being laid are done.
LEMMA CursorOthers ==
    ASSUME TreeTypeOK, TreeTypeOK', CursorInv, Laying, trajs' = trajs, NEW d \in Seq(Decision), Decide(d)
    PROVE  \A t \in DOMAIN trajs' : t < Cursor' => Len(decided'[t]) = Len(trajs'[t])
<1>1. \A t \in DOMAIN decided : t # Cursor => decided'[t] = decided[t]
    BY Decided, LayingShape
<1> QED BY <1>1, Shape DEF CursorInv, Cursor

\* What a bridge announces.
LEMMA EntriesBridge ==
    ASSUME TreeTypeOK, TreeTypeOK', EntriesInv, CursorInv, Bridge
    PROVE  EntriesInv' /\ CursorInv'
<1>1. PICK d \in Seq(Decision), k \in Gaps :
           \E m \in Matched(at, Now[Position + k].act) : \E n \in Matched(m, Now[Position + k + 1].act) :
              /\ Decide(d) /\ Len(d) = k
              /\ \A i \in 1..k : /\ d[i].node = 0 /\ d[i].why = "gap"
                                 /\ d[i].rejoin = <<Position + k, <<m, n>>>>
    BY BridgeEntries
<1>2. PICK m \in Matched(at, Now[Position + k].act) : \E n \in Matched(m, Now[Position + k + 1].act) :
              \A i \in 1..k : /\ d[i].node = 0 /\ d[i].why = "gap"
                              /\ d[i].rejoin = <<Position + k, <<m, n>>>>
    BY <1>1
<1>3. PICK n \in Matched(m, Now[Position + k + 1].act) :
              \A i \in 1..k : /\ d[i].node = 0 /\ d[i].why = "gap"
                              /\ d[i].rejoin = <<Position + k, <<m, n>>>>
    BY <1>2
<1>4. Laying /\ TreeNext /\ Grows /\ Decide(d) /\ Len(d) = k
    BY <1>1, Growing DEF Bridge, TreeNext
<1>5. PICK c \in DOMAIN decided : \E q \in DOMAIN trajs[c] : \E x \in 0..Len(nodes) :
              /\ c = Cursor /\ q = Position /\ x = at
              /\ q = Len(decided[c]) + 1 /\ Now = trajs[c] /\ trajs'[c] = trajs[c]
              /\ StandsOn(c, q, x)'
    BY <1>4, Standing
<1>6. PICK q \in DOMAIN trajs[c], x \in 0..Len(nodes) :
            q = Position /\ x = at /\ q = Len(decided[c]) + 1 /\ StandsOn(c, q, x)'
    BY <1>5
<1>7. /\ k \in Nat /\ k >= 1 /\ q + k + 1 \in DOMAIN trajs[c]
      /\ \A p \in q..(q + k - 1) : trajs[c][p].cls = "uncertain"
    BY <1>5, <1>6, SkipAssumption DEF Gaps
<1>8. q \in Nat /\ q >= 1 /\ m \in Nat /\ n \in Nat /\ Len(decided[c]) \in Nat
    <2>1. DOMAIN trajs[c] = 1..Len(trajs[c])
        BY Shape
    <2> QED BY <2>1, Shape DEF Matched, Matching, Children
<1>9. \A p \in q..(q + k - 1) : /\ decided'[c][p].node = 0 /\ decided'[c][p].why = "gap"
                                /\ decided'[c][p].rejoin = <<q + k, <<m, n>>>>
                                /\ p \in DOMAIN decided'[c]
    <2>1. /\ \A i \in 1..k : decided'[c][Len(decided[c]) + i] = d[i]
          /\ Len(decided'[c]) = Len(decided[c]) + k /\ decided' \in Seq(Seq(Decision))
          /\ Len(decided') = Len(decided)
        BY <1>4, <1>5, Decided, LayingShape
    <2>2. decided'[c] \in Seq(Decision)
        BY <2>1 DEF TreeTypeOK
    <2>3. DOMAIN decided'[c] = 1..Len(decided[c]) + k
        BY <2>1, <2>2
    <2>4. ASSUME NEW p \in q..(q + k - 1)
          PROVE  decided'[c][p] = d[p - Len(decided[c])] /\ p - Len(decided[c]) \in 1..k /\ p \in DOMAIN decided'[c]
        <3>1. p - Len(decided[c]) \in 1..k /\ p = Len(decided[c]) + (p - Len(decided[c]))
            BY <1>6, <1>7, <1>8
        <3>2. p \in 1..Len(decided[c]) + k
            BY <1>6, <1>7, <1>8
        <3> QED BY <2>1, <2>3, <3>1, <3>2
    <2> QED BY <1>3, <1>6, <2>4
<1>10. StandsOn(c, q + k, x)'
    <2>1. q + k \in Nat /\ q <= q + k
        BY <1>7, <1>8
    <2>2. \A r \in q..((q + k) - 1) : decided'[c][r].node = 0
        BY <1>7, <1>8, <1>9
    <2> QED BY <1>6, <1>8, <2>1, <2>2, StaysPut
<1>11. PICK a, b, f : a = trajs[c][q + k].act /\ b = trajs[c][q + k + 1].act /\ f = q + k
    OBVIOUS
<1>12. m \in Matched(x, a)' /\ n \in Matched(m, b)'
    <2>1. m \in Matched(x, a) /\ n \in Matched(m, b)
        BY <1>5, <1>6, <1>11
    <2> QED BY <2>1, <1>4, MatchStable
<1>13. ASSUME NEW p \in q..(q + k - 1)
       PROVE  EntryGood(c, p)'
    <2>1. KeptGood(c, p)' /\ LeftGood(c, p)' /\ KindGood(c, p)'
        BY <1>5, <1>7, <1>9 DEF KeptGood, LeftGood, KindGood, Stands
    <2>2. f \in Nat /\ p < f /\ f + 1 \in DOMAIN trajs'[c]
        BY SMTT(60), <1>5, <1>7, <1>8, <1>11
    <2>3. \A r \in p..(f - 1) : r \in DOMAIN decided'[c] /\ ~Stands(c, r)'
        <3>1. \A r \in p..(f - 1) : r \in q..(q + k - 1)
            BY <1>7, <1>8, <1>11
        <3> QED BY <3>1, <1>9 DEF Stands
    <2>4. StandsOn(c, f, x)' /\ a = trajs'[c][f].act /\ b = trajs'[c][f + 1].act
          /\ decided'[c][p].rejoin = <<f, <<m, n>>>>
        BY <1>5, <1>9, <1>10, <1>11
    <2>5. x \in Nat
        BY Shape
    <2>6. Shown(c, p, f, m, n)'
        BY <1>12, <2>2, <2>3, <2>4, <2>5 DEF Shown
    <2>7. GapGood(c, p)'
        BY <1>8, <2>2, <2>6 DEF GapGood
    <2> QED BY <2>1, <2>7 DEF EntryGood
<1>14. EntriesInv'
    <2>1. ASSUME NEW i \in 1..Len(d), NEW u, NEW p, u = Cursor, p = Len(decided[Cursor]) + i
          PROVE  EntryGood(u, p)'
        <3>1. u = c /\ p \in q..(q + k - 1)
            BY <1>4, <1>5, <1>6, <1>7, <1>8, <2>1
        <3> QED BY <3>1, <1>13
    <2>2. \A u, p : \A i \in 1..Len(d) : u = Cursor /\ p = Len(decided[Cursor]) + i => EntryGood(u, p)'
        BY <2>1
    <2> QED BY <1>4, <2>2, EntriesNew
<1>15. StandsOn(Cursor, Position, at)'
    <2>1. trajs' = trajs /\ at' = x /\ Cursor' = c
        BY <1>5, <1>6 DEF Bridge, Cursor
    <2>2. Len(decided'[c]) = Len(decided[c]) + k
        BY <1>4, <1>5, Decided, LayingShape
    <2>a. Len(decided'[c]) + 1 = q + k
        BY <1>6, <1>7, <1>8, <2>2
    <2>3. Position' = q + k
        BY <2>1, <2>a DEF Position
    <2> QED BY <1>10, <2>1, <2>3, CursorPlace
<1>16. CursorInv'
    <2>1. trajs' = trajs
        BY DEF Bridge
    <2> QED BY <1>4, <1>15, <2>1, CursorOthers DEF CursorInv
<1> QED BY <1>14, <1>16

----------------------------------------------------------------------------
(* Where the trajectory stands *)

LEMMA CursorIgnore ==
    ASSUME TreeTypeOK, TreeTypeOK', CursorInv, Ignore
    PROVE  CursorInv'
<1>1. PICK d \in Seq(Decision) : Decide(d) /\ Len(d) = 1 /\ d[1].node = 0
    BY IgnoreEntry
<1>2. Laying /\ Grows /\ trajs' = trajs /\ at' = at
    BY Growing DEF Ignore, TreeNext
<1>3. PICK c \in DOMAIN decided : \E q \in DOMAIN trajs[c] : \E x \in 0..Len(nodes) :
              /\ c = Cursor /\ q = Position /\ x = at /\ q = Len(decided[c]) + 1
              /\ Len(decided[c]) \in Nat /\ StandsOn(c, q, x)'
    BY <1>2, Standing
<1>4. PICK q \in DOMAIN trajs[c], x \in 0..Len(nodes) :
            q = Position /\ x = at /\ q = Len(decided[c]) + 1 /\ StandsOn(c, q, x)'
    BY <1>3
<1>5. decided'[c][q].node = 0 /\ Len(decided'[c]) = q
    BY <1>1, <1>2, <1>3, <1>4, OneEntry, Decided, LayingShape
<1>6. StandsOn(c, q + 1, x)'
    <2>1. q \in Nat /\ q >= 1 /\ q + 1 \in Nat /\ q <= q + 1
        BY <1>3, <1>4
    <2>2. \A r \in q..((q + 1) - 1) : decided'[c][r].node = 0
        <3>1. \A r \in q..((q + 1) - 1) : r = q
            BY <2>1
        <3> QED BY <1>5, <3>1
    <2> QED BY <1>4, <2>1, <2>2, StaysPut
<1>7. Cursor' = c /\ Position' = q + 1 /\ at' = x
    BY <1>2, <1>3, <1>4, <1>5 DEF Cursor, Position
<1> QED BY <1>1, <1>2, <1>6, <1>7, CursorPlace, CursorOthers DEF CursorInv

\* Behind a step that was kept the trajectory stands on its node.
LEMMA CursorKept ==
    ASSUME TreeTypeOK, TreeTypeOK', CursorInv, TreeNext, Laying, trajs' = trajs,
           NEW d \in Seq(Decision), Decide(d), Len(d) = 1, d[1].node = at', at' # 0
    PROVE  CursorInv'
<1>1. PICK c, q, x : c = Cursor /\ q = Position /\ x = at'
    OBVIOUS
<1>2. decided'[c][q].node = x /\ Len(decided'[c]) = q /\ q \in Nat /\ q >= 1
    <2>1. c \in DOMAIN trajs /\ q = Len(decided[c]) + 1
        BY <1>1, LayingShape
    <2>2. decided'[c][q] = d[1]
        BY <1>1, OneEntry
    <2>3. Len(decided'[c]) = Len(decided[c]) + 1
        BY <1>1, Decided, LayingShape
    <2>4. Len(decided[c]) \in Nat
        BY <2>1, Shape
    <2> QED BY <1>1, <2>1, <2>2, <2>3, <2>4
<1>3. StandsOn(c, q + 1, x)'
    <2>1. q \in 1..((q + 1) - 1) /\ \A r \in (q + 1)..((q + 1) - 1) : FALSE
        BY <1>2
    <2>2. decided'[c][q].node # 0
        BY <1>1, <1>2
    <2> QED BY <1>2, <2>1, <2>2 DEF StandsOn, Stands
<1>4. Cursor' = c /\ Position' = q + 1 /\ at' = x
    BY <1>1, <1>2 DEF Cursor, Position
<1> QED BY <1>3, <1>4, CursorPlace, CursorOthers DEF CursorInv

LEMMA CursorBegin ==
    ASSUME TreeTypeOK, TreeTypeOK', CursorInv, Begin
    PROVE  CursorInv'
<1>1. Len(trajs') = Len(trajs) + 1 /\ Len(decided') = Len(trajs) + 1 /\ at' = 0
      /\ decided'[Len(trajs) + 1] = <<>> /\ Len(trajs) \in Nat
      /\ \A t \in 1..Len(trajs) : trajs'[t] = trajs[t] /\ decided'[t] = decided[t]
    <2>1. PICK s : trajs' = Append(trajs, s)
        BY DEF Begin
    <2>2. <<>> \in Seq(Decision)
        OBVIOUS
    <2>3. Len(decided) = Len(trajs) /\ decided \in Seq(Seq(Decision)) /\ decided' = Append(decided, <<>>)
        BY DEF TreeTypeOK, Begin
    <2>4. /\ Len(decided') = Len(decided) + 1 /\ decided'[Len(decided) + 1] = <<>>
          /\ \A t \in 1..Len(decided) : decided'[t] = decided[t]
        BY <2>2, <2>3, AppendProperties
    <2> QED BY <2>1, <2>3, <2>4, Shape DEF TreeTypeOK, Begin
<1>2. StandsOn(Cursor, Position, at)'
    <2>1. PICK c : c = Len(trajs) + 1
        OBVIOUS
    <2>2. Cursor' = c /\ Position' = 1 /\ at' = 0
        BY <1>1, <2>1 DEF Cursor, Position
    <2>3. StandsOn(c, 1, 0)'
        BY DEF StandsOn
    <2> QED BY <2>2, <2>3, CursorPlace
<1>3. ASSUME NEW t \in DOMAIN trajs', t < Cursor'
      PROVE  Len(decided'[t]) = Len(trajs'[t])
    <2>1. DOMAIN trajs' = 1..Len(trajs) + 1
        BY <1>1 DEF TreeTypeOK
    <2>2. t \in 1..Len(trajs)
        BY <1>1, <1>3, <2>1 DEF Cursor
    <2>3. CASE t < Cursor
        BY <1>1, <2>2, <2>3, Shape DEF CursorInv
    <2>4. CASE t = Cursor
        <3>1. Position \notin DOMAIN trajs[t] /\ Len(decided[t]) <= Len(trajs[t])
              /\ Position = Len(decided[t]) + 1
            BY <1>1, <2>2, <2>4, Shape DEF Begin, Laying, Now, Position
        <3>2. Len(decided[t]) = Len(trajs[t])
            BY <2>2, <3>1, Shape
        <3> QED BY <1>1, <2>2, <3>2
    <2> QED BY <1>1, <2>2, <2>3, <2>4 DEF Cursor
<1> QED BY <1>2, <1>3 DEF CursorInv

----------------------------------------------------------------------------
(* Siblings *)

LEMMA SiblingsNext ==
    ASSUME TreeTypeOK, SiblingsDiffer, TreeNext
    PROVE  SiblingsDiffer'
<1>1. CASE UNCHANGED nodes
    BY <1>1 DEF SiblingsDiffer
<1>2. CASE Branch
    <2>1. PICK x, a, n : x = at /\ a = Now[Position].act /\ n = Len(nodes) + 1
        OBVIOUS
    <2>2. nodes' = Append(nodes, [parent |-> x, ref |-> a]) /\ Matching(x, a) = {}
        BY <1>2, <2>1, OneMatch DEF Branch
    <2>3. /\ \A m \in DOMAIN nodes' : m \in DOMAIN nodes \/ m = n
          /\ \A m \in DOMAIN nodes : nodes'[m] = nodes[m] /\ m < n
          /\ nodes'[n] = [parent |-> x, ref |-> a] /\ n \in Nat
        <3>1. /\ n \in DOMAIN nodes' /\ nodes'[n] = [parent |-> x, ref |-> a]
              /\ \A m \in DOMAIN nodes' : m \in DOMAIN nodes \/ m = n
              /\ \A k \in DOMAIN nodes : nodes'[k] = nodes[k]
            BY <2>1, <2>2, Shape DEF TreeTypeOK
        <3>2. n \in Nat /\ \A m \in DOMAIN nodes : m < n
            BY <2>1, Shape
        <3> QED BY <3>1, <3>2
    <2>4. SUFFICES ASSUME NEW m \in DOMAIN nodes', NEW k \in DOMAIN nodes',
                          m < k, nodes'[m].parent = nodes'[k].parent
                   PROVE  ~Full(nodes'[k].ref, nodes'[m].ref)
        BY DEF SiblingsDiffer
    <2>5. CASE k \in DOMAIN nodes
        <3>1. m \in DOMAIN nodes
            BY <2>3, <2>4, <2>5, Shape
        <3> QED BY <2>3, <2>4, <2>5, <3>1 DEF SiblingsDiffer
    <2>6. CASE k = n
        <3>1. m \in DOMAIN nodes
            BY <2>3, <2>4, <2>6
        <3> QED BY <2>2, <2>3, <2>4, <2>6, <3>1 DEF Matching, Children
    <2> QED BY <2>3, <2>5, <2>6
<1> QED BY <1>1, <1>2 DEF TreeNext, Begin, Ignore, Reuse, Bridge

----------------------------------------------------------------------------
(* Gaps *)

\* At a step that a match exists for, the trajectory goes there or the step is left out.
LEMMA Follows ==
    ASSUME TreeTypeOK, TreeTypeOK', CursorInv, Laying, TreeNext, trajs' = trajs, NEW d \in Seq(Decision), Decide(d),
           NEW l, NEW m, StandsOn(Cursor, Position, l), m \in Matched(l, Now[Position].act)
    PROVE  \/ decided'[Cursor][Position].node = 0
           \/ decided'[Cursor][Position].node = m /\ Reuse
<1>1. l = at
    <2>1. StandsOn(Cursor, Position, at)
        BY LayingShape DEF CursorInv
    <2> QED BY <2>1, LayingShape, OnePlace
<1>2. CASE Begin
    BY <1>2 DEF Begin
<1>3. CASE Ignore
    BY <1>3, IgnoreEntry, OneEntry
<1>4. CASE Reuse
    <2>1. PICK e \in Seq(Decision), k \in Matched(at, Now[Position].act) :
                Decide(e) /\ Len(e) = 1 /\ e[1].node = k
        BY <1>4, ReuseEntry
    <2>2. k = m
        BY <1>1, <2>1, OneMatch
    <2> QED BY <1>4, <2>1, <2>2, OneEntry
<1>5. CASE Bridge \/ Branch
    BY <1>1, <1>5 DEF Bridge, Branch
<1> QED BY <1>2, <1>3, <1>4, <1>5 DEF TreeNext

\* The steps an old gap announced, when the step decides them.
LEMMA RejoinDecide ==
    ASSUME TreeTypeOK, TreeTypeOK', EntriesInv, CursorInv, RejoinInv, TreeNext, Laying, trajs' = trajs,
           NEW d \in Seq(Decision), Decide(d), Reuse => Len(decided'[Cursor]) = Len(decided[Cursor]) + 1,
           NEW t \in DOMAIN decided, NEW p \in DOMAIN decided[t]
    PROVE  Rejoined(t, p)'
<1>1. Grows
    BY Growing
<1>2. SUFFICES ASSUME NEW first \in Nat, NEW m \in Nat, NEW n \in Nat,
                      decided[t][p].why = "gap", decided[t][p].rejoin = <<first, <<m, n>>>>
               PROVE  /\ first \in DOMAIN decided'[t] /\ Stands(t, first)' => decided'[t][first].node = m
                      /\ first \in DOMAIN decided'[t] /\ Stands(t, first)'
                           /\ first + 1 \in DOMAIN decided'[t] /\ Stands(t, first + 1)'
                           => decided'[t][first + 1].node = n
    <2>1. decided'[t][p] = decided[t][p]
        BY <1>1 DEF Grows
    <2> QED BY <2>1 DEF Rejoined
<1>3. Shown(t, p, first, m, n)
    <2>1. PICK f \in Nat, mm \in Nat, nn \in Nat : Shown(t, p, f, mm, nn)
        BY <1>2 DEF EntriesInv, GapGood
    <2>2. f = first /\ mm = m /\ nn = n
        BY <1>2, <2>1 DEF Shown
    <2> QED BY <2>1, <2>2
<1>4. /\ \A q \in DOMAIN decided[t] : Stands(t, q)' <=> Stands(t, q)
      /\ \A q \in DOMAIN decided[t] : decided'[t][q] = decided[t][q]
      /\ DOMAIN decided[t] = 1..Len(decided[t]) /\ Len(decided[t]) \in Nat
      /\ DOMAIN decided'[t] = 1..Len(decided'[t]) /\ Len(decided'[t]) \in Nat
    <2>1. decided'[t] \in Seq(Decision)
        BY <1>1 DEF Grows, TreeTypeOK
    <2> QED BY <1>1, <2>1, Shape DEF Grows, Stands
<1>5. first - 1 \in DOMAIN decided[t] /\ first >= 1
    <2>1. first - 1 \in p..(first - 1) /\ first >= 1
        BY <1>3, <1>4 DEF Shown
    <2> QED BY <1>3, <2>1 DEF Shown
<1>6. \A q \in DOMAIN decided'[t] : q \notin DOMAIN decided[t] => t = Cursor /\ q >= Position
    <2>1. SUFFICES ASSUME NEW q \in DOMAIN decided'[t], q \notin DOMAIN decided[t]
                   PROVE  t = Cursor /\ q >= Position
        OBVIOUS
    <2>2. t \in DOMAIN decided'
        BY <1>1 DEF Grows
    <2>3. PICK i \in 1..Len(d) : t = Cursor /\ q = Len(decided[Cursor]) + i
        BY <2>1, <2>2, EntriesSplit
    <2> QED BY <2>3, LayingShape, Shape
<1>7. t = Cursor => /\ Now = trajs[t] /\ Position = Len(decided[t]) + 1
                    /\ \A l, k : /\ StandsOn(t, Position, l) /\ k \in Matched(l, trajs[t][Position].act)
                                 => \/ decided'[t][Position].node = 0
                                    \/ decided'[t][Position].node = k /\ Reuse
    BY Follows, LayingShape DEF Now
<1>8. ASSUME first \in DOMAIN decided'[t], Stands(t, first)'
      PROVE  decided'[t][first].node = m /\ (first \notin DOMAIN decided[t] => Reuse)
    <2>1. CASE first \in DOMAIN decided[t]
        <3>1. Rejoined(t, p)
            BY DEF RejoinInv
        <3>2. Stands(t, first)
            BY <1>4, <1>8, <2>1
        <3>3. decided[t][first].node = m
            BY <1>2, <2>1, <3>1, <3>2 DEF Rejoined
        <3> QED BY <1>4, <2>1, <3>3
    <2>2. CASE first \notin DOMAIN decided[t]
        <3>1. t = Cursor /\ first = Position
            BY <1>4, <1>5, <1>6, <1>7, <1>8, <2>2
        <3>2. PICK l \in Nat : StandsOn(t, first, l) /\ m \in Matched(l, trajs[t][first].act)
            BY <1>3 DEF Shown
        <3>3. \/ decided'[t][first].node = 0
              \/ decided'[t][first].node = m /\ Reuse
            BY <1>7, <3>1, <3>2
        <3> QED BY <1>8, <3>3 DEF Stands
    <2> QED BY <2>1, <2>2
<1>9. ASSUME first \in DOMAIN decided'[t], Stands(t, first)',
             first + 1 \in DOMAIN decided'[t], Stands(t, first + 1)'
      PROVE  decided'[t][first + 1].node = n
    <2>1. CASE first + 1 \in DOMAIN decided[t]
        <3>1. first \in DOMAIN decided[t]
            BY <1>4, <1>5, <2>1
        <3>2. Rejoined(t, p)
            BY DEF RejoinInv
        <3>3. Stands(t, first) /\ Stands(t, first + 1)
            BY <1>4, <1>9, <2>1, <3>1
        <3>4. decided[t][first + 1].node = n
            BY <1>2, <2>1, <3>1, <3>2, <3>3 DEF Rejoined
        <3> QED BY <1>4, <2>1, <3>4
    <2>2. CASE first + 1 \notin DOMAIN decided[t]
        <3>1. t = Cursor
            BY <1>6, <1>9, <2>2
        <3>2. first \in DOMAIN decided[t]
            <4>1. SUFFICES ASSUME Reuse
                           PROVE  first \in DOMAIN decided[t]
                BY <1>8, <1>9
            <4>2. Len(decided'[t]) = Len(decided[t]) + 1
                BY <3>1, <4>1
            <4> QED BY <1>4, <1>5, <1>9, <4>2
        <3>3. first + 1 = Position
            BY <1>4, <1>7, <2>2, <3>1, <3>2
        <3>4. decided[t][first].node = m /\ Stands(t, first)
            BY <1>4, <1>8, <1>9, <3>2
        <3>5. StandsOn(t, first + 1, m)
            <4>1. first \in 1..((first + 1) - 1) /\ \A r \in (first + 1)..((first + 1) - 1) : FALSE
                BY <1>5
            <4> QED BY <3>4, <4>1 DEF StandsOn
        <3>6. n \in Matched(m, trajs[t][first + 1].act)
            BY <1>3 DEF Shown
        <3>7. \/ decided'[t][first + 1].node = 0
              \/ decided'[t][first + 1].node = n /\ Reuse
            BY <1>7, <3>1, <3>3, <3>5, <3>6
        <3> QED BY <1>9, <3>7 DEF Stands
    <2> QED BY <2>1, <2>2
<1> QED BY <1>8, <1>9

LEMMA RejoinNext ==
    ASSUME TreeTypeOK, TreeTypeOK', EntriesInv, CursorInv, RejoinInv, TreeNext
    PROVE  RejoinInv'
<1>1. CASE Begin
    <2>1. Grows /\ \A t \in DOMAIN decided' : \A p \in DOMAIN decided'[t] :
                      t \in DOMAIN decided /\ p \in DOMAIN decided[t]
        BY <1>1, Growing, BeginEntries
    <2>2. SUFFICES ASSUME NEW t \in DOMAIN decided', NEW p \in DOMAIN decided'[t]
                   PROVE  Rejoined(t, p)'
        BY DEF RejoinInv
    <2>3. /\ t \in DOMAIN decided /\ p \in DOMAIN decided[t]
          /\ DOMAIN decided'[t] = DOMAIN decided[t]
          /\ \A q \in DOMAIN decided[t] : decided'[t][q] = decided[t][q]
        BY <2>1, <2>2 DEF Grows
    <2>4. Rejoined(t, p)
        BY <2>3 DEF RejoinInv
    <2> QED BY <2>3, <2>4 DEF Rejoined, Stands
<1>2. ASSUME Laying, NEW d \in Seq(Decision), Decide(d), trajs' = trajs,
             Reuse => Len(decided'[Cursor]) = Len(decided[Cursor]) + 1,
             \A c, p : \A i \in 1..Len(d) : c = Cursor /\ p = Len(decided[Cursor]) + i => Rejoined(c, p)'
      PROVE  RejoinInv'
    <2>1. SUFFICES ASSUME NEW t \in DOMAIN decided', NEW p \in DOMAIN decided'[t]
                   PROVE  Rejoined(t, p)'
        BY DEF RejoinInv
    <2>2. CASE t \in DOMAIN decided /\ p \in DOMAIN decided[t]
        BY <1>2, <2>2, RejoinDecide
    <2>3. CASE t = Cursor /\ \E i \in 1..Len(d) : p = Len(decided[Cursor]) + i
        BY <1>2, <2>3
    <2> QED BY <1>2, <2>2, <2>3, EntriesSplit
<1>3. ASSUME Laying, NEW d \in Seq(Decision), Decide(d), trajs' = trajs, Len(d) = 1, d[1].why # "gap"
      PROVE  RejoinInv'
    <2>1. Len(decided'[Cursor]) = Len(decided[Cursor]) + 1
        BY <1>3, Decided, LayingShape
    <2>2. ASSUME NEW i \in 1..Len(d), NEW c, NEW p, c = Cursor, p = Len(decided[Cursor]) + i
          PROVE  Rejoined(c, p)'
        <3>1. i = 1 /\ p = Position
            BY <1>3, <2>2, LayingShape
        <3>2. decided'[c][p] = d[1]
            BY <1>3, <2>2, <3>1, OneEntry
        <3> QED BY <1>3, <3>2 DEF Rejoined
    <2> QED BY <1>2, <1>3, <2>1, <2>2
<1>4. CASE Ignore
    <2>1. PICK d \in Seq(Decision) :
                /\ Decide(d) /\ Len(d) = 1
                /\ d[1].why = IF Now[Position].cls = "none" THEN "terminate" ELSE "short"
        BY <1>4, IgnoreEntry
    <2> QED BY <1>3, <1>4, <2>1 DEF Ignore
<1>5. CASE Reuse
    BY <1>3, <1>5, ReuseEntry DEF Reuse
<1>6. CASE Branch
    BY <1>3, <1>6, BranchEntry DEF Branch
<1>7. CASE Bridge
    <2>1. PICK d \in Seq(Decision), k \in Gaps :
           \E m \in Matched(at, Now[Position + k].act) : \E n \in Matched(m, Now[Position + k + 1].act) :
              /\ Decide(d) /\ Len(d) = k
              /\ \A i \in 1..k : /\ d[i].node = 0 /\ d[i].why = "gap"
                                 /\ d[i].rejoin = <<Position + k, <<m, n>>>>
        BY <1>7, BridgeEntries
    <2>2. Laying /\ trajs' = trajs /\ Position \in Nat /\ k \in Nat /\ k >= 1 /\ Decide(d) /\ Len(d) = k
          /\ Position = Len(decided[Cursor]) + 1 /\ Len(decided[Cursor]) \in Nat
        BY <1>7, <2>1, LayingShape, Shape, SkipAssumption DEF Bridge, Gaps
    <2>3. /\ \A i \in 1..k : decided'[Cursor][Len(decided[Cursor]) + i] = d[i]
          /\ Len(decided'[Cursor]) = Len(decided[Cursor]) + k
        BY <2>1, <2>2, Decided, LayingShape
    <2>4. decided'[Cursor] \in Seq(Decision)
        <3>1. Cursor \in DOMAIN decided' /\ Len(decided') = Len(decided)
            BY <2>1, <2>2, Decided, LayingShape, Shape DEF TreeTypeOK
        <3> QED BY <3>1 DEF TreeTypeOK
    <2>5. DOMAIN decided'[Cursor] = 1..Len(decided[Cursor]) + k
        BY <2>3, <2>4
    <2>6. Position + k \notin DOMAIN decided'[Cursor]
        BY <2>2, <2>5
    <2>7. ASSUME NEW i \in 1..Len(d), NEW c, NEW p, c = Cursor, p = Len(decided[Cursor]) + i
          PROVE  Rejoined(c, p)'
        <3>1. decided'[c][p].rejoin[1] = Position + k
            <4>1. d[i].rejoin[1] = Position + k
                BY <2>1, <2>2
            <4>2. decided'[c][p] = d[i]
                BY <2>2, <2>3, <2>7
            <4> QED BY <4>1, <4>2
        <3>2. SUFFICES ASSUME NEW first \in Nat, NEW m \in Nat, NEW n \in Nat,
                              decided'[c][p].rejoin = <<first, <<m, n>>>>
                       PROVE  first \notin DOMAIN decided'[c]
            BY DEF Rejoined
        <3> QED BY <2>6, <2>7, <3>1, <3>2
    <2> QED BY <1>2, <2>2, <2>7, <1>7 DEF Bridge, Reuse
<1> QED BY <1>1, <1>4, <1>5, <1>6, <1>7 DEF TreeNext

----------------------------------------------------------------------------
(* Repeats *)

Follower(t, u, p) == decided[u][p].node = decided[t][p].node /\ decided[u][p].why # "branch"

\* One that leads after a step led before it.
LEMMA LeadsBefore ==
    ASSUME TreeTypeOK, CursorInv, Grows, NEW t \in DOMAIN trajs, t < Cursor, Leads(t)'
    PROVE  /\ Leads(t) /\ DOMAIN decided[t] = DOMAIN trajs[t]
           /\ \A p \in DOMAIN trajs[t] : decided'[t][p] = decided[t][p]
<1>1. /\ DOMAIN decided[t] = DOMAIN trajs[t] /\ trajs'[t] = trajs[t]
      /\ \A p \in DOMAIN trajs[t] : decided'[t][p] = decided[t][p]
    BY Shape DEF CursorInv, Grows
<1> QED BY <1>1 DEF Leads

\* The leader decides what the follower does at its next step.
LEMMA LeaderDecides ==
    ASSUME TreeTypeOK, EntriesInv, CursorInv, RepeatInv, Laying,
           NEW t \in DOMAIN trajs, t < Cursor, trajs[t] = Now, Leads(t)
    PROVE  /\ Ignored => decided[t][Position].node = 0
           /\ ~Ignored => /\ StandsOn(Cursor, Position, at)
                          /\ decided[t][Position].node \in Matched(at, Now[Position].act)
<1>1. PICK u, q, n : u = Cursor /\ q = Position /\ n = decided[t][Position].node
    OBVIOUS
<1>2. /\ u \in DOMAIN trajs /\ q \in Nat /\ q \in DOMAIN trajs[t] /\ q = Len(decided[u]) + 1
      /\ DOMAIN decided[u] = 1..Len(decided[u]) /\ Len(decided[u]) \in Nat /\ trajs[t] = trajs[u]
    BY <1>1, LayingShape, Shape DEF Now
<1>3. t \in DOMAIN decided /\ q \in DOMAIN decided[t] /\ DOMAIN decided[t] = DOMAIN trajs[t]
    BY <1>2, Shape DEF CursorInv
<1>4. \A r \in 1..(q - 1) : decided[u][r].node = decided[t][r].node
    <2>1. \A r \in 1..(q - 1) : r \in DOMAIN decided[u]
        BY <1>2
    <2> QED BY <1>1, <1>2, <2>1 DEF RepeatInv
<1>5. \A x : StandsOn(t, q, x) => StandsOn(u, q, x)
    <2>1. \A r \in 1..(q - 1) : Stands(t, r) <=> Stands(u, r)
        BY <1>4 DEF Stands
    <2>2. \A y \in 1..(q - 1) : \A r \in (y + 1)..(q - 1) : r \in 1..(q - 1)
        BY <1>2
    <2> QED BY <1>4, <2>1, <2>2 DEF StandsOn
<1>6. KeptGood(t, q) /\ LeftGood(t, q)
    BY <1>3 DEF EntriesInv
<1>7. Ignored => n = 0
    BY <1>1, <1>6 DEF KeptGood, Ignored, Stands
<1>8. ASSUME ~Ignored
      PROVE  StandsOn(Cursor, Position, at) /\ n \in Matched(at, Now[Position].act)
    <2>1. Stands(t, q)
        BY <1>1, <1>2, <1>6, <1>8 DEF LeftGood, Ignored, Leads
    <2>2. PICK x : x = nodes[n].parent
        OBVIOUS
    <2>3. StandsOn(t, q, x) /\ n \in Matched(x, trajs[t][q].act)
        <3>1. Full(trajs[t][q].act, trajs[t][q].act)
            BY <1>2 DEF Leads
        <3> QED BY <1>1, <1>6, <2>1, <2>2, <3>1 DEF KeptGood
    <2>4. StandsOn(u, q, at)
        BY <1>1, LayingShape DEF CursorInv
    <2>5. x = at
        BY <1>2, <1>5, <2>3, <2>4, OnePlace
    <2> QED BY <1>1, <2>3, <2>4, <2>5
<1> QED BY <1>1, <1>7, <1>8

LEMMA RepeatDecide ==
    ASSUME TreeTypeOK, TreeTypeOK', EntriesInv, CursorInv, RepeatInv, TreeNext, Laying, trajs' = trajs,
           NEW t \in DOMAIN trajs, t < Cursor, trajs[t] = Now, Leads(t)
    PROVE  /\ Ignore \/ Reuse
           /\ decided'[Cursor][Position].node = decided[t][Position].node
           /\ decided'[Cursor][Position].why # "branch"
<1>1. ~Begin
    BY DEF Begin
<1>2. CASE Ignore
    <2>1. PICK d \in Seq(Decision) :
                /\ Decide(d) /\ Len(d) = 1 /\ d[1].node = 0
                /\ d[1].why = IF Now[Position].cls = "none" THEN "terminate" ELSE "short"
        BY <1>2, IgnoreEntry
    <2>2. decided'[Cursor][Position] = d[1]
        BY <2>1, OneEntry
    <2>3. decided[t][Position].node = 0
        BY <1>2, LeaderDecides DEF Ignore
    <2> QED BY <1>2, <2>1, <2>2, <2>3
<1>3. CASE Reuse
    <2>1. PICK d \in Seq(Decision), m \in Matched(at, Now[Position].act) :
                Decide(d) /\ Len(d) = 1 /\ d[1].node = m /\ d[1].why = "reuse"
        BY <1>3, ReuseEntry
    <2>2. decided'[Cursor][Position] = d[1]
        BY <2>1, OneEntry
    <2>3. decided[t][Position].node = m
        BY <1>3, <2>1, LeaderDecides, OneMatch DEF Reuse
    <2> QED BY <1>3, <2>1, <2>2, <2>3
<1>4. ~Bridge /\ ~Branch
    BY LeaderDecides DEF Bridge, Branch
<1> QED BY <1>1, <1>2, <1>3, <1>4 DEF TreeNext

LEMMA RepeatNext ==
    ASSUME TreeTypeOK, TreeTypeOK', EntriesInv, CursorInv, RepeatInv, TreeNext
    PROVE  RepeatInv'
<1>1. Grows
    BY Growing
<1>2. SUFFICES ASSUME NEW t \in DOMAIN trajs', NEW u \in DOMAIN trajs', t < u,
                      trajs'[t] = trajs'[u], Leads(t)', NEW p \in DOMAIN decided'[u]
               PROVE  decided'[u][p].node = decided'[t][p].node /\ decided'[u][p].why # "branch"
    BY DEF RepeatInv
<1>3. u \in DOMAIN decided' /\ u \in Nat /\ t \in Nat /\ t >= 1
    BY SMTT(60), <1>2 DEF TreeTypeOK
<1>4. ASSUME u \in DOMAIN trajs
      PROVE  /\ t \in DOMAIN trajs /\ t < Cursor /\ trajs[t] = trajs[u] /\ Leads(t)
             /\ \A r \in DOMAIN trajs[t] : decided'[t][r] = decided[t][r]
    <2>1. t \in DOMAIN trajs /\ t < Cursor
        BY <1>2, <1>3, <1>4, Shape DEF Cursor
    <2> QED BY <1>1, <1>2, <1>4, <2>1, LeadsBefore DEF Grows
<1>5. CASE u \in DOMAIN decided /\ p \in DOMAIN decided[u]
    <2>1. u \in DOMAIN trajs /\ p \in DOMAIN trajs[u] /\ decided'[u][p] = decided[u][p]
        BY <1>1, <1>5, Shape DEF Grows
    <2>2. decided[u][p].node = decided[t][p].node /\ decided[u][p].why # "branch"
        BY <1>2, <1>4, <1>5, <2>1 DEF RepeatInv
    <2> QED BY <1>4, <2>1, <2>2
<1>6. CASE ~(u \in DOMAIN decided /\ p \in DOMAIN decided[u])
    <2>1. ~Begin
        BY <1>3, <1>6, BeginEntries
    <2>2. Laying /\ trajs' = trajs
        BY <2>1 DEF TreeNext, Ignore, Reuse, Bridge, Branch
    <2>3. ASSUME NEW d \in Seq(Decision), Decide(d)
          PROVE  u = Cursor /\ \E i \in 1..Len(d) : p = Len(decided[Cursor]) + i
        BY <1>3, <1>6, <2>2, <2>3, EntriesSplit
    <2>4. u = Cursor
        BY <2>1, <2>3, IgnoreEntry, ReuseEntry, BridgeEntries, BranchEntry DEF TreeNext
    <2>5. trajs[t] = Now /\ t \in DOMAIN trajs /\ t < Cursor /\ Leads(t) /\ Position \in DOMAIN Now
        BY <1>4, <2>2, <2>4, LayingShape DEF Now
    <2>6. /\ Ignore \/ Reuse
          /\ decided'[Cursor][Position].node = decided[t][Position].node
          /\ decided'[Cursor][Position].why # "branch"
        BY <2>2, <2>5, RepeatDecide
    <2>7. p = Position
        <3>1. PICK d \in Seq(Decision) : Decide(d) /\ Len(d) = 1
            BY <2>6, IgnoreEntry, ReuseEntry
        <3>2. PICK i \in 1..Len(d) : p = Len(decided[Cursor]) + i
            BY <2>3, <3>1
        <3> QED BY <2>2, <3>1, <3>2, LayingShape
    <2>8. decided'[t][Position] = decided[t][Position]
        BY <1>4, <2>2, <2>4, <2>5
    <2> QED BY <2>4, <2>6, <2>7, <2>8
<1> QED BY <1>5, <1>6

----------------------------------------------------------------------------
(* The invariant *)

LEMMA TreeInvInit == TreeInit => TreeInv
<1> SUFFICES ASSUME TreeInit PROVE TreeInv
    OBVIOUS
<1>1. TreeTypeOK
    BY TypeInit
<1>2. trajs = <<>> /\ nodes = <<>> /\ decided = <<>>
    BY DEF TreeInit
<1>3. DOMAIN trajs = {} /\ DOMAIN nodes = {} /\ DOMAIN decided = {}
    BY <1>2
<1> QED BY <1>1, <1>2, <1>3 DEF TreeInv, SiblingsDiffer, EntriesInv, CursorInv, RejoinInv, RepeatInv

LEMMA IInvNext ==
    ASSUME TreeInv, [TreeNext]_treeVars
    PROVE  TreeInv'
<1>1. TreeTypeOK /\ TreeTypeOK' /\ SiblingsDiffer /\ EntriesInv /\ CursorInv /\ RejoinInv /\ RepeatInv
    BY TypeNext DEF TreeInv
<1>2. CASE TreeNext
    <2>1. SiblingsDiffer' /\ RejoinInv' /\ RepeatInv'
        BY <1>1, <1>2, SiblingsNext, RejoinNext, RepeatNext
    <2>2. EntriesInv' /\ CursorInv'
        <3>1. CASE Begin
            <4>1. Grows
                BY <1>1, <1>2, Growing
            <4>2. EntriesInv'
                BY <1>1, <3>1, <4>1, BeginEntries, EntriesOld DEF EntriesInv, EntryGood
            <4> QED BY <1>1, <3>1, <4>2, CursorBegin
        <3>2. CASE Ignore
            BY <1>1, <3>2, EntriesIgnore, CursorIgnore
        <3>3. CASE Reuse
            <4>1. PICK d \in Seq(Decision), m \in Matched(at, Now[Position].act) :
                        Decide(d) /\ Len(d) = 1 /\ at' = m /\ d[1].node = m
                BY <1>1, <3>3, ReuseEntry
            <4>2. at' # 0
                BY <1>1, <4>1, Shape DEF Matched, Matching, Children
            <4>3. Laying /\ trajs' = trajs
                BY <3>3 DEF Reuse
            <4> QED BY <1>1, <1>2, <3>3, <4>1, <4>2, <4>3, EntriesReuse, CursorKept
        <3>4. CASE Bridge
            BY <1>1, <3>4, EntriesBridge
        <3>5. CASE Branch
            <4>1. PICK d \in Seq(Decision) : Decide(d) /\ Len(d) = 1 /\ d[1].node = Len(nodes) + 1
                BY <1>1, <3>5, BranchEntry
            <4>2. Laying /\ trajs' = trajs /\ at' = Len(nodes) + 1
                BY <3>5 DEF Branch
            <4>3. at' # 0
                BY <1>1, <4>2, Shape
            <4> QED BY <1>1, <1>2, <3>5, <4>1, <4>2, <4>3, EntriesBranch, CursorKept
        <3> QED BY <1>2, <3>1, <3>2, <3>3, <3>4, <3>5 DEF TreeNext
    <2> QED BY <1>1, <2>1, <2>2 DEF TreeInv
<1>3. CASE UNCHANGED treeVars
    <2>1. /\ feed' = feed /\ trajs' = trajs /\ nodes' = nodes /\ at' = at /\ decided' = decided
        BY <1>3 DEF treeVars
    <2>2. SiblingsDiffer'
        BY <1>1, <2>1 DEF SiblingsDiffer
    <2>3. EntriesInv'
        BY SMTT(60), <1>1, <2>1 DEF EntriesInv, KeptGood, LeftGood, KindGood, GapGood, Shown, Stands, StandsOn,
                          Matched, Matching, Children
    <2>4. CursorInv'
        BY <1>1, <2>1 DEF CursorInv, StandsOn, Stands, Cursor, Position
    <2>5. RejoinInv' /\ RepeatInv'
        BY <1>1, <2>1 DEF RejoinInv, Rejoined, RepeatInv, Leads, Stands
    <2> QED BY <1>1, <2>2, <2>3, <2>4, <2>5 DEF TreeInv
<1> QED BY <1>2, <1>3

\* TreeInv: the tree, the entries and the place the trajectory stands on agree at every step.
THEOREM TreeInvariance == TreeSpec => []TreeInv
    BY TreeInvInit, IInvNext, PTL DEF TreeSpec

\* KeptStepsArePaths: what is kept of a trajectory is a path from the desktop (build_tree).
THEOREM Paths == TreeSpec => []KeptStepsArePaths
<1>1. TreeInv => KeptStepsArePaths
    BY DEF TreeInv, KeptStepsArePaths, EntriesInv, KeptGood
<1> QED BY <1>1, TreeInvariance, PTL

\* SiblingsDiffer: no branch is opened for an action the tree has (best_matching_child).
THEOREM Siblings == TreeSpec => []SiblingsDiffer
<1>1. TreeInv => SiblingsDiffer
    BY DEF TreeInv
<1> QED BY <1>1, TreeInvariance, PTL

\* Only the last step of a run has its next step outside of it, and that is the step with
\* the confident ones behind it.
LEMMA RunEnds ==
    ASSUME NEW s, NEW n \in Nat, DOMAIN s = 1..n, NEW p \in 1..n, Bounded(s, p),
           NEW q \in Run(s, p), q + 1 \notin Run(s, p)
    PROVE  Recovers(s, q)
<1>1. PICK e \in Run(s, p) : (\A r \in Run(s, p) : r <= e) /\ Recovers(s, e)
    BY DEF Bounded
<1>2. q \in 1..n /\ e \in 1..n /\ q <= e
    BY <1>1 DEF Run
<1>3. q = e
    <2>1. SUFFICES ASSUME q < e
                   PROVE  q + 1 \in Run(s, p)
        BY <1>2
    <2>2. q + 1 \in 1..n
        BY <1>2, <2>1
    <2>3. ASSUME NEW r \in 1..n, (p <= r /\ r <= q + 1) \/ (q + 1 <= r /\ r <= p)
          PROVE  s[r].cls = "candidate"
        <3>1. (p <= r /\ r <= e) \/ (q <= r /\ r <= p)
            BY <1>2, <2>1, <2>3
        <3> QED BY <1>1, <3>1 DEF Run
    <2> QED BY <2>2, <2>3 DEF Run
<1> QED BY <1>1, <1>3

\* RecoveryHappens: what a step was left out for comes true (apply_bounded_skip_policy,
\* find_resync_candidate).
THEOREM Recovery == TreeSpec => []RecoveryHappens
<1>1. ASSUME TreeInv
      PROVE  RecoveryHappens
    <2>1. TreeTypeOK /\ EntriesInv /\ RejoinInv
        BY <1>1 DEF TreeInv
    <2>2. SUFFICES ASSUME NEW t \in DOMAIN decided, NEW p \in DOMAIN decided[t]
          PROVE  /\ decided[t][p].why = "short" =>
                      \A q \in Run(trajs[t], p) : q + 1 \notin Run(trajs[t], p) =>
                          \A r \in {q + 1, q + 2} \intersect DOMAIN decided[t] : Stands(t, r)
                 /\ decided[t][p].why = "gap" =>
                      LET first == decided[t][p].rejoin[1]
                          shown == decided[t][p].rejoin[2]
                      IN \A j \in 1..Confirmations :
                           (\A q \in first .. first + j - 1 : q \in DOMAIN decided[t] /\ Stands(t, q))
                             => decided[t][first + j - 1].node = shown[j]
        BY DEF RecoveryHappens
    <2>3. /\ DOMAIN trajs[t] = 1..Len(trajs[t]) /\ Len(trajs[t]) \in Nat /\ p \in 1..Len(trajs[t])
          /\ \A q \in DOMAIN decided[t] : q \in 1..Len(trajs[t])
        BY <2>1, Shape
    <2>4. ASSUME decided[t][p].why = "short", NEW q \in Run(trajs[t], p), q + 1 \notin Run(trajs[t], p),
                 NEW r \in {q + 1, q + 2} \intersect DOMAIN decided[t]
          PROVE  Stands(t, r)
        <3>1. KindGood(t, p) /\ LeftGood(t, p) /\ LeftGood(t, r)
            BY <2>1 DEF EntriesInv
        <3>2. Bounded(trajs[t], p)
            BY <2>4, <3>1 DEF KindGood, LeftGood
        <3>3. Recovers(trajs[t], q) /\ q \in 1..Len(trajs[t])
            BY <2>3, <2>4, <3>2, RunEnds DEF Run
        <3>4. trajs[t][r].cls = "normal"
            BY <3>3 DEF Recovers, Confirmations
        <3>5. ~Bounded(trajs[t], r)
            BY <3>4 DEF Bounded
        <3> QED BY <3>1, <3>4, <3>5 DEF LeftGood
    <2>5. ASSUME decided[t][p].why = "gap", NEW j \in 1..Confirmations,
                 \A q \in decided[t][p].rejoin[1] .. decided[t][p].rejoin[1] + j - 1 :
                    q \in DOMAIN decided[t] /\ Stands(t, q)
          PROVE  decided[t][decided[t][p].rejoin[1] + j - 1].node = decided[t][p].rejoin[2][j]
        <3>1. PICK first \in Nat, m \in Nat, n \in Nat : decided[t][p].rejoin = <<first, <<m, n>>>>
            BY <2>1, <2>5 DEF EntriesInv, GapGood, Shown
        <3>2. /\ decided[t][p].rejoin[1] = first /\ decided[t][p].rejoin[2][1] = m
              /\ decided[t][p].rejoin[2][2] = n
            BY <3>1
        <3>3. Rejoined(t, p)
            BY <2>1 DEF RejoinInv
        <3>4. j = 1 \/ j = 2
            BY DEF Confirmations
        <3>5. CASE j = 1
            <4>1. first \in DOMAIN decided[t] /\ Stands(t, first) /\ first + j - 1 = first
                BY <2>5, <3>2, <3>5
            <4>2. decided[t][first].node = m
                BY <2>5, <3>1, <3>3, <4>1 DEF Rejoined
            <4> QED BY <3>2, <3>5, <4>1, <4>2
        <3>6. CASE j = 2
            <4>1. /\ first \in DOMAIN decided[t] /\ Stands(t, first) /\ first + j - 1 = first + 1
                  /\ first + 1 \in DOMAIN decided[t] /\ Stands(t, first + 1)
                BY <2>5, <3>2, <3>6
            <4>2. decided[t][first + 1].node = n
                BY <2>5, <3>1, <3>3, <4>1 DEF Rejoined
            <4> QED BY <3>2, <3>6, <4>1, <4>2
        <3> QED BY <3>4, <3>5, <3>6
    <2> QED BY <2>4, <2>5
<1> QED BY <1>1, TreeInvariance, PTL

\* RepeatsAreAbsorbed: a trajectory like one laid before adds nothing to the tree.
THEOREM Absorbed == TreeSpec => []RepeatsAreAbsorbed
<1>1. ASSUME TreeInv
      PROVE  RepeatsAreAbsorbed
    <2>1. TreeTypeOK /\ RepeatInv
        BY <1>1 DEF TreeInv
    <2> QED BY <2>1, Shape DEF RepeatsAreAbsorbed, RepeatInv, Leads
<1> QED BY <1>1, TreeInvariance, PTL

----------------------------------------------------------------------------
USE ConstantsAssumption

\* What each update of a lease keeps and what it changes.
LEMMA LeaseUpdates ==
  ASSUME NEW l \in Leases, NEW gone \in BOOLEAN
  PROVE  /\ /\ Revoked(l) \in Leases /\ Revoked(l).rev = l.rev + 1
            /\ Revoked(l).state # "active"
            /\ Revoked(l).state = "committed" <=> l.state = "committed"
            /\ Revoked(l).pid = l.pid /\ Revoked(l).exited = l.exited
         /\ /\ Stopped(l, gone) \in Leases /\ Stopped(l, gone).rev = l.rev + 1
            /\ Stopped(l, gone).state = l.state
            /\ Stopped(l, gone).pid = l.pid /\ Stopped(l, gone).exited = gone
         /\ /\ Registered(l) \in Leases /\ Registered(l).rev = l.rev + 1
            /\ Registered(l).state = l.state
            /\ Registered(l).pid /\ Registered(l).exited = l.exited
         /\ /\ Committed(l) \in Leases /\ Committed(l).rev = l.rev + 1
            /\ Committed(l).state = "committed"
            /\ Committed(l).pid = l.pid /\ Committed(l).exited = l.exited
<1>1. l.rev + 1 \in Nat
  BY DEF Leases
<1>2. Revoked(l) \in Leases /\ Revoked(l).rev = l.rev + 1
  BY <1>1 DEF Leases, Revoked
<1>3. /\ Revoked(l).state # "active"
      /\ Revoked(l).state = "committed" <=> l.state = "committed"
      /\ Revoked(l).pid = l.pid /\ Revoked(l).exited = l.exited
  BY DEF Leases, Revoked
<1>4. /\ Stopped(l, gone) \in Leases /\ Stopped(l, gone).rev = l.rev + 1
      /\ Stopped(l, gone).state = l.state
      /\ Stopped(l, gone).pid = l.pid /\ Stopped(l, gone).exited = gone
  BY <1>1 DEF Leases, Stopped
<1>5. /\ Registered(l) \in Leases /\ Registered(l).rev = l.rev + 1
      /\ Registered(l).state = l.state
      /\ Registered(l).pid /\ Registered(l).exited = l.exited
  BY <1>1 DEF Leases, Registered
<1>6. /\ Committed(l) \in Leases /\ Committed(l).rev = l.rev + 1
      /\ Committed(l).state = "committed"
      /\ Committed(l).pid = l.pid /\ Committed(l).exited = l.exited
  BY <1>1 DEF Leases, Committed
<1> QED
  BY <1>2, <1>3, <1>4, <1>5, <1>6

\* The state before the first job.
LEMMA InitInv == Init => IInv
<1> SUFFICES ASSUME Init PROVE IInv
  OBVIOUS
<1>1. TypeOK
  BY DEF Init, TypeOK, Leases, NoLease, Resting, Ended, Alive
<1>2. OneWorker /\ SupInv /\ LeaseInv /\ CommitInv
  BY DEF Init, OneWorker, SupInv, LeaseInv, CommitInv, NoLease, Resting, Working, Alive
<1>3. CommitDecides /\ EndInv
  BY DEF Init, CommitDecides, EndInv, NoLease, Resting, Ended
<1> QED
  BY <1>1, <1>2, <1>3 DEF IInv

\* A step that lets no worker past its gate, activates no lease and calls no
\* live process exited.
LEMMA Quiet ==
  ASSUME IInv,
         \A k \in Jobs :
           /\ worker'[k] \in Working => worker[k] \in Working /\ (lease[k].pid => lease'[k].pid)
           /\ worker'[k] \in Alive => worker[k] \in Alive
           /\ lease'[k].exited => \/ lease[k].exited
                                  \/ worker'[k] \notin Alive
                                  \/ lease'[k].state # "active" /\ worker'[k] \notin Working
           /\ lease'[k].state = "active" => /\ lease[k].state = "active" /\ phase' # "jobs"
                                            /\ phase' = "leases" => boot'[k] = "todo"
  PROVE  OneWorker' /\ LeaseInv'
<1>1. Working \subseteq Alive
  BY DEF Working
<1>2. OneWorker'
  BY <1>1 DEF OneWorker, IInv
<1>3. LeaseInv'
  BY <1>1 DEF LeaseInv, IInv
<1> QED
  BY <1>2, <1>3

\* Every update of a lease takes a new revision, so no commit goes on unseen.
LEMMA QuietCommit ==
  ASSUME IInv, TypeOK', seen' = seen,
         \A k \in Jobs : /\ worker'[k] = "commit" => worker[k] = "commit"
                         /\ lease'[k] = lease[k] \/ lease'[k].rev = lease[k].rev + 1
  PROVE  CommitInv'
<1> SUFFICES ASSUME NEW k \in Jobs, worker'[k] = "commit"
             PROVE  /\ seen'[k] <= lease'[k].rev
                    /\ seen'[k] = lease'[k].rev => lease'[k].state = "active"
  BY DEF CommitInv
<1>1. seen[k] \in Nat /\ lease[k].rev \in Nat
  BY DEF IInv, TypeOK, Leases
<1>2. seen[k] <= lease[k].rev /\ (seen[k] = lease[k].rev => lease[k].state = "active")
  BY DEF IInv, CommitInv
<1> QED
  BY <1>1, <1>2

\* A lease that is active is that of a job that has not ended, so it may be
\* decided either way.
LEMMA QuietEnd ==
  ASSUME IInv, job' = job,
         \A k \in Jobs : \/ lease'[k].state = lease[k].state
                         \/ lease[k].state = "active" /\ lease'[k].state \in {"revoked", "committed"}
  PROVE  /\ CommitDecides'
         /\ \A k \in Jobs : /\ job'[k] \in {"new", "queued"} => lease'[k].state = "none"
                            /\ job'[k] \in Ended => lease'[k].state # "active"
<1>1. \A k \in Jobs : /\ job[k] \in {"new", "queued"} => lease[k].state = "none"
                      /\ job[k] \in Ended => lease[k].state # "active"
  BY DEF IInv, EndInv
<1>2. CommitDecides'
  BY <1>1 DEF IInv, CommitDecides, Ended
<1> QED
  BY <1>1, <1>2

\* A worker past its gate, or one that ends.
LEMMA WorkerMoves ==
  ASSUME IInv, TypeOK', NEW j \in Jobs, NEW to \in Working \cup {"dead"},
         UNCHANGED service, UNCHANGED job,
         worker[j] \in Alive, to \in Working => worker[j] \in Working,
         worker' = [worker EXCEPT ![j] = to],
         \/ lease' = lease
         \/ lease[j].state = "active" /\ lease' = [lease EXCEPT ![j] = Committed(@)]
  PROVE  OneWorker' /\ LeaseInv' /\ SupInv' /\ CommitDecides' /\ EndInv'
<1>1. UNCHANGED <<life, phase, boot, sup, stuck>>
  BY DEF service
<1>2. ASSUME NEW k \in Jobs
      PROVE  /\ worker'[k] \in Working => worker[k] \in Working
             /\ worker'[k] \in Alive => worker[k] \in Alive
             /\ worker[k] \in {"none", "dead"} => worker'[k] = worker[k]
  <2>1. CASE k = j
    BY <2>1 DEF IInv, TypeOK, Working, Alive
  <2>2. CASE k # j
    BY <2>2 DEF IInv, TypeOK
  <2> QED
    BY <2>1, <2>2
<1>3. ASSUME NEW k \in Jobs
      PROVE  /\ lease'[k].pid = lease[k].pid
             /\ lease'[k].exited = lease[k].exited
             /\ \/ lease'[k].state = lease[k].state
                \/ lease[k].state = "active" /\ lease'[k].state \in {"revoked", "committed"}
  <2>1. lease[j] \in Leases
    BY DEF IInv, TypeOK
  <2>2. CASE k = j
    BY <2>1, <2>2, LeaseUpdates DEF IInv, TypeOK
  <2>3. CASE k # j
    BY <2>3 DEF IInv, TypeOK
  <2> QED
    BY <2>2, <2>3
<1>4. \A k \in Jobs : lease[k].state = "active" =>
                        phase # "jobs" /\ (phase = "leases" => boot[k] = "todo")
  BY DEF IInv, LeaseInv
<1>5. OneWorker' /\ LeaseInv'
  BY <1>1, <1>2, <1>3, <1>4, Quiet
<1>6. SupInv'
  BY <1>1, <1>2, <1>3 DEF IInv, SupInv
<1>7. /\ CommitDecides'
      /\ \A k \in Jobs : /\ job'[k] \in {"new", "queued"} => lease'[k].state = "none"
                         /\ job'[k] \in Ended => lease'[k].state # "active"
  BY <1>3, QuietEnd
<1>8. EndInv'
  <2>1. sup.step # "idle" => sup.job \in Jobs
    BY DEF IInv, SupInv
  <2> QED
    BY <1>1, <1>3, <1>7, <2>1 DEF IInv, EndInv
<1> QED
  BY <1>5, <1>6, <1>7, <1>8

\* Every step of a worker keeps the invariant.
LEMMA WorkerStepInv ==
  ASSUME IInv, NEW j \in Jobs, WorkerStep(j)
  PROVE  IInv'
<1>. lease[j] \in Leases /\ lease[j].rev \in Nat /\ TypeOK
  BY DEF IInv, TypeOK, Leases
<1>1. CASE Accept(j)
  <2>1. UNCHANGED <<service, job, lease, seen>> /\ worker' = [worker EXCEPT ![j] = "run"]
    BY <1>1 DEF Accept, Work
  <2>2. TypeOK'
    BY <1>1, <2>1 DEF Accept, Work, TypeOK, Alive, service
  <2>3. worker[j] = "gate" /\ lease[j].state = "active" /\ lease[j].pid /\ ~lease[j].exited
    BY <1>1 DEF Accept, Work, Valid, IInv, LeaseInv, Alive
  <2>4. OneWorker'
    BY <2>1, <2>3 DEF IInv, OneWorker, LeaseInv, TypeOK, Working, Alive
  <2>5. LeaseInv'
    <3>1. \A k \in Jobs : /\ worker'[k] \in Alive => worker[k] \in Alive
                          /\ k # j => worker'[k] = worker[k]
      BY <2>1, <2>3 DEF TypeOK, Alive
    <3>2. \A k \in Jobs : lease[k].state = "active" => k = j
      BY <2>3 DEF IInv, LeaseInv
    <3> QED
      BY <2>1, <3>1, <3>2 DEF IInv, LeaseInv, service
  <2>6. SupInv'
    BY <2>1, <2>3 DEF IInv, SupInv, TypeOK, service
  <2>7. CommitInv'
    BY <2>1, <2>2 DEF IInv, CommitInv, TypeOK
  <2>8. CommitDecides' /\ EndInv'
    BY <2>1 DEF IInv, CommitDecides, EndInv, service
  <2> QED
    BY <2>2, <2>4, <2>5, <2>6, <2>7, <2>8 DEF IInv
<1>2. CASE BeginWrite(j) \/ EndWrite(j) \/ BeginCommit(j)
  <2>1. TypeOK'
    <3>1. CASE BeginWrite(j)
      BY <3>1 DEF BeginWrite, Work, TypeOK, Alive, service
    <3>2. CASE EndWrite(j)
      BY <3>2 DEF EndWrite, Work, TypeOK, Alive, service
    <3>3. CASE BeginCommit(j)
      BY <3>3 DEF BeginCommit, Work, TypeOK, Alive, service
    <3> QED
      BY <1>2, <3>1, <3>2, <3>3
  <2>2. OneWorker' /\ LeaseInv' /\ SupInv' /\ CommitDecides' /\ EndInv'
    <3>1. PICK to \in Working : worker' = [worker EXCEPT ![j] = to]
      BY <1>2 DEF BeginWrite, EndWrite, BeginCommit, Work, Working, Alive
    <3>2. worker[j] \in Working /\ worker[j] \in Alive
      BY <1>2 DEF BeginWrite, EndWrite, BeginCommit, Work, Working, Alive
    <3>3. UNCHANGED service /\ UNCHANGED job /\ lease' = lease
      BY <1>2 DEF BeginWrite, EndWrite, BeginCommit, Work
    <3> QED
      BY <2>1, <3>1, <3>2, <3>3, WorkerMoves
  <2>3. CommitInv'
    <3>1. CASE BeginWrite(j) \/ EndWrite(j)
      BY <3>1 DEF BeginWrite, EndWrite, Work, IInv, CommitInv, TypeOK
    <3>2. CASE BeginCommit(j)
      BY <3>2 DEF BeginCommit, Work, Valid, IInv, CommitInv, TypeOK
    <3> QED
      BY <1>2, <3>1, <3>2
  <2> QED
    BY <2>1, <2>2, <2>3 DEF IInv
<1>3. CASE Commit(j)
  <2>1. /\ lease' = [lease EXCEPT ![j] = Committed(lease[j])]
        /\ worker' = [worker EXCEPT ![j] = "drain"] /\ worker[j] = "commit"
        /\ UNCHANGED <<service, job, go, seen, lock, wrote>> /\ result' = j
    BY <1>3 DEF Commit
  <2>2. Committed(lease[j]) \in Leases /\ Committed(lease[j]).rev = lease[j].rev + 1
    BY LeaseUpdates
  <2>3. TypeOK'
    <3>1. lease' \in [Jobs -> Leases]
      BY <2>1, <2>2 DEF TypeOK
    <3>2. worker' \in [Jobs -> Alive \cup {"none", "dead"}]
      BY <2>1 DEF TypeOK, Alive
    <3> QED
      BY <2>1, <3>1, <3>2 DEF TypeOK, service
  <2>4. lease[j].state = "active"
    BY <1>3, <2>1 DEF Commit, IInv, CommitInv
  <2>5. OneWorker' /\ LeaseInv' /\ SupInv' /\ CommitDecides' /\ EndInv'
    BY <2>1, <2>3, <2>4, WorkerMoves DEF Working, Alive
  <2>6. CommitInv'
    <3>1. \A k \in Jobs : worker'[k] = "commit" => worker[k] = "commit"
      BY <2>1 DEF TypeOK
    <3>2. \A k \in Jobs : lease'[k] = lease[k] \/ lease'[k].rev = lease[k].rev + 1
      BY <2>1, <2>2 DEF TypeOK
    <3> QED
      BY <2>1, <2>3, <3>1, <3>2, QuietCommit
  <2> QED
    BY <2>3, <2>5, <2>6 DEF IInv
<1>4. CASE Exit(j)
  <2>1. /\ worker[j] \in Alive /\ worker' = [worker EXCEPT ![j] = "dead"]
        /\ UNCHANGED <<service, job, lease, go, seen, result, wrote>>
        /\ lock' \in {lock, None}
    BY <1>4 DEF Exit, Dead
  <2>2. TypeOK'
    BY <2>1 DEF TypeOK, Alive, service
  <2>3. OneWorker' /\ LeaseInv' /\ SupInv' /\ CommitDecides' /\ EndInv'
    BY <2>1, <2>2, WorkerMoves DEF Working, Alive
  <2>4. CommitInv'
    BY <2>1, <2>2 DEF IInv, CommitInv, TypeOK
  <2> QED
    BY <2>2, <2>3, <2>4 DEF IInv
<1> QED
  BY <1>1, <1>2, <1>3, <1>4 DEF WorkerStep

\* The supervisor goes on to its next step, with one update of the lease at most.
LEMMA SupervisorMoves ==
  ASSUME IInv, sup.step # "idle", NEW to, NEW l \in Leases,
         to \in {"go", "watch", "stop", "record", "settle", "finish"},
         sup' = [sup EXCEPT !.step = to],
         UNCHANGED <<life, phase, boot, stuck, job, worked>>,
         lease' = [lease EXCEPT ![sup.job] = l],
         l = lease[sup.job] \/ l.rev = lease[sup.job].rev + 1,
         \/ l.state = lease[sup.job].state
         \/ lease[sup.job].state = "active" /\ l.state = "revoked",
         lease[sup.job].pid => l.pid,
         l.exited => lease[sup.job].exited \/ worker[sup.job] \in {"none", "dead"},
         to = "record" /\ sup.gone => worker[sup.job] \in {"none", "dead"},
         ~sup.gone => to \in {"record", "finish"},
         to \in {"stop", "finish"} \/ (to = "record" /\ ~sup.gone) => l.state # "active"
  PROVE  IInv'
<1>1. /\ phase = "up" /\ sup.job \in Jobs /\ job[sup.job] = "running" /\ lease[sup.job] \in Leases
      /\ TypeOK
  BY DEF IInv, SupInv, TypeOK
<1>2. UNCHANGED <<worker, go, seen, lock, result, wrote>>
  BY DEF worked
<1>3. /\ sup'.step = to /\ sup'.job = sup.job /\ sup'.gone = sup.gone
  BY <1>1 DEF TypeOK
<1>4. TypeOK'
  <2>1. lease' \in [Jobs -> Leases]
    BY <1>1 DEF TypeOK
  <2>2. sup' \in [job: Jobs \cup {None}, gone: BOOLEAN,
                  step: {"idle", "start", "spawn", "register", "go", "watch", "stop",
                         "record", "settle", "finish"}]
    BY <1>1 DEF TypeOK
  <2> QED
    BY <1>1, <1>2, <2>1, <2>2 DEF TypeOK
<1>5. ASSUME NEW k \in Jobs
      PROVE  /\ lease[k].pid => lease'[k].pid
             /\ lease'[k].exited => lease[k].exited \/ worker[k] \in {"none", "dead"}
             /\ lease'[k] = lease[k] \/ lease'[k].rev = lease[k].rev + 1
             /\ \/ lease'[k].state = lease[k].state
                \/ lease[k].state = "active" /\ lease'[k].state \in {"revoked", "committed"}
             /\ k # sup.job => lease'[k] = lease[k]
             /\ k = sup.job => lease'[k] = l
  <2>1. CASE k = sup.job
    BY <1>1, <2>1 DEF TypeOK
  <2>2. CASE k # sup.job
    BY <1>1, <2>2 DEF TypeOK
  <2> QED
    BY <2>1, <2>2
<1>6. OneWorker' /\ LeaseInv'
  <2>1. \A k \in Jobs : worker[k] \in {"none", "dead"} => worker[k] \notin Alive
    BY DEF Alive
  <2> QED
    BY <1>1, <1>2, <1>5, <2>1, Quiet
<1>7. SupInv'
  BY <1>1, <1>2, <1>3 DEF IInv, SupInv
<1>8. CommitInv'
  BY <1>2, <1>4, <1>5, QuietCommit
<1>9. CommitDecides' /\ EndInv'
  <2>1. /\ CommitDecides'
        /\ \A k \in Jobs : /\ job'[k] \in {"new", "queued"} => lease'[k].state = "none"
                           /\ job'[k] \in Ended => lease'[k].state # "active"
    BY <1>5, QuietEnd
  <2> QED
    BY <1>1, <1>3, <1>5, <2>1 DEF EndInv
<1> QED
  BY <1>4, <1>6, <1>7, <1>8, <1>9 DEF IInv

\* The steps of the supervisor that only go on.
LEMMA GoesOnInv ==
  ASSUME IInv, SpawnFails \/ Register \/ SeeExit \/ GiveUp \/ Record \/ Settle
  PROVE  IInv'
<1>. DEFINE j == sup.job
<1>1. CASE sup.step = "idle"
  BY <1>1 DEF SpawnFails, Register, SeeExit, GiveUp, Record, Settle, At
<1>2. CASE sup.step # "idle"
  <2>1. /\ phase = "up" /\ j \in Jobs /\ lease[j] \in Leases /\ TypeOK /\ sup.gone \in BOOLEAN
    BY <1>2 DEF IInv, SupInv, TypeOK
  <2>2. lease = [lease EXCEPT ![j] = lease[j]]
    BY <2>1 DEF TypeOK
  <2>3. CASE SpawnFails
    <3>1. sup.step = "spawn" /\ sup.gone /\ worker[j] = "none"
      BY <2>3 DEF SpawnFails, At, IInv, SupInv
    <3>2. lease' = [lease EXCEPT ![j] = Revoked(lease[j])] /\ sup' = [sup EXCEPT !.step = "record"]
      BY <2>3 DEF SpawnFails, Step
    <3>3. UNCHANGED <<life, phase, boot, stuck, job, worked>>
      BY <2>3 DEF SpawnFails, Step
    <3>4. Revoked(lease[j]).state # "active" /\ Revoked(lease[j]) \in Leases
      BY <2>1, LeaseUpdates
    <3>5. \/ Revoked(lease[j]).state = lease[j].state
          \/ lease[j].state = "active" /\ Revoked(lease[j]).state = "revoked"
      BY <2>1 DEF Revoked, Leases
    <3>6. /\ Revoked(lease[j]).pid = lease[j].pid /\ Revoked(lease[j]) \in Leases
          /\ Revoked(lease[j]).exited = lease[j].exited
          /\ Revoked(lease[j]).rev = lease[j].rev + 1
      BY <2>1, LeaseUpdates
    <3> QED
      BY <1>2, <2>1, <3>1, <3>2, <3>3, <3>4, <3>5, <3>6, SupervisorMoves
  <2>4. CASE Register
    <3>1. sup.step = "register" /\ sup.gone
      BY <2>4 DEF Register, At, IInv, SupInv
    <3>2. lease' = [lease EXCEPT ![j] = Registered(lease[j])] /\ sup' = [sup EXCEPT !.step = "go"]
      BY <2>4 DEF Register, Step
    <3>3. UNCHANGED <<life, phase, boot, stuck, job, worked>>
      BY <2>4 DEF Register, Step
    <3>4. /\ Registered(lease[j]).state = lease[j].state /\ Registered(lease[j]).pid
          /\ Registered(lease[j]) \in Leases /\ Registered(lease[j]).exited = lease[j].exited
          /\ Registered(lease[j]).rev = lease[j].rev + 1
      BY <2>1, LeaseUpdates
    <3> QED
      BY <1>2, <2>1, <3>1, <3>2, <3>3, <3>4, SupervisorMoves
  <2>5. CASE SeeExit
    <3>1. sup.step = "watch" /\ sup.gone /\ worker[j] = "dead"
      BY <2>5 DEF SeeExit, At, IInv, SupInv
    <3>2. lease' = [lease EXCEPT ![j] = lease[j]] /\ sup' = [sup EXCEPT !.step = "record"]
      BY <2>2, <2>5 DEF SeeExit, Step
    <3>3. UNCHANGED <<life, phase, boot, stuck, job, worked>>
      BY <2>5 DEF SeeExit, Step
    <3> QED
      BY <1>2, <2>1, <3>1, <3>2, <3>3, SupervisorMoves
  <2>6. CASE GiveUp
    <3>1. sup.step \in {"go", "watch"} /\ sup.gone
      BY <2>6 DEF GiveUp, IInv, SupInv
    <3>2. lease' = [lease EXCEPT ![j] = Revoked(lease[j])] /\ sup' = [sup EXCEPT !.step = "stop"]
      BY <2>6 DEF GiveUp, Step
    <3>3. UNCHANGED <<life, phase, boot, stuck, job, worked>>
      BY <2>6 DEF GiveUp, Step
    <3>4. Revoked(lease[j]).state # "active"
      BY <2>1, LeaseUpdates
    <3>5. \/ Revoked(lease[j]).state = lease[j].state
          \/ lease[j].state = "active" /\ Revoked(lease[j]).state = "revoked"
      BY <2>1 DEF Revoked, Leases
    <3>6. /\ Revoked(lease[j]).pid = lease[j].pid /\ Revoked(lease[j]) \in Leases
          /\ Revoked(lease[j]).exited = lease[j].exited
          /\ Revoked(lease[j]).rev = lease[j].rev + 1
      BY <2>1, LeaseUpdates
    <3> QED
      BY <1>2, <2>1, <3>1, <3>2, <3>3, <3>4, <3>5, <3>6, SupervisorMoves
  <2>7. CASE Record
    <3>. DEFINE to == IF sup.gone THEN "settle" ELSE "finish"
    <3>1. sup.step = "record"
      BY <2>7 DEF Record, At
    <3>2. /\ lease' = [lease EXCEPT ![j] = Stopped(lease[j], sup.gone)]
          /\ sup' = [sup EXCEPT !.step = to]
      BY <2>7 DEF Record, Step
    <3>3. UNCHANGED <<life, phase, boot, stuck, job, worked>>
      BY <2>7 DEF Record, Step
    <3>4. /\ Stopped(lease[j], sup.gone).state = lease[j].state
          /\ Stopped(lease[j], sup.gone).exited = sup.gone
          /\ Stopped(lease[j], sup.gone).pid = lease[j].pid
          /\ Stopped(lease[j], sup.gone).rev = lease[j].rev + 1
          /\ Stopped(lease[j], sup.gone) \in Leases
      BY <2>1, LeaseUpdates
    <3>5. sup.gone => worker[j] \in {"none", "dead"}
      BY <3>1 DEF IInv, SupInv
    <3>6. ~sup.gone => lease[j].state # "active"
      BY <3>1 DEF IInv, EndInv
    <3>7. /\ to \in {"settle", "finish"} /\ (~sup.gone => to = "finish")
          /\ to = "finish" => ~sup.gone
      OBVIOUS
    <3>. HIDE DEF to
    <3> QED
      BY <1>2, <2>1, <3>2, <3>3, <3>4, <3>5, <3>6, <3>7, SupervisorMoves
  <2>8. CASE Settle
    <3>. DEFINE l == IF lease[j].state = "committed" THEN lease[j] ELSE Revoked(lease[j])
    <3>1. sup.step = "settle" /\ sup.gone
      BY <2>8 DEF Settle, At, IInv, SupInv
    <3>2. lease' = [lease EXCEPT ![j] = l] /\ sup' = [sup EXCEPT !.step = "finish"]
      BY <2>2, <2>8 DEF Settle, Step
    <3>3. UNCHANGED <<life, phase, boot, stuck, job, worked>>
      BY <2>8 DEF Settle, Step
    <3>4. /\ l \in Leases /\ l.state # "active" /\ (l = lease[j] \/ l.rev = lease[j].rev + 1)
          /\ l.pid = lease[j].pid /\ l.exited = lease[j].exited
      BY <2>1, LeaseUpdates
    <3>5. \/ l.state = lease[j].state
          \/ lease[j].state = "active" /\ l.state = "revoked"
      BY <2>1 DEF Revoked, Leases
    <3>. HIDE DEF l
    <3> QED
      BY <1>2, <2>1, <3>1, <3>2, <3>3, <3>4, <3>5, SupervisorMoves
  <2> QED
    BY <2>3, <2>4, <2>5, <2>6, <2>7, <2>8
<1> QED
  BY <1>1, <1>2

\* The steps of the supervisor that start a worker or end it, or a job.
LEMMA StartExecutionInv ==
  ASSUME IInv, StartExecution
  PROVE  IInv'
<1>. DEFINE j == sup.job
            l == Started(lease[j])
<1>1. /\ sup.step = "start" /\ ~Blocked /\ lease' = [lease EXCEPT ![j] = l]
      /\ sup' = [sup EXCEPT !.step = "spawn"]
      /\ UNCHANGED <<life, phase, boot, stuck, job, worked>>
  BY DEF StartExecution, At, Step
<1>2. /\ phase = "up" /\ j \in Jobs /\ job[j] = "running" /\ worker[j] = "none" /\ sup.gone
      /\ lease[j].state = "none" /\ TypeOK
  BY <1>1 DEF IInv, SupInv, EndInv
<1>3. /\ l \in Leases /\ l.rev = lease[j].rev + 1 /\ l.state = "active" /\ ~l.exited
  <2>1. lease[j].rev + 1 \in Nat /\ life \in Nat
    BY <1>2 DEF TypeOK, Leases
  <2> QED
    BY <2>1 DEF Leases, Started
<1>4. UNCHANGED <<worker, go, seen, lock, result, wrote>>
  BY <1>1 DEF worked
<1>. HIDE DEF l
<1>5. TypeOK'
  BY <1>1, <1>2, <1>3, <1>4 DEF TypeOK
<1>6. \A k \in Jobs : worker[k] \notin Working /\ lease[k].state # "active"
  BY <1>1 DEF Blocked, IInv, OneWorker
<1>7. \A k \in Jobs : /\ k # j => lease'[k] = lease[k]
                      /\ k = j => lease'[k] = l
  BY <1>1, <1>2 DEF TypeOK
<1>8. /\ sup'.step = "spawn" /\ sup'.job = j /\ sup'.gone
  BY <1>1, <1>2 DEF TypeOK
<1>9. OneWorker' /\ LeaseInv'
  BY <1>1, <1>2, <1>3, <1>4, <1>6, <1>7 DEF IInv, OneWorker, LeaseInv
<1>10. SupInv'
  BY <1>1, <1>2, <1>3, <1>4, <1>7, <1>8 DEF IInv, SupInv
<1>11. CommitInv'
  BY <1>3, <1>4, <1>5, <1>7, QuietCommit
<1>12. CommitDecides' /\ EndInv'
  BY <1>1, <1>2, <1>3, <1>7, <1>8 DEF IInv, CommitDecides, EndInv, Ended
<1> QED
  BY <1>5, <1>9, <1>10, <1>11, <1>12 DEF IInv

LEMMA SpawnInv ==
  ASSUME IInv, Spawn
  PROVE  IInv'
<1>. DEFINE j == sup.job
<1>1. /\ sup.step = "spawn" /\ worker' = [worker EXCEPT ![j] = "gate"]
      /\ sup' = [sup EXCEPT !.step = "register"]
      /\ UNCHANGED <<life, phase, boot, stuck, job, lease, go, seen, lock, result, wrote>>
  BY DEF Spawn, At, Step
<1>2. /\ phase = "up" /\ j \in Jobs /\ job[j] = "running" /\ sup.gone /\ ~lease[j].exited /\ TypeOK
  BY <1>1 DEF IInv, SupInv
<1>3. TypeOK'
  BY <1>1, <1>2 DEF TypeOK, Alive
<1>4. \A k \in Jobs : /\ worker'[k] \in Working => worker[k] \in Working
                      /\ k # j => worker'[k] = worker[k]
                      /\ worker'[k] = "commit" => worker[k] = "commit"
  BY <1>1, <1>2 DEF TypeOK, Working
<1>5. sup'.step = "register" /\ sup'.job = j /\ sup'.gone
  BY <1>1, <1>2 DEF TypeOK
<1>6. OneWorker'
  BY <1>1, <1>4 DEF IInv, OneWorker
<1>7. LeaseInv'
  BY <1>1, <1>2, <1>4 DEF IInv, LeaseInv
<1>8. SupInv'
  BY <1>1, <1>2, <1>4, <1>5 DEF IInv, SupInv
<1>9. CommitInv'
  BY <1>1, <1>4 DEF IInv, CommitInv
<1>10. CommitDecides' /\ EndInv'
  BY <1>1, <1>5 DEF IInv, CommitDecides, EndInv
<1> QED
  BY <1>3, <1>6, <1>7, <1>8, <1>9, <1>10 DEF IInv

LEMMA StopInv ==
  ASSUME IInv, Stop
  PROVE  IInv'
<1>. DEFINE j == sup.job
<1>1. /\ sup.step = "stop"
      /\ UNCHANGED <<life, phase, boot, job, lease, go, seen, result, wrote>>
  BY DEF Stop, At
<1>2. /\ phase = "up" /\ j \in Jobs /\ job[j] = "running" /\ sup.gone
      /\ lease[j].state # "active" /\ TypeOK
  BY <1>1 DEF IInv, SupInv, EndInv
<1>3. \/ /\ worker' = [worker EXCEPT ![j] = "dead"] /\ lock' \in {lock, None}
         /\ sup' = [sup EXCEPT !.step = "record"] /\ stuck' = stuck
      \/ /\ worker' = worker /\ lock' = lock /\ stuck' = stuck + 1
         /\ sup' = [sup EXCEPT !.step = "record", !.gone = FALSE]
  BY DEF Stop, Dead
<1>4. TypeOK'
  <2>1. worker' \in [Jobs -> Alive \cup {"none", "dead"}] /\ stuck' \in Nat
    BY <1>2, <1>3 DEF TypeOK
  <2>2. sup' \in [job: Jobs \cup {None}, gone: BOOLEAN,
                  step: {"idle", "start", "spawn", "register", "go", "watch", "stop",
                         "record", "settle", "finish"}]
    BY <1>2, <1>3 DEF TypeOK
  <2> QED
    BY <1>1, <1>2, <1>3, <2>1, <2>2 DEF TypeOK
<1>5. /\ sup'.step = "record" /\ sup'.job = j
      /\ sup'.gone => worker'[j] = "dead"
  BY <1>2, <1>3 DEF TypeOK
<1>6. \A k \in Jobs : /\ worker'[k] = worker[k] \/ worker'[k] = "dead"
                      /\ k # j => worker'[k] = worker[k]
  BY <1>2, <1>3 DEF TypeOK
<1>7. OneWorker' /\ LeaseInv'
  <2>1. "dead" \notin Working /\ "dead" \notin Alive
    BY DEF Working, Alive
  <2>2. \A k \in Jobs : lease[k].state = "active" =>
                          phase # "jobs" /\ (phase = "leases" => boot[k] = "todo")
    BY DEF IInv, LeaseInv
  <2> QED
    BY <1>1, <1>6, <2>1, <2>2, Quiet
<1>8. SupInv'
  BY <1>1, <1>2, <1>5, <1>6 DEF IInv, SupInv
<1>9. CommitInv'
  BY <1>1, <1>6 DEF IInv, CommitInv
<1>10. CommitDecides' /\ EndInv'
  BY <1>1, <1>2, <1>5 DEF IInv, CommitDecides, EndInv
<1> QED
  BY <1>4, <1>7, <1>8, <1>9, <1>10 DEF IInv

\* A job gets another status, and the lease stays as it is.
LEMMA JobMoves ==
  ASSUME IInv, TypeOK', NEW j \in Jobs, NEW to,
         UNCHANGED <<life, phase, boot, stuck, lease, worked>>,
         job' = [job EXCEPT ![j] = to],
         sup' = sup \/ (sup'.step = "idle" /\ sup'.gone)
                    \/ (sup'.step = "start" /\ sup'.job = j /\ sup'.gone),
         sup' = sup /\ sup.step # "idle" => j # sup.job,
         sup'.step = "start" /\ sup' # sup =>
           to = "running" /\ phase = "up" /\ worker[j] = "none" /\ lease[j].state = "none",
         to \in {"new", "queued"} => worker[j] = "none" /\ lease[j].state = "none",
         to \in Ended => lease[j].state # "active",
         to = "succeeded" => lease[j].state = "committed",
         to \in {"failed", "interrupted"} => lease[j].state # "committed"
  PROVE  IInv'
<1>1. UNCHANGED <<worker, go, seen, lock, result, wrote>> /\ TypeOK
  BY DEF worked, IInv
<1>2. \A k \in Jobs : /\ k # j => job'[k] = job[k]
                      /\ k = j => job'[k] = to
  BY <1>1 DEF TypeOK
<1>3. OneWorker' /\ LeaseInv' /\ CommitInv'
  BY <1>1 DEF IInv, OneWorker, LeaseInv, CommitInv
<1>4. CommitDecides'
  BY <1>2 DEF IInv, CommitDecides
<1>5. CASE sup' = sup
  <2>1. SupInv'
    BY <1>1, <1>2, <1>5 DEF IInv, SupInv
  <2>2. EndInv'
    BY <1>2, <1>5 DEF IInv, EndInv
  <2> QED
    BY <1>3, <1>4, <2>1, <2>2 DEF IInv
<1>6. CASE sup' # sup
  <2>1. SupInv'
    BY <1>1, <1>2, <1>6 DEF IInv, SupInv
  <2>2. EndInv'
    BY <1>2, <1>6 DEF IInv, EndInv
  <2> QED
    BY <1>3, <1>4, <2>1, <2>2 DEF IInv
<1> QED
  BY <1>5, <1>6

LEMMA JobsInv ==
  ASSUME IInv, NEW j \in Jobs, Submit(j) \/ Take(j) \/ StartRefused \/ Finish \/ BootJob(j)
  PROVE  IInv'
<1>0. TypeOK /\ None \notin Jobs
  BY DEF IInv
<1>1. CASE Submit(j)
  <2>1. /\ job[j] = "new" /\ job' = [job EXCEPT ![j] = "queued"] /\ sup' = sup
        /\ UNCHANGED <<life, phase, boot, stuck, lease, worked>>
    BY <1>1 DEF Submit, service
  <2>2. worker[j] = "none" /\ lease[j].state = "none" /\ (sup.step # "idle" => j # sup.job)
    BY <2>1 DEF IInv, SupInv, EndInv
  <2>3. TypeOK'
    BY <1>0, <2>1 DEF TypeOK, worked
  <2> QED
    BY <2>1, <2>2, <2>3, JobMoves DEF Ended
<1>2. CASE Take(j)
  <2>1. /\ phase = "up" /\ sup.step = "idle" /\ job[j] = "queued"
        /\ job' = [job EXCEPT ![j] = "running"]
        /\ sup' = [job |-> j, step |-> "start", gone |-> TRUE]
        /\ UNCHANGED <<life, phase, boot, stuck, lease, worked>>
    BY <1>2 DEF Take
  <2>2. worker[j] = "none" /\ lease[j].state = "none"
    BY <2>1 DEF IInv, SupInv, EndInv
  <2>3. TypeOK'
    BY <1>0, <2>1 DEF TypeOK, worked
  <2> QED
    BY <2>1, <2>2, <2>3, JobMoves DEF Ended
<1>3. CASE StartRefused
  <2>1. /\ sup.step = "start" /\ job' = [job EXCEPT ![sup.job] = "failed"] /\ sup' = Resting
        /\ UNCHANGED <<life, phase, boot, stuck, lease, worked>>
    BY <1>3 DEF StartRefused, At
  <2>2. sup.job \in Jobs /\ lease[sup.job].state = "none"
    BY <2>1 DEF IInv, SupInv, EndInv
  <2>3. TypeOK'
    BY <1>0, <2>1, <2>2 DEF TypeOK, worked, Ended, Resting
  <2>4. sup'.step = "idle" /\ sup'.gone /\ sup' # sup
    BY <2>1 DEF Resting
  <2> QED
    BY <2>1, <2>2, <2>3, <2>4, JobMoves
<1>4. CASE Finish
  <2>. DEFINE to == Outcome(sup.job, sup.gone)
  <2>1. /\ sup.step = "finish" /\ job' = [job EXCEPT ![sup.job] = to] /\ sup' = Resting
        /\ UNCHANGED <<life, phase, boot, stuck, lease, worked>>
    BY <1>4 DEF Finish, At
  <2>2. sup.job \in Jobs /\ lease[sup.job].state # "active"
    BY <2>1 DEF IInv, SupInv, EndInv
  <2>3. /\ to \in {"uncleaned", "succeeded", "failed"}
        /\ to = "succeeded" => lease[sup.job].state = "committed"
        /\ to = "failed" => lease[sup.job].state # "committed"
    BY DEF Outcome
  <2>. HIDE DEF to
  <2>4. TypeOK'
    BY <1>0, <2>1, <2>2, <2>3 DEF TypeOK, worked, Ended, Resting
  <2>5. sup'.step = "idle" /\ sup'.gone /\ sup' # sup
    BY <2>1 DEF Resting
  <2>6. to \notin {"new", "queued", "running", "interrupted"}
    BY <2>3
  <2> QED
    BY <2>1, <2>2, <2>3, <2>4, <2>5, <2>6, JobMoves
<1>5. CASE BootJob(j)
  <2>. DEFINE o == Outcome(j, boot[j] # "left")
              to == IF o = "failed" THEN "interrupted" ELSE o
  <2>1. /\ phase = "jobs" /\ job' = [job EXCEPT ![j] = to] /\ sup' = sup
        /\ UNCHANGED <<life, phase, boot, stuck, lease, worked>>
    BY <1>5 DEF BootJob, service
  <2>2. sup.step = "idle" /\ lease[j].state # "active"
    BY <2>1 DEF IInv, SupInv, LeaseInv
  <2>3. /\ to \in {"uncleaned", "succeeded", "interrupted"}
        /\ to = "succeeded" => lease[j].state = "committed"
        /\ to = "interrupted" => lease[j].state # "committed"
    BY DEF Outcome
  <2>. HIDE DEF to
  <2>4. TypeOK'
    BY <1>0, <2>1, <2>2, <2>3 DEF TypeOK, worked, Ended
  <2>5. to \notin {"new", "queued", "running", "failed"}
    BY <2>3
  <2> QED
    BY <2>1, <2>2, <2>3, <2>4, <2>5, JobMoves
<1> QED
  BY <1>1, <1>2, <1>3, <1>4, <1>5

\* QUALITY_GO, the death of the service, and the passage from one part of the
\* recovery to the next.
LEMMA PhaseInv ==
  ASSUME IInv, Go \/ Crash \/ Restart \/ BootJobs \/ Serve
  PROVE  IInv'
<1>0. /\ TypeOK /\ None \notin Jobs
      /\ \A k \in Jobs : lease[k].state = "active" => phase # "jobs" /\ (phase = "leases" => boot[k] = "todo")
  BY DEF IInv, LeaseInv
<1>1. CASE Go
  <2>1. /\ sup.step = "go" /\ sup' = [sup EXCEPT !.step = "watch"] /\ go' = go \cup {sup.job}
        /\ UNCHANGED <<life, phase, boot, stuck, job, lease, worker, seen, lock, result, wrote>>
    BY <1>1 DEF Go, At, Step
  <2>2. sup.job \in Jobs /\ sup.gone
    BY <2>1 DEF IInv, SupInv
  <2>3. TypeOK'
    BY <1>0, <2>1, <2>2 DEF TypeOK
  <2>4. sup'.step = "watch" /\ sup'.job = sup.job /\ sup'.gone
    BY <1>0, <2>1, <2>2 DEF TypeOK
  <2>5. OneWorker' /\ LeaseInv' /\ CommitInv' /\ CommitDecides'
    BY <2>1 DEF IInv, OneWorker, LeaseInv, CommitInv, CommitDecides
  <2>6. SupInv' /\ EndInv'
    BY <2>1, <2>2, <2>4 DEF IInv, SupInv, EndInv
  <2> QED
    BY <2>3, <2>5, <2>6 DEF IInv
<1>2. CASE Crash \/ Restart \/ BootJobs \/ Serve
  <2>1. /\ UNCHANGED <<job, lease, stuck, worker, go, seen, lock, result, wrote>>
        /\ sup' = sup \/ sup' = Resting
    BY <1>2 DEF Crash, Restart, BootJobs, Serve, worked
  <2>2. TypeOK'
    <3>1. /\ life' = life \/ life' = life + 1
          /\ phase' \in {"up", "down", "leases", "jobs"}
          /\ boot' \in [Jobs -> {"none", "todo", "revoked", "gone", "left"}]
      BY <1>0, <1>2 DEF Crash, Restart, BootJobs, Serve, TypeOK
    <3>2. Resting \in [job: Jobs \cup {None}, gone: BOOLEAN,
                       step: {"idle", "start", "spawn", "register", "go", "watch", "stop",
                              "record", "settle", "finish"}]
      BY DEF Resting
    <3> QED
      BY <1>0, <2>1, <3>1, <3>2 DEF TypeOK
  <2>3. OneWorker' /\ CommitInv' /\ CommitDecides'
    BY <2>1 DEF IInv, OneWorker, CommitInv, CommitDecides
  <2>4. \A k \in Jobs : lease[k].state = "active" =>
                          phase' # "jobs" /\ (phase' = "leases" => boot'[k] = "todo")
    <3>1. CASE Crash \/ Serve
      BY <3>1 DEF Crash, Serve
    <3>2. CASE Restart
      BY <3>2 DEF Restart
    <3>3. CASE BootJobs
      BY <1>0, <3>3 DEF BootJobs
    <3> QED
      BY <1>2, <3>1, <3>2, <3>3
  <2>5. LeaseInv'
    BY <2>1, <2>4 DEF IInv, LeaseInv
  <2>6. SupInv' /\ EndInv'
    <3>1. CASE sup' = Resting
      BY <2>1, <3>1 DEF IInv, SupInv, EndInv, Resting
    <3>2. CASE sup' = sup /\ sup' # Resting
      <4>1. CASE Crash
        BY <3>2, <4>1 DEF Crash
      <4>2. CASE Restart \/ BootJobs \/ Serve
        <5>1. sup.step = "idle"
          BY <4>2 DEF IInv, SupInv, Restart, BootJobs, Serve
        <5> QED
          BY <2>1, <3>2, <5>1 DEF IInv, SupInv, EndInv
      <4> QED
        BY <1>2, <4>1, <4>2
    <3> QED
      BY <2>1, <3>1, <3>2
  <2> QED
    BY <2>2, <2>3, <2>5, <2>6 DEF IInv
<1> QED
  BY <1>1, <1>2

\* What the recovery does to a lease that the service before it left.
LEMMA BootLeaseInv ==
  ASSUME IInv, NEW j \in Jobs, BootRevoke(j) \/ BootStop(j)
  PROVE  IInv'
<1>1. /\ TypeOK /\ lease[j] \in Leases /\ phase = "leases" /\ sup.step = "idle"
  BY DEF IInv, SupInv, TypeOK, BootRevoke, BootStop
<1>2. UNCHANGED <<life, phase, sup, job, go, seen, result, wrote>>
  BY DEF BootRevoke, BootStop, worked
<1>3. /\ \/ worker' = worker
         \/ worker[j] \in Alive /\ worker' = [worker EXCEPT ![j] = "dead"]
      /\ lock' \in {lock, None} /\ stuck' \in {stuck, stuck + 1}
  BY DEF BootRevoke, BootStop, worked, Dead
<1>4. PICK l \in {Revoked(lease[j]), Stopped(lease[j], TRUE), Stopped(lease[j], FALSE)} :
        lease' = [lease EXCEPT ![j] = l]
  BY DEF BootRevoke, BootStop
<1>5. PICK b \in {"revoked", "gone", "left"} : boot' = [boot EXCEPT ![j] = b]
  BY DEF BootRevoke, BootStop
<1>6. \A k \in Jobs : /\ worker'[k] = worker[k] \/ (worker[k] \in Alive /\ worker'[k] = "dead")
                      /\ k # j => lease'[k] = lease[k] /\ boot'[k] = boot[k]
                      /\ k = j => lease'[k] = l /\ boot'[k] = b
  BY <1>1, <1>3, <1>4, <1>5 DEF TypeOK
<1>7. /\ l \in Leases /\ l.rev = lease[j].rev + 1 /\ l.pid = lease[j].pid
      /\ l.state # "active"
      /\ l.state = lease[j].state \/ (lease[j].state = "active" /\ l.state = "revoked")
  <2>1. CASE BootRevoke(j)
    <3>1. l = Revoked(lease[j])
      BY <1>1, <1>4, <1>6, <2>1 DEF BootRevoke, TypeOK
    <3>2. \/ Revoked(lease[j]).state = lease[j].state
          \/ lease[j].state = "active" /\ Revoked(lease[j]).state = "revoked"
      BY <1>1 DEF Revoked, Leases
    <3> QED
      BY <1>1, <3>1, <3>2, LeaseUpdates
  <2>2. CASE BootStop(j)
    <3>1. lease[j].state # "active"
      BY <1>1, <2>2 DEF BootStop, IInv, LeaseInv
    <3>2. \E gone \in BOOLEAN : l = Stopped(lease[j], gone)
      BY <1>1, <1>4, <1>6, <2>2 DEF BootStop, TypeOK
    <3> QED
      BY <1>1, <3>1, <3>2, LeaseUpdates
  <2> QED
    BY <2>1, <2>2
<1>8. l.exited => lease[j].exited \/ worker'[j] \notin Working
  <2>1. CASE BootRevoke(j)
    <3>1. l = Revoked(lease[j])
      BY <1>1, <1>4, <1>6, <2>1 DEF BootRevoke, TypeOK
    <3> QED
      BY <1>1, <3>1, LeaseUpdates
  <2>2. CASE BootStop(j)
    <3>1. worker[j] \in Working => worker[j] \in Alive /\ lease[j].pid /\ ~lease[j].exited
      BY DEF IInv, OneWorker, Working
    <3>2. CASE worker'[j] = "dead"
      BY <3>2 DEF Working, Alive
    <3>3. CASE worker'[j] # "dead"
      <4>1. worker'[j] = worker[j]
        BY <1>6, <3>3
      <4>2. CASE worker[j] \notin Working
        BY <4>1, <4>2
      <4>3. CASE worker[j] \in Working
        <5>1. lease[j].pid /\ ~lease[j].exited /\ worker[j] \in Alive
          BY <3>1, <4>3
        <5>2. ~Dead(j)
          BY <1>1, <3>3 DEF Dead, TypeOK
        <5>3. lease' = [lease EXCEPT ![j] = Stopped(lease[j], FALSE)]
          BY <2>2, <5>1, <5>2 DEF BootStop
        <5>4. l = Stopped(lease[j], FALSE)
          BY <1>1, <1>6, <5>3 DEF TypeOK
        <5> QED
          BY <1>1, <5>4, LeaseUpdates
      <4> QED
        BY <4>2, <4>3
    <3> QED
      BY <3>2, <3>3
  <2> QED
    BY <2>1, <2>2
<1>9. TypeOK'
  <2>1. lease' \in [Jobs -> Leases] /\ boot' \in [Jobs -> {"none", "todo", "revoked", "gone", "left"}]
    BY <1>1, <1>4, <1>5, <1>7 DEF TypeOK
  <2>2. worker' \in [Jobs -> Alive \cup {"none", "dead"}] /\ stuck' \in Nat
    BY <1>1, <1>3 DEF TypeOK
  <2> QED
    BY <1>1, <1>2, <1>3, <2>1, <2>2 DEF TypeOK
<1>10. OneWorker' /\ LeaseInv'
  <2>1. "dead" \notin Working /\ "dead" \notin Alive
    BY DEF Working, Alive
  <2>2. \A k \in Jobs : lease[k].state = "active" => boot[k] = "todo"
    BY <1>1 DEF IInv, LeaseInv
  <2> QED
    BY <1>1, <1>2, <1>6, <1>7, <1>8, <2>1, <2>2, Quiet
<1>11. SupInv'
  BY <1>1, <1>2, <1>6 DEF IInv, SupInv, Alive
<1>12. CommitInv'
  BY <1>2, <1>6, <1>7, <1>9, QuietCommit
<1>13. CommitDecides' /\ EndInv'
  <2>1. /\ CommitDecides'
        /\ \A k \in Jobs : /\ job'[k] \in {"new", "queued"} => lease'[k].state = "none"
                           /\ job'[k] \in Ended => lease'[k].state # "active"
    BY <1>2, <1>6, <1>7, QuietEnd
  <2>2. sup'.gone
    BY <1>1, <1>2 DEF IInv, SupInv
  <2> QED
    BY <1>1, <1>2, <2>1, <2>2 DEF EndInv
<1> QED
  BY <1>9, <1>10, <1>11, <1>12, <1>13 DEF IInv

\* Every step keeps the invariant.
LEMMA NextInv == IInv /\ [Next]_vars => IInv'
<1> SUFFICES ASSUME IInv, [Next]_vars PROVE IInv'
  OBVIOUS
<1>1. CASE \E j \in Jobs : Submit(j) \/ Take(j) \/ WorkerStep(j)
  BY <1>1, JobsInv, WorkerStepInv
<1>2. CASE Supervise
  <2>1. CASE StartRefused \/ Finish
    <3>1. sup.job \in Jobs
      BY <2>1 DEF StartRefused, Finish, At, IInv, SupInv
    <3> QED
      BY <2>1, <3>1, JobsInv
  <2>2. CASE StartExecution \/ Spawn \/ Stop
    BY <2>2, StartExecutionInv, SpawnInv, StopInv
  <2>3. CASE Go
    BY <2>3, PhaseInv
  <2>4. CASE SpawnFails \/ Register \/ SeeExit \/ GiveUp \/ Record \/ Settle
    BY <2>4, GoesOnInv
  <2> QED
    BY <1>2, <2>1, <2>2, <2>3, <2>4 DEF Supervise
<1>3. CASE Crash
  BY <1>3, PhaseInv
<1>4. CASE Boot
  BY <1>4, PhaseInv, BootLeaseInv, JobsInv DEF Boot
<1>5. CASE UNCHANGED vars
  <2>1. UNCHANGED <<life, phase, boot, sup, stuck, job, lease, worker, go, seen, lock, result, wrote>>
    BY <1>5 DEF vars, service, worked
  <2>2. TypeOK' /\ OneWorker' /\ SupInv'
    BY <2>1 DEF IInv, TypeOK, OneWorker, SupInv
  <2>3. LeaseInv' /\ CommitInv' /\ CommitDecides' /\ EndInv'
    BY <2>1 DEF IInv, LeaseInv, CommitInv, CommitDecides, EndInv
  <2> QED
    BY <2>2, <2>3 DEF IInv
<1> QED
  BY <1>1, <1>2, <1>3, <1>4, <1>5 DEF Next

-----------------------------------------------------------------------------
\* The inductive invariant holds of every behaviour.
THEOREM Invariance == Spec => []IInv
<1> QED
  BY InitInv, NextInv, PTL DEF Spec

\* A worker past its gate is the only one of its batch, and its execution can
\* be told to be running (start_execution, stop_recorded_process).
THEOREM AtMostOneWorker == Spec => []OneWorker
<1>1. IInv => OneWorker
  BY DEF IInv
<1> QED
  BY <1>1, Invariance, PTL

\* The status of a job that ended agrees with what was committed (the results
\* of _run_quality_subprocess and mark_interrupted_jobs).
THEOREM StatusIsCommit == Spec => []CommitDecides
<1>1. IInv => CommitDecides
  BY DEF IInv
<1> QED
  BY <1>1, Invariance, PTL

\* An execution that is not active publishes nothing, however late its worker
\* comes to its commit (merge_quality_results).
THEOREM Fencing == Spec => RevokedPublishesNothing
<1>1. ASSUME IInv, [Next]_vars, NEW j \in Jobs, lease[j].state # "active", result' = j
      PROVE  result = j
  <2>1. CASE \E k \in Jobs : WorkerStep(k)
    <3>1. PICK k \in Jobs : WorkerStep(k)
      BY <2>1
    <3>2. CASE Commit(k)
      <4>1. result' = k /\ worker[k] = "commit" /\ seen[k] = lease[k].rev
        BY <3>2 DEF Commit
      <4>2. lease[k].state = "active"
        BY <1>1, <4>1 DEF IInv, CommitInv
      <4> QED
        BY <1>1, <4>1, <4>2
    <3>3. CASE ~Commit(k)
      BY <1>1, <3>1, <3>3 DEF WorkerStep, Accept, BeginWrite, EndWrite, BeginCommit, Exit
    <3> QED
      BY <3>2, <3>3
  <2>2. CASE ~\E k \in Jobs : WorkerStep(k)
    <3>1. CASE UNCHANGED vars
      BY <1>1, <3>1 DEF vars, worked
    <3>2. CASE \E k \in Jobs : Submit(k) \/ Take(k)
      BY <1>1, <3>2 DEF Submit, Take, worked
    <3>3. CASE Supervise \/ Crash
      BY <1>1, <3>3 DEF Supervise, StartExecution, StartRefused, Spawn, SpawnFails, Register, Go,
                       SeeExit, GiveUp, Stop, Record, Settle, Finish, Crash, worked
    <3>4. CASE Boot
      BY <1>1, <3>4 DEF Boot, Restart, BootJobs, Serve, BootRevoke, BootStop, BootJob, worked
    <3> QED
      BY <1>1, <2>2, <3>1, <3>2, <3>3, <3>4 DEF Next
  <2> QED
    BY <2>1, <2>2
<1>2. IInv /\ [Next]_vars =>
        [\A j \in Jobs : lease[j].state # "active" => (result' = j => result = j)]_vars
  BY <1>1
<1> QED
  BY <1>2, Invariance, PTL DEF Spec, RevokedPublishesNothing
=============================================================================
