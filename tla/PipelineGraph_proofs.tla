------------------------ MODULE PipelineGraph_proofs -------------------------
(***************************************************************************)
(* The execution graph is well formed at every step of its construction,   *)
(* and blamed for a cycle only when the steps themselves go in a circle;   *)
(* its services agree on the groups that they share, and start after those *)
(* above them: for any topology, any pipelines and any number of stamps.   *)
(***************************************************************************)
EXTENDS PipelineGraph, SequenceTheorems, FiniteSetTheorems,
        WellFoundedInduction, TLAPS

LEMMA InitIInv == Init => IInv
<1> SUFFICES ASSUME Init PROVE IInv
  OBVIOUS
<1>1. /\ stack \in Seq(Services) /\ Len(stack) = 0
  BY EmptySeq DEF Init
<1>2. TypeOK
  BY <1>1, InputsAssumption DEF Init, TypeOK, IsInput
<1>3. TreeInv
  BY <1>1 DEF Init, TreeInv
<1>4. EdgesInv
  BY DEF Init, EdgesInv, EdgesAgree, EdgesOnNodes, StampsApart
<1>5. DeclaredInv
  BY DEF Init, DeclaredInv
<1> QED
  BY <1>2, <1>3, <1>4, <1>5 DEF IInv

\* A step that leaves the input, the graph and the leaves alone.
LEMMA SameGraph ==
  ASSUME IInv, UNCHANGED <<input, graph, leaves>>,
         result' = "cycle" => ~Acyclic(nodes, children)
  PROVE  EdgesInv' /\ DeclaredInv'
<1>1. EdgesInv'
  BY DEF IInv, graph, EdgesInv, EdgesAgree, EdgesOnNodes, StampsApart
<1>2. After' = After
  BY DEF After
<1>3. Acyclic(nodes, children)' = Acyclic(nodes, children)
  BY DEF graph, Acyclic, Circular
<1>4. DeclaredInv'
  BY <1>2, <1>3 DEF IInv, graph, DeclaredInv
<1> QED
  BY <1>1, <1>4

LEMMA FailsIInv == ASSUME IInv, Fails PROVE IInv'
<1>1. EdgesInv' /\ DeclaredInv'
  BY SameGraph DEF Fails, tree
<1>2. TypeOK'
  BY DEF IInv, Fails, tree, graph, TypeOK, IsInput
<1>3. TreeInv'
  BY DEF IInv, Fails, tree, TreeInv
<1> QED
  BY <1>1, <1>2, <1>3 DEF IInv

-----------------------------------------------------------------------------
(* Going down *)

LEMMA EnterIInv == ASSUME IInv, NEW s \in Services, Enter(s) PROVE IInv'
<1>1. CASE Fails
  BY <1>1, FailsIInv
<1>2. CASE ~Fails
  <2>1. /\ result = "none" /\ iterations = {}
        /\ stack = << >> \/ (stack # << >> /\ s \in ChildrenOf(Current) \ wired)
        /\ recorded' = recorded \cup {s}
        /\ stack' = Append(stack, s)
        /\ ahead' = IF stack = << >> THEN ahead \ {s} ELSE ahead
        /\ iterations' = IterationsOf(s)
        /\ UNCHANGED <<input, wired, groups, groupStamped, subscription,
                       leaves, graph, unlinked, result>>
    BY <1>2 DEF Enter
  <2>2. stack \in Seq(Services) /\ Len(stack) \in Nat
    BY LenProperties DEF IInv, TypeOK
  <2>3. /\ stack' \in Seq(Services) /\ stack' # << >>
        /\ Len(stack') = Len(stack) + 1
        /\ stack'[Len(stack) + 1] = s
        /\ \A k \in 1..Len(stack) : stack'[k] = stack[k]
    BY <2>1, <2>2, AppendProperties, EmptySeq
  <2>4. EdgesInv' /\ DeclaredInv'
    BY <2>1, SameGraph
  <2>5. TypeOK'
    <3>1. IterationsOf(s) \subseteq Stamps \cup {NoStamp}
      BY DEF IterationsOf, IInv, TypeOK, IsInput
    <3> QED
      BY <2>1, <2>3, <3>1 DEF IInv, TypeOK, IsInput, graph
  <2>6. TreeInv'
    <3> SUFFICES ASSUME NEW k \in 1..(Len(stack') - 1)
                 PROVE  input.parent[stack'[k + 1]] = stack'[k]
      BY <2>1, <2>3 DEF IInv, TreeInv
    <3>1. CASE k < Len(stack)
      BY <3>1, <2>2, <2>3 DEF IInv, TreeInv
    <3>2. CASE k = Len(stack)
      <4>1. stack # << >>
        BY <3>2, <2>2, <2>3, EmptySeq
      <4>2. input.parent[s] = stack[Len(stack)]
        BY <4>1, <2>1 DEF ChildrenOf, Current
      <4> QED
        BY <3>2, <4>2, <2>2, <2>3
    <3> QED
      BY <3>1, <3>2, <2>2, <2>3
  <2> QED
    BY <2>4, <2>5, <2>6 DEF IInv
<1> QED
  BY <1>1, <1>2

-----------------------------------------------------------------------------
(* The nodes of one iteration *)

LEMMA IterateIInv ==
  ASSUME IInv, NEW stamp \in Stamps \cup {NoStamp}, Iterate(stamp)
  PROVE  IInv'
<1>1. CASE Fails
  BY <1>1, FailsIInv
<1>2. CASE ~Fails
  <2> DEFINE s == Current
             new == NodesOf(s, stamp)
  <2>1. /\ result = "none" /\ stamp \in iterations
        /\ iterations' = iterations \ {stamp}
        /\ groupStamped' = [g \in Groups |->
             IF g \in GroupsOf(s) THEN Kind(s, g) ELSE groupStamped[g]]
        /\ subscription' = (subscription \/ s \in input.provisions)
        /\ nodes' = nodes \cup new
        /\ children' = [n \in Ids |-> IF n \in new
             THEN children[n] \cup ChildrenIn(s, stamp, Step(n)) ELSE children[n]]
        /\ parents' = [n \in Ids |-> IF n \in new
             THEN parents[n] \cup ParentsIn(stamp, Step(n)) ELSE parents[n]]
        /\ leaves' = [leaves EXCEPT ![s] = @ \cup LeavesIn(s, stamp)]
        /\ UNCHANGED <<input, ahead, stack, recorded, wired, unlinked, result>>
    BY <1>2 DEF Iterate
  <2>2. s \in Services
    <3>1. stack # << >> /\ stack \in Seq(Services)
      BY <2>1 DEF IInv, TreeInv, TypeOK
    <3> QED
      BY <3>1, ElementOfSeq, EmptySeq, LenProperties DEF Current
  \* A node of the iteration is the step's, with the stamp or with none.
  <2>3. \A t \in Steps : /\ Id(t, stamp) \in Ids /\ Step(Id(t, stamp)) = t
                         /\ Stamp(Id(t, stamp)) \in {stamp, NoStamp}
    BY DEF Id, Ids, Step, Stamp
  <2>4. new \subseteq Ids /\ \A n \in new : n = Id(Step(n), stamp) /\ Step(n) \in StepsOf(s)
    BY <2>3 DEF NodesOf, StepsOf
  <2>5. \A n \in new : ChildrenIn(s, stamp, Step(n)) \subseteq new
    BY DEF ChildrenIn, NodesOf
  <2>6. \A t \in StepsOf(s) : input.deps[t] \subseteq StepsOf(s)
    BY DEF IInv, TypeOK, IsInput, StepsOf
  <2>7. \A n \in new : ParentsIn(stamp, Step(n)) \subseteq new
    BY <2>4, <2>6 DEF ParentsIn, NodesOf
  <2>8. \A m, n \in new :
          m \in ChildrenIn(s, stamp, Step(n)) <=> n \in ParentsIn(stamp, Step(m))
    <3> SUFFICES ASSUME NEW m \in new, NEW n \in new
                 PROVE  m \in ChildrenIn(s, stamp, Step(n)) <=> n \in ParentsIn(stamp, Step(m))
      OBVIOUS
    <3>1. m \in ChildrenIn(s, stamp, Step(n)) <=> Step(n) \in input.deps[Step(m)]
      BY <2>3, <2>4 DEF ChildrenIn, StepsOf
    <3>2. n \in ParentsIn(stamp, Step(m)) <=> Step(n) \in input.deps[Step(m)]
      <4>1. \A d \in input.deps[Step(m)] : Step(Id(d, stamp)) = d
        BY <2>3, <2>4, <2>6 DEF StepsOf
      <4> QED
        BY <2>4, <4>1 DEF ParentsIn
    <3> QED
      BY <3>1, <3>2
  <2>9. /\ children' \in [Ids -> SUBSET Ids] /\ parents' \in [Ids -> SUBSET Ids]
        /\ \A n \in Ids : children'[n] \subseteq children[n] \cup new
        /\ \A n \in Ids : parents'[n] \subseteq parents[n] \cup new
    BY <2>1, <2>4, <2>5, <2>7 DEF IInv, TypeOK
  <2>10. TypeOK'
    <3>1. LeavesIn(s, stamp) \subseteq new
      BY DEF LeavesIn, NodesOf
    <3>2. leaves' \in [Services -> SUBSET nodes']
      BY <2>1, <3>1 DEF IInv, TypeOK
    <3>3. groupStamped' \in [Groups -> {"unknown", "stamped", "unstamped"}]
      BY <2>1 DEF IInv, TypeOK, Kind
    <3>4. subscription' \in BOOLEAN
      BY <2>1
    <3>5. IsInput(input)'
      BY <2>1 DEF IInv, TypeOK, IsInput
    <3> QED
      BY <2>1, <2>4, <2>9, <3>2, <3>3, <3>4, <3>5 DEF IInv, TypeOK
  <2>11. TreeInv'
    <3>1. \A l \in LeavesIn(s, stamp) : Service(l) = s
      BY DEF LeavesIn, Service, Id, StepsOf
    <3> QED
      BY <2>1, <2>2, <3>1 DEF IInv, TreeInv, TypeOK
  <2>12. EdgesInv'
    <3>1. EdgesAgree'
      <4> SUFFICES ASSUME NEW m \in Ids, NEW n \in Ids, m # n
                   PROVE  m \in children'[n] <=> n \in parents'[m]
        BY DEF EdgesAgree
      <4>1. m \in children[n] <=> n \in parents[m]
        BY DEF IInv, EdgesInv, EdgesAgree
      <4> QED
        BY <4>1, <2>1, <2>5, <2>7, <2>8
    <3>2. EdgesOnNodes'
      BY <2>1, <2>9 DEF IInv, EdgesInv, EdgesOnNodes
    <3>3. StampsApart'
      <4>1. \A n \in new : Stamp(n) \in {stamp, NoStamp}
        BY <2>3, <2>4 DEF StepsOf
      <4> QED
        BY <4>1, <2>1, <2>5 DEF IInv, EdgesInv, StampsApart
    <3> QED
      BY <3>1, <3>2, <3>3 DEF EdgesInv
  <2>13. DeclaredInv'
    <3>1. After' = After
      BY <2>1 DEF After
    <3>2. \A n \in new : \A m \in ChildrenIn(s, stamp, Step(n)) : Step(m) \in After[Step(n)]
      <4> SUFFICES ASSUME NEW n \in new, NEW m \in ChildrenIn(s, stamp, Step(n))
                   PROVE  Step(m) \in After[Step(n)]
        OBVIOUS
      <4>1. m \in new /\ n \in ParentsIn(stamp, Step(m))
        BY <2>5, <2>8
      <4>2. PICK u \in StepsOf(s) : m = Id(u, stamp) /\ Step(n) \in input.deps[u]
        BY DEF ChildrenIn
      <4>3. Step(m) = u /\ u \in Steps /\ Step(n) \in Steps
        BY <2>3, <2>4, <4>2 DEF StepsOf
      <4> QED
        BY <4>2, <4>3 DEF After
    <3>3. \A n \in Ids : \A m \in children'[n] : Step(m) \in After'[Step(n)]
      BY <2>1, <3>1, <3>2 DEF IInv, DeclaredInv
    <3> QED
      BY <2>1, <3>3 DEF DeclaredInv
  <2> QED
    BY <2>10, <2>11, <2>12, <2>13 DEF IInv
<1> QED
  BY <1>1, <1>2

-----------------------------------------------------------------------------
(* Coming back up *)

LEMMA LeaveIInv == ASSUME IInv, Leave PROVE IInv'
<1> DEFINE up   == stack[Len(stack) - 1]
           from == leaves[up]
           to   == Roots(Current)
<1>1. /\ result = "none" /\ stack # << >> /\ iterations = {}
      /\ stack' = SubSeq(stack, 1, Len(stack) - 1)
      /\ UNCHANGED <<input, ahead, iterations, recorded, groups, groupStamped,
                     subscription, nodes, leaves, result>>
  BY DEF Leave
<1>2. \/ /\ unlinked' \in {nodes, {}}
         /\ UNCHANGED <<wired, children, parents>>
      \/ /\ Len(stack) # 1
         /\ wired' = wired \cup {Current}
         /\ children' = [n \in Ids |-> IF n \in from
              THEN children[n] \cup {r \in to : SameStamp(n, r)} ELSE children[n]]
         /\ parents' = [n \in Ids |-> IF n \in to
              THEN parents[n] \cup {l \in from : SameStamp(l, n)} ELSE parents[n]]
         /\ UNCHANGED unlinked
  BY DEF Leave
<1>3. /\ stack \in Seq(Services) /\ Len(stack) \in Nat /\ Len(stack) # 0
      /\ Current \in Services
  BY <1>1, EmptySeq, LenProperties, ElementOfSeq DEF IInv, TypeOK, Current
<1>4. /\ stack' \in Seq(Services) /\ Len(stack') = Len(stack) - 1
      /\ \A k \in 1..Len(stack') : stack'[k] = stack[k]
  <2> DEFINE len == Len(stack) - 1
  <2>1. 1 \in 1..(Len(stack) + 1) /\ len \in 0..Len(stack) /\ len \in Nat
    BY <1>3
  <2>2. stack' = SubSeq(stack, 1, len)
    BY <1>1
  <2> HIDE DEF len
  <2>3. /\ SubSeq(stack, 1, len) \in Seq(Services)
        /\ Len(SubSeq(stack, 1, len)) = IF 1 <= len THEN len - 1 + 1 ELSE 0
        /\ \A k \in 1..(len - 1 + 1) : SubSeq(stack, 1, len)[k] = stack[1 + k - 1]
    BY <1>3, <2>1, SubSeqProperties
  <2>4. len - 1 + 1 = len /\ (1 <= len \/ len = 0)
    BY <2>1
  <2>5. Len(SubSeq(stack, 1, len)) = len
    BY <2>3, <2>4
  <2>6. ASSUME NEW k \in 1..len PROVE SubSeq(stack, 1, len)[k] = stack[k]
    <3>1. 1 + k - 1 = k
      OBVIOUS
    <3> QED
      BY <2>3, <2>4, <3>1
  <2>7. /\ stack' \in Seq(Services) /\ Len(stack') = len
        /\ \A k \in 1..len : stack'[k] = stack[k]
    BY <2>3, <2>5, <2>6, <2>2
  <2> QED
    BY <2>7 DEF len
<1>5. TreeInv'
  <2>1. \A k \in 1..(Len(stack') - 1) : input'.parent[stack'[k + 1]] = stack'[k]
    BY <1>1, <1>3, <1>4 DEF IInv, TreeInv
  <2> QED
    BY <1>1, <2>1 DEF IInv, TreeInv
<1>6. CASE UNCHANGED <<wired, children, parents>> /\ unlinked' \in {nodes, {}}
  <2>1. EdgesInv' /\ DeclaredInv'
    BY <1>1, <1>6, SameGraph DEF graph
  <2>2. TypeOK'
    BY <1>1, <1>4, <1>6 DEF IInv, TypeOK, IsInput
  <2> QED
    BY <1>5, <2>1, <2>2 DEF IInv
<1>7. CASE ~(UNCHANGED <<wired, children, parents>> /\ unlinked' \in {nodes, {}})
  <2>1. /\ Len(stack) # 1
        /\ wired' = wired \cup {Current}
        /\ children' = [n \in Ids |-> IF n \in from
             THEN children[n] \cup {r \in to : SameStamp(n, r)} ELSE children[n]]
        /\ parents' = [n \in Ids |-> IF n \in to
             THEN parents[n] \cup {l \in from : SameStamp(l, n)} ELSE parents[n]]
        /\ UNCHANGED unlinked
    BY <1>2, <1>7
  <2>2. up \in Services /\ input.parent[Current] = up
    <3> DEFINE len == Len(stack)
    <3>1. len \in Nat /\ len # 0 /\ len # 1
      BY <1>3, <2>1
    <3>2. len - 1 \in 1..(len - 1) /\ len - 1 \in 1..len /\ len - 1 + 1 = len
      BY <3>1
    <3> QED
      BY <1>3, <3>2, ElementOfSeq DEF IInv, TreeInv, Current
  <2>3. /\ from \subseteq nodes /\ to \subseteq nodes /\ nodes \subseteq Ids
        /\ \A l \in from : Service(l) = up
        /\ \A r \in to : Service(r) = Current
    BY <2>2 DEF IInv, TypeOK, TreeInv, Roots
  <2>4. TypeOK'
    <3>1. children' \in [Ids -> SUBSET Ids] /\ parents' \in [Ids -> SUBSET Ids]
      BY <2>1, <2>3 DEF IInv, TypeOK
    <3> QED
      BY <1>1, <1>3, <1>4, <2>1, <3>1 DEF IInv, TypeOK, IsInput
  <2>5. EdgesInv'
    <3>1. EdgesAgree'
      <4> SUFFICES ASSUME NEW m \in Ids, NEW n \in Ids, m # n
                   PROVE  m \in children'[n] <=> n \in parents'[m]
        BY DEF EdgesAgree
      <4>1. m \in children[n] <=> n \in parents[m]
        BY DEF IInv, EdgesInv, EdgesAgree
      <4> QED
        BY <4>1, <2>1
    <3>2. EdgesOnNodes'
      BY <1>1, <2>1, <2>3 DEF IInv, EdgesInv, EdgesOnNodes
    <3>3. StampsApart'
      <4>1. \A n \in Ids : \A m \in children'[n] : m \in children[n] \/ SameStamp(n, m)
        BY <2>1
      <4> QED
        BY <4>1 DEF IInv, EdgesInv, StampsApart, SameStamp
    <3> QED
      BY <3>1, <3>2, <3>3 DEF EdgesInv
  <2>6. DeclaredInv'
    <3>1. After' = After
      BY <1>1 DEF After
    <3>2. ASSUME NEW n \in from, NEW m \in to PROVE Step(m) \in After[Step(n)]
      <4>1. /\ Step(n) \in Steps /\ Step(m) \in Steps
            /\ ServiceOf[Step(n)] = up /\ ServiceOf[Step(m)] = Current
        BY <2>3 DEF Ids, Step, Service
      <4> QED
        BY <4>1, <2>2 DEF After
    <3>3. \A n \in Ids : \A m \in children'[n] : Step(m) \in After'[Step(n)]
      BY <2>1, <3>1, <3>2 DEF IInv, DeclaredInv
    <3> QED
      BY <1>1, <3>3 DEF DeclaredInv
  <2> QED
    BY <1>5, <2>4, <2>5, <2>6 DEF IInv
<1> QED
  BY <1>6, <1>7

-----------------------------------------------------------------------------
(* Dependencies across services *)

LEMMA LinkIInv == ASSUME IInv, NEW n \in Ids, Link(n) PROVE IInv'
<1>1. CASE Fails
  BY <1>1, FailsIInv
<1>2. CASE ~Fails
  <2>1. /\ result = "none" /\ n \in unlinked
        /\ ~\E d \in input.external[Step(n)] : BadExternal(n, d)
        /\ children' = [m \in Ids |-> IF m \in ExternalParents(n) \ {n}
                                        THEN children[m] \cup {n} ELSE children[m]]
        /\ parents' = [parents EXCEPT ![n] = @ \cup ExternalParents(n)]
        /\ unlinked' = unlinked \ {n}
        /\ UNCHANGED <<input, tree, nodes, result>>
    BY <1>2 DEF Link
  <2>2. n \in nodes /\ nodes \subseteq Ids /\ Step(n) \in Steps
    BY <2>1 DEF IInv, TypeOK, Ids, Step
  <2>3. ExternalParents(n) \subseteq nodes
    BY <2>1 DEF ExternalParents, BadExternal
  <2>4. \A p \in ExternalParents(n) : /\ Step(p) \in input.external[Step(n)]
                                      /\ Stamp(p) \in {Stamp(n), NoStamp}
    BY DEF ExternalParents, ExternalParent, Step, Stamp
  <2>5. TypeOK'
    <3>1. children' \in [Ids -> SUBSET Ids] /\ parents' \in [Ids -> SUBSET Ids]
      BY <2>1, <2>2, <2>3 DEF IInv, TypeOK
    <3> QED
      BY <2>1, <3>1 DEF IInv, TypeOK, IsInput, tree
  <2>6. TreeInv'
    BY <2>1 DEF IInv, TreeInv, tree
  <2>7. EdgesInv'
    <3>1. EdgesAgree'
      <4> SUFFICES ASSUME NEW m \in Ids, NEW q \in Ids, m # q
                   PROVE  m \in children'[q] <=> q \in parents'[m]
        BY DEF EdgesAgree
      <4>1. m \in children[q] <=> q \in parents[m]
        BY DEF IInv, EdgesInv, EdgesAgree
      <4> QED
        BY <4>1, <2>1 DEF IInv, TypeOK
    <3>2. EdgesOnNodes'
      BY <2>1, <2>2, <2>3 DEF IInv, EdgesInv, EdgesOnNodes, TypeOK
    <3>3. StampsApart'
      BY <2>1, <2>4 DEF IInv, EdgesInv, StampsApart
    <3> QED
      BY <3>1, <3>2, <3>3 DEF EdgesInv
  <2>8. DeclaredInv'
    <3>1. After' = After
      BY <2>1 DEF After
    <3>2. \A p \in ExternalParents(n) : Step(n) \in After[Step(p)]
      <4>1. \A p \in ExternalParents(n) : Step(p) \in Steps
        BY <2>2, <2>3 DEF Ids, Step
      <4> QED
        BY <4>1, <2>2, <2>4 DEF After
    <3>3. \A q \in Ids : \A m \in children'[q] : Step(m) \in After'[Step(q)]
      BY <2>1, <3>1, <3>2 DEF IInv, DeclaredInv
    <3> QED
      BY <2>1, <3>3 DEF DeclaredInv
  <2> QED
    BY <2>5, <2>6, <2>7, <2>8 DEF IInv
<1> QED
  BY <1>1, <1>2

LEMMA DetectIInv == ASSUME IInv, Detect PROVE IInv'
<1>1. /\ result' = IF Acyclic(nodes, children) THEN "ok" ELSE "cycle"
      /\ UNCHANGED <<input, tree, graph, unlinked>>
  BY DEF Detect
<1>2. EdgesInv' /\ DeclaredInv'
  BY <1>1, SameGraph DEF tree
<1>3. TypeOK'
  BY <1>1 DEF IInv, TypeOK, IsInput, tree, graph
<1>4. TreeInv'
  BY <1>1 DEF IInv, TreeInv, tree
<1> QED
  BY <1>2, <1>3, <1>4 DEF IInv

-----------------------------------------------------------------------------
(* The theorems *)

LEMMA NextIInv == IInv /\ [Next]_vars => IInv'
<1> SUFFICES ASSUME IInv, [Next]_vars PROVE IInv'
  OBVIOUS
<1>1. ASSUME NEW s \in Services, Enter(s) PROVE IInv'
  BY <1>1, EnterIInv
<1>2. ASSUME NEW stamp \in Stamps \cup {NoStamp}, Iterate(stamp) PROVE IInv'
  BY <1>2, IterateIInv
<1>3. CASE Leave
  BY <1>3, LeaveIInv
<1>4. ASSUME NEW n \in Ids, Link(n) PROVE IInv'
  BY <1>4, LinkIInv
<1>5. CASE Detect
  BY <1>5, DetectIInv
<1>6. CASE UNCHANGED vars
  <2>1. EdgesInv' /\ DeclaredInv'
    BY <1>6, SameGraph DEF vars, tree, IInv, DeclaredInv
  <2>2. TypeOK' /\ TreeInv'
    BY <1>6 DEF IInv, vars, tree, graph, TypeOK, IsInput, TreeInv
  <2> QED
    BY <2>1, <2>2 DEF IInv
<1> QED
  BY <1>1, <1>2, <1>3, <1>4, <1>5, <1>6 DEF Next

\* What accumulate relies on between two of its steps.
THEOREM BuildInvariant == Spec => []IInv
  BY InitIInv, NextIInv, PTL DEF Spec

\* Every step of the build keeps its data in shape: leaves are nodes, and so
\* is what remains to be linked.
THEOREM TypeCorrect == Spec => []TypeOK
<1>1. IInv => TypeOK
  BY DEF IInv
<1> QED
  BY <1>1, BuildInvariant, PTL

\* Children and Parents agree, lead to nodes, and keep stamps apart.
THEOREM WellFormed == Spec => []EdgesInv
<1>1. IInv => EdgesInv
  BY DEF IInv
<1> QED
  BY <1>1, BuildInvariant, PTL

\* A circle of nodes is one of steps: no cycle comes from stamps or from the
\* wiring of services.
THEOREM HonestCycles == Spec => []CyclesAreReal
<1>1. IInv => CyclesAreReal
  <2> SUFFICES ASSUME IInv, result = "cycle"
               PROVE  \E C \in SUBSET Steps : Circular(C, After)
    BY DEF CyclesAreReal
  <2>1. PICK N \in SUBSET nodes : Circular(N, children)
    BY DEF IInv, DeclaredInv, Acyclic
  <2> DEFINE C == {Step(n) : n \in N}
  <2>2. N \subseteq Ids /\ N # {}
    BY <2>1 DEF IInv, TypeOK, Circular
  <2>3. C \in SUBSET Steps /\ C # {}
    BY <2>2 DEF Ids, Step
  <2>4. ASSUME NEW n \in N PROVE After[Step(n)] \cap C # {}
    <3>1. PICK m \in N : m \in children[n]
      BY <2>1 DEF Circular
    <3> QED
      BY <3>1, <2>2 DEF IInv, DeclaredInv
  <2>5. \A t \in C : After[t] \cap C # {}
    BY <2>4
  <2>6. Circular(C, After)
    BY <2>3, <2>5 DEF Circular
  <2> QED
    BY <2>3, <2>6
<1> QED
  BY <1>1, BuildInvariant, PTL

-----------------------------------------------------------------------------
(* The resource groups that services share *)

\* The iterations of s that are behind it.
Iterated(s) ==
  IF iterations # {} /\ s = Current THEN IterationsOf(s) \ iterations ELSE IterationsOf(s)

\* What an iteration of s leaves behind.
Registered(s, stamp) ==
  /\ \A g \in GroupsOf(s) :
       /\ groupStamped[g] = Kind(s, g)
       /\ <<g, StampOfGroup(s, stamp, g), input.meta[s]>> \in groups
       /\ Kind(s, g) = "stamped" => s \in input.stamped
  /\ s \in input.provisions => subscription

\* There is one entry per key, and every iteration that is over has made its own.
GroupsInv ==
  /\ result = "ok" => iterations = {}
  /\ \A q, r \in groups : q[1] = r[1] /\ q[2] = r[2] => q[3] = r[3]
  /\ \A s \in recorded : \A stamp \in Iterated(s) : Registered(s, stamp)
  /\ \A s, q \in recorded \cap input.provisions :
       Iterated(s) # {} /\ Iterated(q) # {} => s = q

LEMMA CurrentIsService ==
  ASSUME IInv, stack # << >>
  PROVE  Current \in Services
<1>1. stack \in Seq(Services)
  BY DEF IInv, TypeOK
<1> QED BY <1>1, ElementOfSeq, EmptySeq, LenProperties DEF Current

LEMMA IteratedStays ==
  ASSUME UNCHANGED <<input, iterations, stack>>
  PROVE  \A s \in Services : Iterated(s)' = Iterated(s)
BY DEF Iterated, IterationsOf, Current

LEMMA RegisteredStays ==
  ASSUME UNCHANGED <<input, groups, groupStamped, subscription>>,
         NEW s, NEW stamp, Registered(s, stamp)
  PROVE  Registered(s, stamp)'
BY DEF Registered, GroupsOf, StepsOf, StampOfGroup, Kind

LEMMA SameGroups ==
  ASSUME IInv, GroupsInv,
         UNCHANGED <<input, iterations, stack, recorded, groups, groupStamped, subscription>>,
         result' = "ok" => iterations = {}
  PROVE  GroupsInv'
<1>1. \A s \in recorded : Iterated(s)' = Iterated(s)
  BY IteratedStays DEF IInv, TypeOK
<1>2. \A s \in recorded : \A stamp \in Iterated(s) : Registered(s, stamp)'
  BY RegisteredStays DEF GroupsInv
<1> QED BY <1>1, <1>2 DEF GroupsInv

LEMMA EnterGroups ==
  ASSUME IInv, GroupsInv, NEW s \in Services, Enter(s)
  PROVE  GroupsInv'
<1>1. CASE Fails
  BY <1>1, SameGroups DEF Fails, tree, GroupsInv
<1>2. CASE ~Fails
  <2>1. /\ iterations = {} /\ recorded' = recorded \cup {s} /\ s \notin recorded
        /\ stack' = Append(stack, s) /\ iterations' = IterationsOf(s)
        /\ UNCHANGED <<input, groups, groupStamped, subscription, result>> /\ result = "none"
    BY <1>2 DEF Enter
  <2>2. Current' = s
    <3>1. stack \in Seq(Services)
      BY DEF IInv, TypeOK
    <3> QED BY <2>1, <3>1, AppendProperties, LenProperties DEF Current
  <2>3. IterationsOf(s)' = IterationsOf(s)
    BY <2>1 DEF IterationsOf
  <2>4. Iterated(s)' = {}
    BY <2>1, <2>2, <2>3 DEF Iterated
  <2>5. \A q \in recorded : Iterated(q)' = Iterated(q)
    BY <2>1, <2>2 DEF Iterated, IterationsOf
  <2>6. \A q \in recorded : \A stamp \in Iterated(q) : Registered(q, stamp)'
    BY <2>1, RegisteredStays DEF GroupsInv
  <2> QED BY <2>1, <2>4, <2>5, <2>6 DEF GroupsInv
<1> QED BY <1>1, <1>2

LEMMA IterateGroups ==
  ASSUME IInv, GroupsInv, NEW stamp \in Stamps \cup {NoStamp}, Iterate(stamp),
         NEW s, s = Current
  PROVE  GroupsInv'
<1>1. CASE Fails
  BY <1>1, SameGroups DEF Fails, tree, GroupsInv
<1>2. CASE ~Fails
  <2> DEFINE entry(g) == <<g, StampOfGroup(s, stamp, g), input.meta[s]>>
  <2>1. /\ result = "none" /\ stamp \in iterations /\ ~Conflicts(s, stamp)
        /\ iterations' = iterations \ {stamp}
        /\ groups' = groups \cup {entry(g) : g \in GroupsOf(s)}
        /\ groupStamped' = [g \in Groups |->
             IF g \in GroupsOf(s) THEN Kind(s, g) ELSE groupStamped[g]]
        /\ subscription' = (subscription \/ s \in input.provisions)
        /\ UNCHANGED <<input, stack, recorded, result>>
    BY <1>2 DEF Iterate
  <2>2. s \in Services /\ \A q \in Services : GroupsOf(q) \subseteq Groups
    BY <2>1, CurrentIsService, StepsAssumption DEF IInv, TreeInv, GroupsOf, StepsOf
  \* Only s has one more iteration behind it.
  <2>3. \A q \in recorded \ {s} : Iterated(q)' = Iterated(q)
    BY <2>1 DEF Iterated, IterationsOf, Current
  <2>4. Iterated(s)' \subseteq Iterated(s) \cup {stamp}
    BY <2>1 DEF Iterated, IterationsOf, Current
  <2>5. \A g \in GroupsOf(s) :
          /\ groupStamped[g] \in {"unknown", Kind(s, g)}
          /\ Kind(s, g) = "stamped" => s \in input.stamped
          /\ \A r \in groups : r[1] = g /\ r[2] = StampOfGroup(s, stamp, g) => r[3] = input.meta[s]
    BY <2>1 DEF Conflicts
  <2>6. s \in input.provisions => subscription = FALSE
    BY <2>1 DEF Conflicts, IInv, TypeOK
  <2>7. \A q, r \in groups' : q[1] = r[1] /\ q[2] = r[2] => q[3] = r[3]
    <3>1. \A g \in GroupsOf(s) : /\ entry(g)[1] = g /\ entry(g)[2] = StampOfGroup(s, stamp, g)
                                 /\ entry(g)[3] = input.meta[s]
      OBVIOUS
    <3> HIDE DEF entry
    <3> QED BY <2>1, <2>5, <3>1 DEF GroupsInv
  <2>8. Registered(s, stamp)'
    BY <2>1, <2>2, <2>5 DEF Registered, GroupsOf, StepsOf, StampOfGroup, Kind
  <2>9. ASSUME NEW q \in recorded, NEW t \in Iterated(q)
        PROVE  Registered(q, t)'
    <3>1. Registered(q, t)
      BY DEF GroupsInv
    <3>2. q \in Services /\ \A g \in GroupsOf(q) : Kind(q, g) # "unknown"
      BY DEF IInv, TypeOK, Kind
    <3>3. \A g \in GroupsOf(q) : groupStamped'[g] = groupStamped[g]
      BY <2>1, <2>2, <2>5, <3>1, <3>2 DEF Registered
    <3> QED BY <2>1, <3>1, <3>3 DEF Registered, GroupsOf, StepsOf, StampOfGroup, Kind
  <2>10. \A q \in recorded' : \A t \in Iterated(q)' : Registered(q, t)'
    BY <2>1, <2>3, <2>4, <2>8, <2>9
  <2>11. ASSUME NEW q \in recorded \cap input.provisions, Iterated(q) # {}
         PROVE  subscription
    BY <2>11 DEF GroupsInv, Registered
  <2>12. \A q, r \in recorded' \cap input'.provisions :
           Iterated(q)' # {} /\ Iterated(r)' # {} => q = r
    BY <2>1, <2>3, <2>6, <2>11 DEF GroupsInv
  <2> QED BY <2>1, <2>7, <2>10, <2>12 DEF GroupsInv
<1> QED BY <1>1, <1>2

LEMMA LeaveGroups ==
  ASSUME IInv, GroupsInv, Leave
  PROVE  GroupsInv'
<1>1. /\ iterations = {} /\ result = "none"
      /\ UNCHANGED <<input, iterations, recorded, groups, groupStamped, subscription, result>>
  BY DEF Leave
<1>2. \A s \in recorded : Iterated(s)' = Iterated(s)
  BY <1>1 DEF Iterated, IterationsOf
<1>3. \A s \in recorded : \A stamp \in Iterated(s) : Registered(s, stamp)'
  BY <1>1, RegisteredStays DEF GroupsInv
<1> QED BY <1>1, <1>2, <1>3 DEF GroupsInv

LEMMA InitGroups == Init => GroupsInv
BY DEF Init, GroupsInv

LEMMA NextGroups == IInv /\ GroupsInv /\ [Next]_vars => GroupsInv'
<1> SUFFICES ASSUME IInv, GroupsInv, [Next]_vars
             PROVE  GroupsInv'
  OBVIOUS
<1>1. ASSUME NEW n \in Ids, Link(n)
      PROVE  GroupsInv'
  <2>1. UNCHANGED <<input, tree>> /\ result' # "ok"
    BY <1>1 DEF Link, Fails
  <2> QED BY <2>1, SameGroups DEF tree
<1>2. CASE Detect
  <2>1. stack = << >> /\ UNCHANGED <<input, tree>>
    BY <1>2 DEF Detect, Accumulated
  <2> QED BY <2>1, SameGroups DEF tree, IInv, TreeInv
<1>3. CASE UNCHANGED vars
  BY <1>3, SameGroups DEF vars, tree, GroupsInv
<1>4. ASSUME NEW stamp \in Stamps \cup {NoStamp}, Iterate(stamp)
      PROVE  GroupsInv'
  BY <1>4, IterateGroups
<1> QED BY <1>1, <1>2, <1>3, <1>4, EnterGroups, LeaveGroups DEF Next

\* Services that share a resource group declare it alike, and one provisions the
\* subscription (registerResourceGroup, accumulateIteration).
THEOREM GroupsAgree == Spec => []SharedGroupsAgree
<1>1. IInv /\ GroupsInv => SharedGroupsAgree
  <2> SUFFICES ASSUME IInv, GroupsInv, result = "ok", NEW s \in recorded, NEW q \in recorded
               PROVE  /\ \A g \in GroupsOf(s) \cap GroupsOf(q) :
                           input.meta[s] = input.meta[q] /\ Kind(s, g) = Kind(q, g)
                      /\ {s, q} \subseteq input.provisions => s = q
    BY DEF SharedGroupsAgree
  <2>1. Iterated(s) = IterationsOf(s) /\ Iterated(q) = IterationsOf(q)
    BY DEF GroupsInv, Iterated
  <2>2. PICK t \in IterationsOf(s) : TRUE
    BY DEF IterationsOf
  <2>3. PICK u \in IterationsOf(q) : TRUE
    BY DEF IterationsOf
  <2>4. Registered(s, t) /\ Registered(q, u)
    BY <2>1 DEF GroupsInv
  <2>5. ASSUME NEW g \in GroupsOf(s) \cap GroupsOf(q)
        PROVE  input.meta[s] = input.meta[q] /\ Kind(s, g) = Kind(q, g)
    <3>1. Kind(s, g) = Kind(q, g)
      BY <2>4 DEF Registered
    <3>2. CASE Kind(s, g) = "unstamped"
      <4>1. StampOfGroup(s, t, g) = NoStamp /\ StampOfGroup(q, u, g) = NoStamp
        BY <3>1, <3>2 DEF Kind, StampOfGroup
      <4>2. <<g, NoStamp, input.meta[s]>> \in groups /\ <<g, NoStamp, input.meta[q]>> \in groups
        BY <2>4, <4>1 DEF Registered
      <4> QED BY <3>1, <4>2 DEF GroupsInv
    <3>3. CASE Kind(s, g) = "stamped"
      <4>1. s \in input.stamped /\ q \in input.stamped
        BY <2>4, <3>1, <3>3 DEF Registered
      <4>2. t \in IterationsOf(q)
        BY <4>1 DEF IterationsOf
      <4>3. Registered(q, t)
        BY <2>1, <4>2 DEF GroupsInv
      <4>4. StampOfGroup(s, t, g) = t /\ StampOfGroup(q, t, g) = t
        BY <3>1, <3>3 DEF Kind, StampOfGroup
      <4>5. <<g, t, input.meta[s]>> \in groups /\ <<g, t, input.meta[q]>> \in groups
        BY <2>4, <4>3, <4>4 DEF Registered
      <4> QED BY <3>1, <4>5 DEF GroupsInv
    <3> QED BY <3>2, <3>3 DEF Kind
  <2>6. {s, q} \subseteq input.provisions => s = q
    BY <2>1, <2>2, <2>3 DEF GroupsInv
  <2> QED BY <2>5, <2>6
<1> QED BY <1>1, BuildInvariant, InitGroups, NextGroups, PTL DEF Spec

-----------------------------------------------------------------------------
(* Services come after those above them *)

\* The walk: each service once; what has been left has its children wired.
WalkInv ==
  /\ \A k \in 1..Len(stack) : stack[k] \in recorded
  /\ \A j, k \in 1..Len(stack) : stack[j] = stack[k] => j = k
  /\ wired \subseteq recorded /\ \A c \in wired : input.parent[c] \in recorded
  /\ \A q \in recorded : (\E k \in 1..Len(stack) : stack[k] = q) \/ ChildrenOf(q) \subseteq wired
  /\ iterations # {} =>
       /\ iterations \subseteq IterationsOf(Current)
       /\ Current \notin wired /\ ChildrenOf(Current) \cap wired = {}
  /\ result = "ok" => stack = << >> /\ Acyclic(nodes, children)

\* Until it is linked, a step without dependencies has no parent of its own service.
NoDeps(n) == input.deps[Step(n)] = {}

\* What the iterations of a service have made stays.
Made(s, stamp) ==
  /\ LeavesIn(s, stamp) \subseteq leaves[s]
  /\ \A t \in StepsOf(s) :
       /\ Id(t, stamp) \in nodes
       /\ ParentsIn(stamp, t) \subseteq parents[Id(t, stamp)]
       /\ ChildrenIn(s, stamp, t) \subseteq children[Id(t, stamp)]

OwnInv ==
  /\ \A s \in recorded : \A stamp \in Iterated(s) : Made(s, stamp)
  /\ \A n \in nodes : /\ Service(n) \in recorded
                      /\ \E stamp \in Iterated(Service(n)) : n = Id(Step(n), stamp)
  /\ ~Accumulated => \A n \in Ids : NoDeps(n) => ~IntraServiceParent(n)

\* The first steps of a service wait for the last of the one above.
WiredInv ==
  \A c \in wired : \A l \in leaves[input.parent[c]] : \A n \in nodes :
    Service(n) = c /\ NoDeps(n) /\ SameStamp(l, n) => l \in parents[n]

OrderInv == WalkInv /\ OwnInv /\ WiredInv

\* Edges are added, and nothing else of what these invariants speak of changes.
LEMMA MoreEdges ==
  ASSUME IInv, OwnInv, WiredInv,
         UNCHANGED <<input, ahead, stack, iterations, recorded, wired, leaves, nodes>>,
         \A n \in Ids : parents[n] \subseteq parents'[n] /\ children[n] \subseteq children'[n],
         Accumulated \/ UNCHANGED parents
  PROVE  OwnInv' /\ WiredInv'
<1>1. \A s \in Services : Iterated(s)' = Iterated(s)
  BY IteratedStays
<1>2. ASSUME NEW s \in recorded, NEW stamp \in Iterated(s)
      PROVE  Made(s, stamp)'
  <2>1. Made(s, stamp) /\ nodes \subseteq Ids
    BY DEF OwnInv, IInv, TypeOK
  <2> QED BY <2>1 DEF Made, LeavesIn, ParentsIn, ChildrenIn, Id, IsStampedGroup, Completes, StepsOf
<1>3. \A n \in nodes : Id(Step(n), NoStamp)' = Id(Step(n), NoStamp)
  BY DEF Id, IsStampedGroup
<1>4. \A n \in nodes : /\ Service(n) \in recorded'
                       /\ \E stamp \in Iterated(Service(n))' : n = Id(Step(n), stamp)'
  <2> SUFFICES ASSUME NEW n \in nodes
               PROVE  /\ Service(n) \in recorded'
                      /\ \E stamp \in Iterated(Service(n))' : n = Id(Step(n), stamp)'
    OBVIOUS
  <2>1. Service(n) \in recorded /\ recorded \subseteq Services
    BY DEF OwnInv, IInv, TypeOK
  <2>2. PICK stamp \in Iterated(Service(n)) : n = Id(Step(n), stamp)
    BY DEF OwnInv
  <2>3. n = Id(Step(n), stamp)'
    BY <2>2 DEF Id, IsStampedGroup
  <2> QED BY <1>1, <2>1, <2>2, <2>3
<1>5. ~Accumulated' => \A n \in Ids : NoDeps(n)' => ~IntraServiceParent(n)'
  BY DEF OwnInv, Accumulated, NoDeps, IntraServiceParent
<1>6. OwnInv'
  BY <1>1, <1>2, <1>4, <1>5 DEF OwnInv, IInv, TypeOK, Service
<1>7. WiredInv'
  BY DEF WiredInv, NoDeps, SameStamp, IInv, TypeOK
<1> QED BY <1>6, <1>7

LEMMA SameWalk ==
  ASSUME IInv, OrderInv,
         UNCHANGED <<input, tree, graph>>,
         result' = "ok" => stack = << >> /\ Acyclic(nodes, children)
  PROVE  OrderInv'
<1>1. OwnInv' /\ WiredInv'
  BY MoreEdges DEF OrderInv, tree, graph
<1>2. Acyclic(nodes, children)' = Acyclic(nodes, children)
  BY DEF graph, Acyclic, Circular
<1>3. WalkInv'
  BY <1>2 DEF OrderInv, WalkInv, tree, ChildrenOf, Current, IterationsOf
<1> QED BY <1>1, <1>3 DEF OrderInv

\* The stack without its last element.
LEMMA PopPath ==
  ASSUME NEW S, NEW p \in Seq(S), p # << >>
  PROVE  /\ Len(SubSeq(p, 1, Len(p) - 1)) = Len(p) - 1
         /\ \A k \in 1..(Len(p) - 1) : SubSeq(p, 1, Len(p) - 1)[k] = p[k]
<1> DEFINE len == Len(p) - 1
<1>1. len \in Nat /\ len \in 0..Len(p) /\ 1 \in 1..(Len(p) + 1)
  BY EmptySeq, LenProperties
<1> HIDE DEF len
<1>2. /\ Len(SubSeq(p, 1, len)) = IF 1 <= len THEN len - 1 + 1 ELSE 0
      /\ \A k \in 1..(len - 1 + 1) : SubSeq(p, 1, len)[k] = p[1 + k - 1]
  BY <1>1, SubSeqProperties
<1>3. len - 1 + 1 = len /\ (1 <= len \/ len = 0)
  BY <1>1
<1>4. Len(SubSeq(p, 1, len)) = len
  BY <1>2, <1>3
<1>5. ASSUME NEW k \in 1..len PROVE SubSeq(p, 1, len)[k] = p[k]
  <2>1. 1 + k - 1 = k
    OBVIOUS
  <2> QED BY <1>2, <1>3, <2>1
<1> QED BY <1>4, <1>5 DEF len

LEMMA FailsOrder ==
  ASSUME IInv, OrderInv, Fails
  PROVE  OrderInv'
BY SameWalk DEF Fails

-----------------------------------------------------------------------------
(* Down, along, and back up *)

LEMMA EnterOrder ==
  ASSUME IInv, OrderInv, NEW s \in Services, Enter(s)
  PROVE  OrderInv'
<1>1. CASE Fails
  BY <1>1, FailsOrder
<1>2. CASE ~Fails
  <2>1. /\ iterations = {} /\ recorded' = recorded \cup {s} /\ s \notin recorded
        /\ stack' = Append(stack, s) /\ iterations' = IterationsOf(s)
        /\ ahead' = IF stack = << >> THEN ahead \ {s} ELSE ahead
        /\ stack = << >> => s \in ahead
        /\ UNCHANGED <<input, wired, leaves, nodes, children, parents, result>>
        /\ result = "none"
    BY <1>2 DEF Enter, graph
  <2>2. stack \in Seq(Services) /\ Len(stack) \in Nat /\ recorded \subseteq Services
    BY LenProperties DEF IInv, TypeOK
  <2>3. /\ stack' # << >> /\ Len(stack') = Len(stack) + 1 /\ stack'[Len(stack) + 1] = s
        /\ \A k \in 1..Len(stack) : stack'[k] = stack[k]
    BY <2>1, <2>2, AppendProperties, EmptySeq
  <2>4. Current' = s /\ IterationsOf(s)' = IterationsOf(s)
    BY <2>1, <2>3 DEF Current, IterationsOf
  <2>5. Iterated(s)' = {} /\ \A q \in recorded : Iterated(q)' = Iterated(q)
    BY <2>1, <2>4 DEF Iterated, IterationsOf
  <2>6. WalkInv'
    <3>1. \A k \in 1..Len(stack') : stack'[k] \in recorded'
      BY <2>1, <2>2, <2>3 DEF OrderInv, WalkInv
    <3>2. \A j, k \in 1..Len(stack') : stack'[j] = stack'[k] => j = k
      BY <2>1, <2>2, <2>3 DEF OrderInv, WalkInv
    <3>3. \A q \in recorded' : (\E k \in 1..Len(stack') : stack'[k] = q)
                               \/ ChildrenOf(q)' \subseteq wired'
      <4> SUFFICES ASSUME NEW q \in recorded'
                   PROVE  (\E k \in 1..Len(stack') : stack'[k] = q) \/ ChildrenOf(q)' \subseteq wired'
        OBVIOUS
      <4>1. CASE q = s
        BY <4>1, <2>2, <2>3
      <4>2. CASE q # s
        <5>1. (\E k \in 1..Len(stack) : stack[k] = q) \/ ChildrenOf(q) \subseteq wired
          BY <4>2, <2>1 DEF OrderInv, WalkInv
        <5>2. ChildrenOf(q)' = ChildrenOf(q)
          BY <2>1 DEF ChildrenOf
        <5> QED BY <5>1, <5>2, <2>1, <2>2, <2>3
      <4> QED BY <4>1, <4>2
    <3>4. s \notin wired /\ ChildrenOf(s)' \cap wired = {}
      BY <2>1 DEF OrderInv, WalkInv, ChildrenOf
    <3>5. wired' \subseteq recorded' /\ \A c \in wired' : input'.parent[c] \in recorded'
      BY <2>1 DEF OrderInv, WalkInv
    <3> QED BY <2>1, <2>4, <3>1, <3>2, <3>3, <3>4, <3>5 DEF WalkInv
  <2>7. \A q \in recorded : \A stamp \in Iterated(q) : Made(q, stamp)'
    BY <2>1 DEF OrderInv, OwnInv, Made, LeavesIn, ParentsIn, ChildrenIn, Id, IsStampedGroup, Completes
  <2>8. \A n \in nodes : \A stamp : Id(Step(n), stamp)' = Id(Step(n), stamp)
    BY <2>1 DEF Id, IsStampedGroup
  <2>9. ~Accumulated
    BY <2>1 DEF Accumulated
  <2>10. OwnInv'
    <3>1. \A n \in nodes : /\ Service(n) \in recorded'
                           /\ \E stamp \in Iterated(Service(n))' : n = Id(Step(n), stamp)'
      BY <2>1, <2>5, <2>8 DEF OrderInv, OwnInv
    <3>2. \A n \in Ids : NoDeps(n)' => ~IntraServiceParent(n)'
      BY <2>1, <2>9 DEF OrderInv, OwnInv, NoDeps, IntraServiceParent
    <3> QED BY <2>1, <2>5, <2>7, <3>1, <3>2 DEF OwnInv, Service
  <2>11. WiredInv'
    BY <2>1 DEF OrderInv, WiredInv, NoDeps, SameStamp
  <2> QED BY <2>6, <2>10, <2>11 DEF OrderInv
<1> QED BY <1>1, <1>2

LEMMA IterateOrder ==
  ASSUME IInv, OrderInv, NEW stamp \in Stamps \cup {NoStamp}, Iterate(stamp),
         NEW s, s = Current
  PROVE  OrderInv'
<1>1. CASE Fails
  BY <1>1, FailsOrder
<1>2. CASE ~Fails
  <2> DEFINE new == NodesOf(s, stamp)
  <2>1. /\ result = "none" /\ stamp \in iterations
        /\ iterations' = iterations \ {stamp}
        /\ nodes' = nodes \cup new
        /\ children' = [n \in Ids |-> IF n \in new
             THEN children[n] \cup ChildrenIn(s, stamp, Step(n)) ELSE children[n]]
        /\ parents' = [n \in Ids |-> IF n \in new
             THEN parents[n] \cup ParentsIn(stamp, Step(n)) ELSE parents[n]]
        /\ leaves' = [leaves EXCEPT ![s] = @ \cup LeavesIn(s, stamp)]
        /\ UNCHANGED <<input, ahead, stack, recorded, wired, result>>
    BY <1>2 DEF Iterate
  <2>2. stack # << >> /\ s \in Services /\ stack \in Seq(Services) /\ Len(stack) \in Nat \ {0}
    BY <2>1, CurrentIsService, EmptySeq, LenProperties DEF IInv, TypeOK, TreeInv
  <2>3. s \in recorded /\ s \notin wired /\ ChildrenOf(s) \cap wired = {} /\ Current' = s
        /\ stamp \in IterationsOf(s)
    BY <2>1, <2>2 DEF OrderInv, WalkInv, Current
  <2>4. \A q \in Services : IterationsOf(q)' = IterationsOf(q)
    BY <2>1 DEF IterationsOf
  <2>5. \A q \in recorded \ {s} : Iterated(q)' = Iterated(q)
    BY <2>1, <2>3, <2>4 DEF Iterated, IInv, TypeOK
  <2>6. Iterated(s)' = Iterated(s) \cup {stamp}
    BY <2>1, <2>2, <2>3, <2>4 DEF Iterated
  \* A node of the iteration is its step's.
  <2>7. \A t \in Steps : Id(t, stamp) \in Ids /\ Step(Id(t, stamp)) = t
    BY DEF Id, Ids, Step
  <2>8. new \subseteq Ids /\ \A n \in new : Step(n) \in StepsOf(s) /\ n = Id(Step(n), stamp)
    BY <2>7 DEF NodesOf, StepsOf
  <2>9. \A n \in Ids : parents[n] \subseteq parents'[n] /\ children[n] \subseteq children'[n]
    BY <2>1
  <2>10. /\ leaves \in [Services -> SUBSET nodes] /\ nodes \subseteq Ids
         /\ leaves'[s] = leaves[s] \cup LeavesIn(s, stamp)
         /\ \A q \in Services \ {s} : leaves'[q] = leaves[q]
    BY <2>1, <2>2 DEF IInv, TypeOK
  <2>11. \A t \in Steps : \A x : Id(t, x)' = Id(t, x)
    BY <2>1 DEF Id, IsStampedGroup
  <2>12. WalkInv'
    <3>1. iterations' # {} =>
            /\ iterations' \subseteq IterationsOf(Current)'
            /\ Current' \notin wired' /\ ChildrenOf(Current)' \cap wired' = {}
      BY <2>1, <2>3 DEF OrderInv, WalkInv, ChildrenOf, IterationsOf
    <3> QED BY <2>1, <3>1 DEF OrderInv, WalkInv, ChildrenOf
  <2>13. Made(s, stamp)'
    <3>1. LeavesIn(s, stamp)' = LeavesIn(s, stamp)
      BY <2>1 DEF LeavesIn, Id, IsStampedGroup, Completes
    <3>2. \A t \in StepsOf(s) : Id(t, stamp) \in new /\ Id(t, stamp) \in Ids /\ Step(Id(t, stamp)) = t
      BY <2>7 DEF NodesOf, StepsOf
    <3>3. \A t \in StepsOf(s) : ParentsIn(stamp, t)' = ParentsIn(stamp, t)
                                /\ ChildrenIn(s, stamp, t)' = ChildrenIn(s, stamp, t)
      BY <2>1 DEF ParentsIn, ChildrenIn, Id, IsStampedGroup
    <3>4. \A t \in StepsOf(s) : Id(t, stamp)' = Id(t, stamp)
      BY <2>11 DEF StepsOf
    <3>5. \A t \in StepsOf(s) : /\ ParentsIn(stamp, t) \subseteq parents'[Id(t, stamp)]
                                /\ ChildrenIn(s, stamp, t) \subseteq children'[Id(t, stamp)]
      BY <2>1, <3>2
    <3> QED BY <2>1, <2>10, <3>1, <3>2, <3>3, <3>4, <3>5 DEF Made
  <2>14. ASSUME NEW q \in recorded, NEW x \in Iterated(q)
         PROVE  Made(q, x)'
    <3>1. Made(q, x) /\ q \in Services
      BY DEF OrderInv, OwnInv, IInv, TypeOK
    <3>2. LeavesIn(q, x)' = LeavesIn(q, x) /\ leaves[q] \subseteq leaves'[q]
      BY <2>1, <2>10, <3>1 DEF LeavesIn, Id, IsStampedGroup, Completes
    <3>3. \A t \in StepsOf(q) : /\ ParentsIn(x, t)' = ParentsIn(x, t)
                                /\ ChildrenIn(q, x, t)' = ChildrenIn(q, x, t)
                                /\ Id(t, x)' = Id(t, x)
      BY <2>1 DEF ParentsIn, ChildrenIn, Id, IsStampedGroup
    <3> QED BY <2>1, <2>9, <2>10, <3>1, <3>2, <3>3 DEF Made
  <2>15. OwnInv'
    <3>1. \A q \in recorded' : \A x \in Iterated(q)' : Made(q, x)'
      BY <2>1, <2>5, <2>6, <2>13, <2>14
    <3>2. ASSUME NEW n \in nodes'
          PROVE  Service(n) \in recorded' /\ \E x \in Iterated(Service(n))' : n = Id(Step(n), x)'
      <4>1. CASE n \in new
        <5>1. Service(n) = s /\ Step(n) \in Steps
          BY <4>1, <2>8 DEF StepsOf, Service, Step
        <5> QED BY <4>1, <5>1, <2>1, <2>3, <2>6, <2>8, <2>11
      <4>2. CASE n \in nodes
        <5>1. Service(n) \in recorded /\ Step(n) \in Steps
          BY <4>2, <2>10 DEF OrderInv, OwnInv, Ids, Step
        <5>2. PICK x \in Iterated(Service(n)) : n = Id(Step(n), x)
          BY <4>2 DEF OrderInv, OwnInv
        <5>3. x \in Iterated(Service(n))'
          BY <5>1, <2>5, <2>6
        <5> QED BY <5>1, <5>2, <5>3, <2>1, <2>11
      <4> QED BY <2>1, <4>1, <4>2
    <3>3. ~Accumulated
      BY <2>2 DEF Accumulated
    <3>4. ASSUME NEW n \in Ids, NoDeps(n)'
          PROVE  ~IntraServiceParent(n)'
      <4>1. NoDeps(n) /\ ~IntraServiceParent(n)
        BY <2>1, <3>3, <3>4 DEF NoDeps, OrderInv, OwnInv
      <4>2. ParentsIn(stamp, Step(n)) = {}
        BY <4>1 DEF NoDeps, ParentsIn
      <4> QED BY <2>1, <4>1, <4>2 DEF IntraServiceParent, Service
    <3> QED BY <3>1, <3>2, <3>4 DEF OwnInv, Service
  <2>16. WiredInv'
    <3> SUFFICES ASSUME NEW c \in wired, NEW l \in leaves'[input.parent[c]], NEW n \in nodes',
                        Service(n) = c, NoDeps(n)', SameStamp(l, n)
                 PROVE  l \in parents'[n]
      BY <2>1 DEF WiredInv, Service, SameStamp, Stamp
    <3>1. n \notin new
      BY <2>3, <2>8 DEF StepsOf, Service, Step
    <3>2. c \in Services /\ input.parent[c] # s /\ input.parent[c] \in Services
      BY <2>3 DEF OrderInv, WalkInv, IInv, TypeOK, ChildrenOf
    <3>3. l \in leaves[input.parent[c]] /\ n \in nodes /\ NoDeps(n)
      BY <2>1, <2>10, <3>1, <3>2 DEF NoDeps
    <3> QED BY <2>9, <2>10, <3>3 DEF OrderInv, WiredInv
  <2> QED BY <2>12, <2>15, <2>16 DEF OrderInv
<1> QED BY <1>1, <1>2

LEMMA LeaveOrder ==
  ASSUME IInv, OrderInv, Leave, NEW s, s = Current, NEW up, up = stack[Len(stack) - 1]
  PROVE  OrderInv'
<1>1. /\ result = "none" /\ stack # << >> /\ iterations = {}
      /\ ChildrenOf(s) \subseteq wired
      /\ stack' = SubSeq(stack, 1, Len(stack) - 1)
      /\ UNCHANGED <<input, ahead, iterations, recorded, nodes, leaves, result>>
  BY DEF Leave
<1>2. /\ stack \in Seq(Services) /\ Len(stack) \in Nat \ {0}
      /\ s = stack[Len(stack)] /\ s \in Services
  BY <1>1, EmptySeq, LenProperties, ElementOfSeq DEF IInv, TypeOK, Current
<1>3. Len(stack') = Len(stack) - 1 /\ \A k \in 1..(Len(stack) - 1) : stack'[k] = stack[k]
  BY <1>1, <1>2, PopPath
<1>4. \A q \in Services : Iterated(q)' = Iterated(q)
  BY <1>1 DEF Iterated, IterationsOf
<1>5. ~Accumulated
  BY <1>1 DEF Accumulated
<1>6. \/ Len(stack) = 1 /\ UNCHANGED <<wired, children, parents>>
      \/ /\ Len(stack) # 1 /\ wired' = wired \cup {s}
         /\ children' = [n \in Ids |-> IF n \in leaves[up]
              THEN children[n] \cup {r \in Roots(s) : SameStamp(n, r)} ELSE children[n]]
         /\ parents' = [n \in Ids |-> IF n \in Roots(s)
              THEN parents[n] \cup {l \in leaves[up] : SameStamp(l, n)} ELSE parents[n]]
  BY DEF Leave
<1>7. \A n \in Ids : parents[n] \subseteq parents'[n] /\ children[n] \subseteq children'[n]
  BY <1>6
<1>8. Len(stack) # 1 => input.parent[s] = up /\ up \in Services /\ up \in recorded /\ up # s
  <2> SUFFICES ASSUME Len(stack) # 1
               PROVE  input.parent[s] = up /\ up \in Services /\ up \in recorded /\ up # s
    OBVIOUS
  <2>0. \A k \in Nat \ {0, 1} : k - 1 \in 1..(k - 1) /\ k - 1 \in 1..k /\ k \in 1..k /\ k - 1 + 1 = k
    OBVIOUS
  <2>1. /\ Len(stack) - 1 \in 1..(Len(stack) - 1) /\ Len(stack) - 1 \in 1..Len(stack)
        /\ Len(stack) \in 1..Len(stack) /\ Len(stack) - 1 + 1 = Len(stack)
    BY <1>2, <2>0
  <2>2. Len(stack) - 1 # Len(stack)
    BY <1>2
  <2>3. up \in Services
    BY <1>2, <2>1, ElementOfSeq
  <2>4. up \in recorded /\ up # s
    BY <1>2, <2>1, <2>2 DEF OrderInv, WalkInv
  <2>5. input.parent[stack[Len(stack) - 1 + 1]] = stack[Len(stack) - 1]
    BY <2>1 DEF IInv, TreeInv
  <2> QED BY <1>2, <2>1, <2>3, <2>4, <2>5
<1>9. WalkInv'
  <2>1. \A k \in 1..Len(stack') : stack'[k] \in recorded' /\ k \in 1..Len(stack)
    BY <1>1, <1>2, <1>3 DEF OrderInv, WalkInv
  <2>2. \A j, k \in 1..Len(stack') : stack'[j] = stack'[k] => j = k
    BY <1>2, <1>3, <2>1 DEF OrderInv, WalkInv
  <2>3. wired' \subseteq recorded' /\ \A c \in wired' : input'.parent[c] \in recorded'
    BY <1>1, <1>2, <1>6, <1>8 DEF OrderInv, WalkInv
  <2>4. ASSUME NEW q \in recorded
        PROVE  (\E k \in 1..Len(stack') : stack'[k] = q) \/ ChildrenOf(q)' \subseteq wired'
    <3>1. ChildrenOf(q)' = ChildrenOf(q) /\ wired \subseteq wired'
      BY <1>1, <1>6 DEF ChildrenOf
    <3>2. CASE q = s
      BY <3>2, <3>1, <1>1
    <3>3. CASE q # s /\ \E k \in 1..Len(stack) : stack[k] = q
      <4>1. PICK k \in 1..Len(stack) : stack[k] = q
        BY <3>3
      <4>2. k \in 1..(Len(stack) - 1)
        BY <4>1, <3>3, <1>2
      <4> QED BY <4>1, <4>2, <1>3
    <3>4. CASE ChildrenOf(q) \subseteq wired
      BY <3>1, <3>4
    <3> QED BY <3>2, <3>3, <3>4 DEF OrderInv, WalkInv
  <2> QED BY <1>1, <2>1, <2>2, <2>3, <2>4 DEF WalkInv
<1>10. OwnInv'
  <2>1. ASSUME NEW q \in recorded, NEW x \in Iterated(q)
        PROVE  Made(q, x)'
    <3>1. Made(q, x) /\ nodes \subseteq Ids
      BY DEF OrderInv, OwnInv, IInv, TypeOK
    <3> QED BY <1>1, <1>7, <3>1 DEF Made, LeavesIn, ParentsIn, ChildrenIn, Id, IsStampedGroup, Completes
  <2>2. ASSUME NEW n \in nodes
        PROVE  Service(n) \in recorded' /\ \E x \in Iterated(Service(n))' : n = Id(Step(n), x)'
    <3>1. Service(n) \in recorded /\ recorded \subseteq Services
      BY DEF OrderInv, OwnInv, IInv, TypeOK
    <3>2. PICK x \in Iterated(Service(n)) : n = Id(Step(n), x)
      BY DEF OrderInv, OwnInv
    <3>3. n = Id(Step(n), x)'
      BY <1>1, <3>2 DEF Id, IsStampedGroup
    <3> QED BY <1>1, <1>4, <3>1, <3>2, <3>3
  <2>3. ASSUME NEW n \in Ids, NoDeps(n)'
        PROVE  ~IntraServiceParent(n)'
    <3>1. NoDeps(n) /\ ~IntraServiceParent(n)
      BY <1>1, <1>5, <2>3 DEF NoDeps, OrderInv, OwnInv
    <3>2. \A p \in parents'[n] : p \in parents[n] \/ (Service(p) = up /\ up # s /\ Service(n) = s)
      BY <1>6, <1>8 DEF Roots, IInv, TreeInv
    <3> QED BY <3>1, <3>2 DEF IntraServiceParent, Service
  <2> QED BY <1>1, <1>4, <2>1, <2>2, <2>3 DEF OwnInv, Service, IInv, TypeOK
<1>11. WiredInv'
  <2> SUFFICES ASSUME NEW c \in wired', NEW l \in leaves[input.parent[c]], NEW n \in nodes,
                      Service(n) = c, NoDeps(n), SameStamp(l, n)
               PROVE  l \in parents'[n]
    BY <1>1 DEF WiredInv, Service, SameStamp, Stamp, NoDeps
  <2>1. n \in Ids
    BY DEF IInv, TypeOK
  <2>2. CASE c \in wired
    BY <1>7, <2>1, <2>2 DEF OrderInv, WiredInv
  <2>3. CASE c \notin wired
    <3>1. c = s /\ Len(stack) # 1
      BY <1>6, <2>3
    <3>2. n \in Roots(s)
      BY <1>5, <2>1, <3>1 DEF Roots, OrderInv, OwnInv
    <3>3. l \in leaves[up]
      BY <1>8, <3>1
    <3> QED BY <1>6, <2>1, <3>1, <3>2, <3>3
  <2> QED BY <2>2, <2>3
<1> QED BY <1>9, <1>10, <1>11 DEF OrderInv

LEMMA LinkOrder ==
  ASSUME IInv, OrderInv, NEW n \in Ids, Link(n)
  PROVE  OrderInv'
<1>1. CASE Fails
  BY <1>1, FailsOrder
<1>2. CASE ~Fails
  <2>1. /\ Accumulated /\ result = "none"
        /\ children' = [m \in Ids |-> IF m \in ExternalParents(n) \ {n}
                                        THEN children[m] \cup {n} ELSE children[m]]
        /\ parents' = [parents EXCEPT ![n] = @ \cup ExternalParents(n)]
        /\ UNCHANGED <<input, tree, nodes, result>>
    BY <1>2 DEF Link
  <2>2. \A m \in Ids : parents[m] \subseteq parents'[m] /\ children[m] \subseteq children'[m]
    BY <2>1 DEF IInv, TypeOK
  <2>3. OwnInv' /\ WiredInv'
    BY <2>1, <2>2, MoreEdges DEF OrderInv, tree
  <2>4. WalkInv'
    BY <2>1 DEF OrderInv, WalkInv, tree, ChildrenOf, Current, IterationsOf
  <2> QED BY <2>3, <2>4 DEF OrderInv
<1> QED BY <1>1, <1>2

LEMMA InitOrder == Init => OrderInv
<1> SUFFICES ASSUME Init PROVE OrderInv
  OBVIOUS
<1>1. Len(stack) = 0
  BY EmptySeq DEF Init
<1>2. WalkInv
  BY <1>1 DEF Init, WalkInv
<1>3. OwnInv /\ WiredInv
  BY DEF Init, OwnInv, WiredInv, IntraServiceParent
<1> QED BY <1>2, <1>3 DEF OrderInv

LEMMA NextOrder == IInv /\ OrderInv /\ [Next]_vars => OrderInv'
<1> SUFFICES ASSUME IInv, OrderInv, [Next]_vars
             PROVE  OrderInv'
  OBVIOUS
<1>1. CASE Detect
  <2>1. stack = << >> /\ UNCHANGED <<input, tree, graph>> /\ (result' = "ok" => Acyclic(nodes, children))
    BY <1>1 DEF Detect, Accumulated
  <2> QED BY <2>1, SameWalk
<1>2. CASE UNCHANGED vars
  BY <1>2, SameWalk DEF vars, OrderInv, WalkInv
<1>3. ASSUME NEW stamp \in Stamps \cup {NoStamp}, Iterate(stamp)
      PROVE  OrderInv'
  BY <1>3, IterateOrder
<1>4. CASE Leave
  BY <1>4, LeaveOrder
<1> QED BY <1>1, <1>2, <1>3, <1>4, EnterOrder, LinkOrder DEF Next

\* The walk visits each service once, below its parent, and ties the first steps of
\* a service to the last of its parent's before it is done with it (accumulate,
\* wireInterServiceEdges).
THEOREM OrderInvariant == Spec => [](IInv /\ OrderInv)
<1> QED BY BuildInvariant, InitOrder, NextOrder, PTL DEF Spec

-----------------------------------------------------------------------------
(* Completion *)

\* Forwards or backwards: a finite set that is never left towards what precedes has
\* a part that is never left towards what follows.
LEMMA CircularBackwards ==
  ASSUME NEW D, IsFiniteSet(D), D # {}, NEW succ,
         \A d \in D : \E e \in D : d \in succ[e]
  PROVE  \E E \in SUBSET D : Circular(E, succ)
<1> DEFINE Closed == {E \in SUBSET D : E # {} /\ \A d \in E : \E e \in E : d \in succ[e]}
<1>1. Closed \subseteq SUBSET D /\ D \in Closed
  OBVIOUS
<1>2. IsWellFoundedOn(StrictSubsetOrdering(D), SUBSET D)
  BY FS_StrictSubsetOrderingWellFounded, FS_FiniteSubsetsOfFinite
<1>3. PICK E \in Closed : \A F \in Closed : <<F, E>> \notin StrictSubsetOrdering(D)
  <2> HIDE DEF Closed
  <2> QED BY <1>1, <1>2, WFMin
<1>4. \A F \in Closed : F \subseteq E => F = E
  BY <1>1, <1>3 DEF StrictSubsetOrdering
<1>5. ASSUME NEW e \in E, succ[e] \cap E = {}
      PROVE  FALSE
  <2>1. \A d \in E \ {e} : \E f \in E \ {e} : d \in succ[f]
    BY <1>5
  <2>2. E \ {e} # {}
    <3>1. PICK f \in E : e \in succ[f]
      OBVIOUS
    <3> QED BY <1>5, <3>1
  <2>3. E \ {e} \in Closed
    BY <2>1, <2>2
  <2> HIDE DEF Closed
  <2> QED BY <1>4, <2>3
<1> QED BY <1>5 DEF Circular

Compatible(x, y) == x = y \/ x = NoStamp \/ y = NoStamp

\* What holds of a graph that is let through.
Finished ==
  /\ \A q \in recorded : ChildrenOf(q) \subseteq wired
  /\ wired \subseteq recorded /\ recorded \subseteq Services
  /\ \A q \in recorded : \A stamp \in IterationsOf(q) : Made(q, stamp)
  /\ \A n \in nodes : /\ Service(n) \in recorded
                      /\ \E stamp \in IterationsOf(Service(n)) : n = Id(Step(n), stamp)
  /\ WiredInv
  /\ Acyclic(nodes, children)
  /\ \A n \in nodes : Step(n) \in Steps
  /\ \A t \in Steps : input.deps[t] \subseteq StepsOf(ServiceOf[t])
  /\ NoStamp \notin input.stamps

LEMMA OkIsFinished == IInv /\ OrderInv /\ result = "ok" => Finished
<1> SUFFICES ASSUME IInv, OrderInv, result = "ok" PROVE Finished
  OBVIOUS
<1>1. stack = << >> /\ Acyclic(nodes, children) /\ iterations = {}
  BY DEF OrderInv, WalkInv, IInv, TreeInv
<1>2. \A q \in Services : Iterated(q) = IterationsOf(q)
  BY <1>1 DEF Iterated
<1>3. \A q \in recorded : ChildrenOf(q) \subseteq wired
  BY <1>1, EmptySeq DEF OrderInv, WalkInv
<1>4. /\ wired \subseteq recorded /\ recorded \subseteq Services /\ WiredInv
      /\ nodes \subseteq Ids
  BY DEF OrderInv, WalkInv, IInv, TypeOK
<1>5. /\ \A q \in recorded : \A stamp \in IterationsOf(q) : Made(q, stamp)
      /\ \A n \in nodes : /\ Service(n) \in recorded
                          /\ \E stamp \in IterationsOf(Service(n)) : n = Id(Step(n), stamp)
  BY <1>2, <1>4 DEF OrderInv, OwnInv
<1>6. /\ \A n \in nodes : Step(n) \in Steps
      /\ \A t \in Steps : input.deps[t] \subseteq StepsOf(ServiceOf[t])
      /\ NoStamp \notin input.stamps
  BY <1>4, SentinelsAssumption DEF IInv, TypeOK, IsInput, Ids, Step, StepsOf
<1> QED BY <1>1, <1>3, <1>4, <1>5, <1>6 DEF Finished

\* Whatever waits for an iteration's leaves waits for each step of it that counts.
LEMMA LeavesAreLast ==
  ASSUME Finished, NEW q \in recorded, NEW stamp \in IterationsOf(q),
         NEW U \in WaitedFor, LeavesIn(q, stamp) \subseteq U,
         NEW t \in StepsOf(q), Completes(t)
  PROVE  Id(t, stamp) \in U
<1> DEFINE late == {u \in StepsOf(q) : Completes(u) /\ Id(u, stamp) \notin U}
           C    == {Id(u, stamp) : u \in late}
<1>1. Made(q, stamp) /\ Acyclic(nodes, children)
  BY DEF Finished
<1>2. C \subseteq nodes
  BY <1>1 DEF Made
<1>3. ASSUME NEW u \in late
      PROVE  \E v \in late : Id(v, stamp) \in children[Id(u, stamp)]
  <2>1. Id(u, stamp) \notin LeavesIn(q, stamp)
    OBVIOUS
  <2>2. PICK v \in StepsOf(q) : u \in input.deps[v] /\ Completes(v)
    BY <2>1 DEF LeavesIn
  <2>3. Id(u, stamp) \in parents[Id(v, stamp)]
    BY <1>1, <2>2 DEF Made, ParentsIn
  <2>4. Id(v, stamp) \notin U
    BY <2>3 DEF WaitedFor
  <2>5. Id(v, stamp) \in children[Id(u, stamp)]
    BY <1>1, <2>2 DEF Made, ChildrenIn
  <2> QED BY <2>2, <2>4, <2>5
<1>4. C # {} => Circular(C, children)
  BY <1>3 DEF Circular
<1>5. C = {}
  BY <1>1, <1>2, <1>4 DEF Acyclic
<1> QED BY <1>5

\* Whoever waits for what an iteration's step waits for waits for what one of its
\* first steps waits for.
LEMMA FirstStepsFirst ==
  ASSUME Finished, NEW c \in recorded, NEW stamp \in IterationsOf(c),
         NEW U \in WaitedFor, NEW t \in StepsOf(c), parents[Id(t, stamp)] \subseteq U
  PROVE  \E u \in StepsOf(c) : input.deps[u] = {} /\ parents[Id(u, stamp)] \subseteq U
<1> SUFFICES ASSUME \A u \in StepsOf(c) : parents[Id(u, stamp)] \subseteq U => input.deps[u] # {}
             PROVE  FALSE
  OBVIOUS
<1> DEFINE D    == {u \in StepsOf(c) : parents[Id(u, stamp)] \subseteq U}
           succ == [u \in Steps |-> {v \in StepsOf(c) : u \in input.deps[v]}]
<1>1. Made(c, stamp) /\ Acyclic(nodes, children)
  BY DEF Finished
<1>2. IsFiniteSet(D) /\ D # {} /\ D \subseteq Steps
  <2>1. D \in SUBSET Steps
    BY DEF StepsOf
  <2> QED BY <2>1, FS_Subset, StepsAssumption
<1>3. ASSUME NEW u \in D
      PROVE  \E d \in D : u \in succ[d]
  <2>1. PICK d : d \in input.deps[u]
    OBVIOUS
  <2>2. d \in StepsOf(c) /\ d \in Steps
    BY <2>1 DEF Finished, StepsOf
  <2>3. Id(d, stamp) \in U
    BY <1>1, <2>1 DEF Made, ParentsIn
  <2>4. d \in D
    BY <2>2, <2>3 DEF WaitedFor
  <2> QED BY <2>1, <2>2, <2>4
<1>4. PICK E \in SUBSET D : Circular(E, succ)
  <2> HIDE DEF D, succ
  <2> QED BY <1>2, <1>3, CircularBackwards
<1> DEFINE C == {Id(u, stamp) : u \in E}
<1>5. C \subseteq nodes /\ C # {}
  BY <1>1, <1>4 DEF Made, Circular
<1>6. ASSUME NEW u \in E
      PROVE  \E v \in E : Id(v, stamp) \in children[Id(u, stamp)]
  <2>1. PICK v \in E : v \in succ[u]
    BY <1>4 DEF Circular
  <2>2. u \in StepsOf(c) /\ v \in StepsOf(c) /\ u \in input.deps[v]
    BY <1>2, <2>1
  <2> QED BY <1>1, <2>2 DEF Made, ChildrenIn
<1>7. Circular(C, children)
  BY <1>5, <1>6 DEF Circular
<1> QED BY <1>1, <1>5, <1>7 DEF Acyclic

\* Nodes that are for the same stamp come from iterations that are.
LEMMA Paired ==
  ASSUME Finished, NEW a \in recorded, NEW c \in recorded, NEW l \in nodes, NEW n \in nodes,
         Service(l) = a, Service(n) = c, SameStamp(l, n)
  PROVE  \E x \in IterationsOf(a), y \in IterationsOf(c) :
           l = Id(Step(l), x) /\ n = Id(Step(n), y) /\ Compatible(x, y)
<1>1. PICK x \in IterationsOf(a) : l = Id(Step(l), x)
  BY DEF Finished
<1>2. PICK y \in IterationsOf(c) : n = Id(Step(n), y)
  BY DEF Finished
<1>3. CASE x = NoStamp \/ y = NoStamp
  BY <1>1, <1>2, <1>3 DEF Compatible
<1>4. CASE x # NoStamp /\ y # NoStamp
  <2>1. IterationsOf(a) = input.stamps /\ IterationsOf(c) = input.stamps
    BY <1>4 DEF IterationsOf
  <2>2. CASE Stamp(l) = NoStamp
    <3>1. l = Id(Step(l), y)
      BY <1>1, <1>4, <2>2 DEF Id, Stamp
    <3> QED BY <1>2, <2>1, <3>1 DEF Compatible
  <2>3. CASE Stamp(n) = NoStamp
    <3>1. n = Id(Step(n), x)
      BY <1>2, <1>4, <2>3 DEF Id, Stamp
    <3> QED BY <1>1, <2>1, <3>1 DEF Compatible
  <2>4. CASE Stamp(n) = Stamp(l) /\ Stamp(l) # NoStamp
    <3>1. Stamp(l) = x /\ Stamp(n) = y
      BY <1>1, <1>2, <2>4 DEF Id, Stamp
    <3> QED BY <1>1, <1>2, <2>4, <3>1 DEF Compatible
  <2> QED BY <2>2, <2>3, <2>4 DEF SameStamp
<1> QED BY <1>3, <1>4

LEMMA SameStampOf ==
  ASSUME NEW x, NEW y, Compatible(x, y), NEW t, NEW u
  PROVE  SameStamp(Id(t, x), Id(u, y))
BY DEF Compatible, SameStamp, Id, Stamp

\* The wiring: a step of a child waits for the steps of its parent that count.
LEMMA ChildAfterParent ==
  ASSUME Finished, NEW q \in recorded, NEW c \in ChildrenOf(q),
         NEW x \in IterationsOf(q), NEW y \in IterationsOf(c), Compatible(x, y),
         NEW t \in StepsOf(c), NEW U \in WaitedFor, parents[Id(t, y)] \subseteq U,
         NEW w \in StepsOf(q), Completes(w)
  PROVE  Id(w, x) \in U
<1>1. c \in wired /\ c \in recorded /\ input.parent[c] = q
  BY DEF Finished, ChildrenOf
<1>2. PICK u \in StepsOf(c) : input.deps[u] = {} /\ parents[Id(u, y)] \subseteq U
  BY <1>1, FirstStepsFirst
<1>3. Id(u, y) \in nodes /\ LeavesIn(q, x) \subseteq leaves[q]
  BY <1>1, <1>2 DEF Finished, Made
<1>4. Service(Id(u, y)) = c /\ NoDeps(Id(u, y))
  BY <1>2 DEF Service, NoDeps, Step, Id, StepsOf
<1>5. \A l \in LeavesIn(q, x) : SameStamp(l, Id(u, y))
  BY SameStampOf DEF LeavesIn
<1>6. LeavesIn(q, x) \subseteq parents[Id(u, y)]
  BY <1>1, <1>3, <1>4, <1>5 DEF Finished, WiredInv
<1> QED BY <1>2, <1>6, LeavesAreLast

\* Between two iterations that go together there is one of any service that goes
\* with both.
LEMMA Through ==
  ASSUME Finished, NEW a \in recorded, NEW q \in recorded, NEW c \in recorded,
         NEW x \in IterationsOf(a), NEW y \in IterationsOf(c), Compatible(x, y)
  PROVE  \E z \in IterationsOf(q) : Compatible(x, z) /\ Compatible(z, y)
<1>1. CASE IterationsOf(q) = {NoStamp}
  BY <1>1 DEF Compatible
<1>2. CASE IterationsOf(q) = input.stamps /\ input.stamps # {}
  <2>1. CASE x \in input.stamps
    BY <1>2, <2>1 DEF Compatible
  <2>2. CASE x = NoStamp /\ y \in input.stamps
    BY <1>2, <2>2 DEF Compatible
  <2>3. CASE x = NoStamp /\ y = NoStamp
    BY <1>2, <2>3 DEF Compatible
  <2> QED BY <2>1, <2>2, <2>3 DEF IterationsOf
<1> QED BY <1>1, <1>2 DEF IterationsOf

\* No step of a service starts before those that count of each service above it, for
\* its own stamp, are done (findLeaves, findChildRoots, wireInterServiceEdges).
THEOREM CompletesFirst == Spec => []CompletionFirst
<1>1. IInv /\ OrderInv => CompletionFirst
  <2> SUFFICES ASSUME IInv, OrderInv, result = "ok", NEW a \in recorded, NEW s \in recorded,
                      Between(a, s)
               PROVE  \A n \in nodes : Service(n) = s =>
                        \A l \in nodes : Service(l) = a /\ Completes(Step(l)) /\ SameStamp(l, n) =>
                          \A U \in WaitedFor : parents[n] \subseteq U => l \in U
    BY DEF CompletionFirst
  <2>1. Finished
    BY OkIsFinished
  <2> DEFINE Good == {c \in wired : \A n \in nodes : Service(n) = c =>
                        \A l \in nodes : Service(l) = a /\ Completes(Step(l)) /\ SameStamp(l, n) =>
                          \A U \in WaitedFor : parents[n] \subseteq U => l \in U}
  <2>2. \A m \in nodes : Step(m) \in StepsOf(Service(m))
    BY <2>1 DEF Finished, StepsOf, Service, Step
  <2>3. ASSUME NEW c \in ChildrenOf(a)
        PROVE  c \in Good
    <3>1. c \in wired /\ c \in recorded
      BY <2>1 DEF Finished
    <3> SUFFICES ASSUME NEW n \in nodes, Service(n) = c, NEW l \in nodes, Service(l) = a,
                        Completes(Step(l)), SameStamp(l, n),
                        NEW U \in WaitedFor, parents[n] \subseteq U
                 PROVE  l \in U
      BY <3>1
    <3>2. PICK x \in IterationsOf(a), y \in IterationsOf(c) :
            l = Id(Step(l), x) /\ n = Id(Step(n), y) /\ Compatible(x, y)
      BY <2>1, <3>1, Paired
    <3> QED BY <2>1, <2>2, <3>2, ChildAfterParent
  <2>4. ASSUME NEW q \in Good, NEW v \in StepsOf(q), Completes(v), NEW c \in ChildrenOf(q)
        PROVE  c \in Good
    <3>1. q \in recorded /\ c \in wired /\ c \in recorded
      BY <2>1 DEF Finished
    <3> SUFFICES ASSUME NEW n \in nodes, Service(n) = c, NEW l \in nodes, Service(l) = a,
                        Completes(Step(l)), SameStamp(l, n),
                        NEW U \in WaitedFor, parents[n] \subseteq U
                 PROVE  l \in U
      BY <3>1
    <3>2. PICK x \in IterationsOf(a), y \in IterationsOf(c) :
            l = Id(Step(l), x) /\ n = Id(Step(n), y) /\ Compatible(x, y)
      BY <2>1, <3>1, Paired
    <3>3. PICK z \in IterationsOf(q) : Compatible(x, z) /\ Compatible(z, y)
      BY <2>1, <3>1, <3>2, Through
    <3>4. Id(v, z) \in U
      BY <2>1, <2>2, <2>4, <3>1, <3>2, <3>3, ChildAfterParent
    <3>5. parents[Id(v, z)] \subseteq U
      BY <3>4 DEF WaitedFor
    <3>6. Id(v, z) \in nodes /\ Service(Id(v, z)) = q
      BY <2>1, <3>1, <3>3 DEF Finished, Made, Service, Id, StepsOf
    <3>7. SameStamp(l, Id(v, z))
      BY <3>2, <3>3, SameStampOf
    <3> QED BY <3>5, <3>6, <3>7
  <2>5. Good \in SUBSET Services
    BY <2>1 DEF Finished
  <2>6. s \in Good
    <3> HIDE DEF Good
    <3> QED BY <2>3, <2>4, <2>5 DEF Between
  <2> QED BY <2>6
<1> QED BY <1>1, OrderInvariant, PTL
=============================================================================
