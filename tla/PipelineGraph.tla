---------------------------- MODULE PipelineGraph ----------------------------
(***************************************************************************)
(* pipelines/graph/graph.go: how the steps of the pipelines of a topology  *)
(* become one execution graph.  accumulate walks the tree of services and, *)
(* for each, adds the nodes of its pipeline once per stamp, and on the way *)
(* back ties the roots of a child service to the leaves of its parent;     *)
(* addExternalDependencyEdges then adds the dependencies between services  *)
(* that steps declare; detectCycles, which is module CycleDetection, has   *)
(* the last word.                                                          *)
(*                                                                         *)
(* The tree is what module CombinedTopology builds.  The code's maps and   *)
(* sorted slices are sets, and what it does once per element of one        *)
(* happens in any order.  Pipelines are those that Pipeline.Validate       *)
(* passes: the dependencies of a step exist.                               *)
(***************************************************************************)
EXTENDS Acyclicity, Sequences, Integers, FiniteSets

CONSTANTS
  Services, NoService,
  Steps,               \* the steps of all pipelines
  ServiceOf, GroupOf,  \* the service and the resource group of a step
  Groups,              \* names of resource groups
  Stamps, NoStamp,
  Inputs               \* what the graph may be built from: records as below

(***************************************************************************)
(* parent is the topology and entrypoints the services to start from;      *)
(* stamped are the services for which IsStamped, and stamps the stamps     *)
(* there are pipelines for, none of them in ForEntrypoints; loaded are the *)
(* services that have a pipeline.  A service's pipeline declares its       *)
(* resource groups as stamped or not, with some meta data, and may         *)
(* provision a subscription.  deps are Dependencies and RequiredInputs,    *)
(* external the ExternalDependencies, and omitted the steps with           *)
(* omitFromServiceGroupCompletion.                                         *)
(***************************************************************************)
IsInput(i) ==
  /\ i.parent \in [Services -> Services \cup {NoService}]
  /\ i.entrypoints \subseteq Services
  /\ i.stamped \subseteq Services /\ i.stamps \subseteq Stamps
  /\ i.loaded \subseteq Services
  /\ i.stampedGroups \in [Services -> SUBSET Groups]
  /\ DOMAIN i.meta = Services
  /\ i.provisions \subseteq Services
  /\ i.deps \in [Steps -> SUBSET Steps]
  /\ \A t \in Steps : \A d \in i.deps[t] : ServiceOf[d] = ServiceOf[t]
  /\ i.external \in [Steps -> SUBSET Steps]
  /\ i.omitted \subseteq Steps

ASSUME StepsAssumption == /\ IsFiniteSet(Steps)
                          /\ ServiceOf \in [Steps -> Services]
                          /\ GroupOf \in [Steps -> Groups]
ASSUME SentinelsAssumption == NoStamp \notin Stamps /\ NoService \notin Services
ASSUME InputsAssumption == \A i \in Inputs : IsInput(i)

VARIABLES
  input,          \* never changed
  ahead,          \* entrypoints that are yet to be accumulated
  stack,          \* the services whose accumulate is under way
  iterations,     \* the stamps for which the last of them has no nodes yet
  recorded,       \* keys of Services
  wired,          \* services whose roots are tied to their parent's leaves
  groups,         \* ResourceGroups: sets of <<name, stamp, meta>>
  groupStamped,   \* resourceGroupStamped
  subscription,   \* a subscription is provisioned
  nodes, children, parents,
  leaves,         \* allLeaves of each service
  unlinked,       \* nodes that addExternalDependencyEdges has to visit
  result

tree  == <<ahead, stack, iterations, recorded, wired, groups, groupStamped,
           subscription, leaves>>
graph == <<nodes, children, parents>>
vars  == <<input, tree, graph, unlinked, result>>

Ids == Steps \X (Stamps \cup {NoStamp})

Step(n)    == n[1]
Stamp(n)   == n[2]
Service(n) == ServiceOf[n[1]]

TypeOK ==
  /\ IsInput(input)
  /\ ahead \subseteq Services /\ stack \in Seq(Services)
  /\ iterations \subseteq Stamps \cup {NoStamp}
  /\ recorded \subseteq Services /\ wired \subseteq Services
  /\ groupStamped \in [Groups -> {"unknown", "stamped", "unstamped"}]
  /\ subscription \in BOOLEAN
  /\ nodes \subseteq Ids
  /\ children \in [Ids -> SUBSET Ids] /\ parents \in [Ids -> SUBSET Ids]
  /\ leaves \in [Services -> SUBSET nodes]
  /\ unlinked \subseteq nodes
  /\ result \in {"none", "error", "cycle", "ok"}

Init ==
  /\ input \in Inputs
  /\ ahead = input.entrypoints /\ stack = << >> /\ iterations = {}
  /\ recorded = {} /\ wired = {} /\ groups = {}
  /\ groupStamped = [g \in Groups |-> "unknown"]
  /\ subscription = FALSE
  /\ nodes = {}
  /\ children = [n \in Ids |-> {}] /\ parents = [n \in Ids |-> {}]
  /\ leaves = [s \in Services |-> {}]
  /\ unlinked = {}
  /\ result = "none"

Fails == result' = "error" /\ UNCHANGED <<input, tree, graph, unlinked>>

-----------------------------------------------------------------------------
(* The pipeline of one service: nodesFor, findLeaves, registerResourceGroup *)

IsStampedGroup(t) == GroupOf[t] \in input.stampedGroups[ServiceOf[t]]

\* Stamped resource groups use the stamp of the iteration.
Id(t, stamp) == <<t, IF IsStampedGroup(t) THEN stamp ELSE NoStamp>>

StepsOf(s)  == {t \in Steps : ServiceOf[t] = s}
GroupsOf(s) == {GroupOf[t] : t \in StepsOf(s)}

NodesOf(s, stamp) == {Id(t, stamp) : t \in StepsOf(s)}

\* Mutant: the children are taken from the iteration without a stamp.
ChildrenUnstamped(s, stamp, t) ==
  {Id(u, NoStamp) : u \in {u \in StepsOf(s) : t \in input.deps[u]}}

\* The children, in this iteration, of the node of step t.
ChildrenIn(s, stamp, t) ==
  {Id(u, stamp) : u \in {u \in StepsOf(s) : t \in input.deps[u]}}

ParentsIn(stamp, t) == {Id(d, stamp) : d \in input.deps[t]}

Completes(t) == t \notin input.omitted

\* Mutant: every step that is considered for completion is a leaf only if
\* nothing at all follows it.
LeavesWithoutChild(s, stamp) ==
  {Id(t, stamp) : t \in {t \in StepsOf(s) :
     Completes(t) /\ ~\E u \in StepsOf(s) : t \in input.deps[u]}}

\* findLeaves: considered for completion, and none of its children are.
LeavesIn(s, stamp) ==
  {Id(t, stamp) : t \in {t \in StepsOf(s) :
     Completes(t) /\ \A u \in StepsOf(s) : t \in input.deps[u] => ~Completes(u)}}

\* Mutant: unstamped groups are kept per stamp, too.
KeyedByStamp(s, stamp, g) == stamp

StampOfGroup(s, stamp, g) ==
  IF g \in input.stampedGroups[s] THEN stamp ELSE NoStamp

Kind(s, g) == IF g \in input.stampedGroups[s] THEN "stamped" ELSE "unstamped"

\* registerResourceGroup, and the two checks around it.
Conflicts(s, stamp) ==
  \/ s \notin input.stamped /\ \E g \in GroupsOf(s) : Kind(s, g) = "stamped"
  \/ \E g \in GroupsOf(s) : groupStamped[g] \notin {"unknown", Kind(s, g)}
  \/ \E g \in GroupsOf(s) : \E r \in groups :
       r[1] = g /\ r[2] = StampOfGroup(s, stamp, g) /\ r[3] # input.meta[s]
  \/ s \in input.provisions /\ subscription

-----------------------------------------------------------------------------
(* accumulate *)

Current == stack[Len(stack)]

ChildrenOf(s) == {c \in Services : input.parent[c] = s}

\* resolveIterations
IterationsOf(s) ==
  IF s \in input.stamped /\ input.stamps # {} THEN input.stamps ELSE {NoStamp}

Enter(s) ==
  /\ result = "none" /\ iterations = {}
  /\ \/ stack = << >> /\ s \in ahead
     \/ stack # << >> /\ s \in ChildrenOf(Current) \ wired
  /\ \/ s \notin input.loaded \ recorded /\ Fails
     \/ /\ s \notin recorded /\ s \in input.loaded
        /\ recorded' = recorded \cup {s}
        /\ stack' = Append(stack, s)
        /\ ahead' = IF stack = << >> THEN ahead \ {s} ELSE ahead
        /\ iterations' = IterationsOf(s)
        /\ UNCHANGED <<input, wired, groups, groupStamped, subscription,
                       leaves, graph, unlinked, result>>

\* accumulateIteration: registerNode merges the edges of nodes that every
\* iteration has.
Iterate(stamp) ==
  LET s == Current IN
  /\ result = "none" /\ stamp \in iterations
  /\ \/ Conflicts(s, stamp) /\ Fails
     \/ /\ ~Conflicts(s, stamp)
        /\ iterations' = iterations \ {stamp}
        /\ groups' = groups \cup {<<g, StampOfGroup(s, stamp, g), input.meta[s]>> :
                                    g \in GroupsOf(s)}
        /\ groupStamped' = [g \in Groups |->
             IF g \in GroupsOf(s) THEN Kind(s, g) ELSE groupStamped[g]]
        /\ subscription' = (subscription \/ s \in input.provisions)
        /\ nodes' = nodes \cup NodesOf(s, stamp)
        /\ children' = [n \in Ids |-> IF n \in NodesOf(s, stamp)
             THEN children[n] \cup ChildrenIn(s, stamp, Step(n)) ELSE children[n]]
        /\ parents' = [n \in Ids |-> IF n \in NodesOf(s, stamp)
             THEN parents[n] \cup ParentsIn(stamp, Step(n)) ELSE parents[n]]
        /\ leaves' = [leaves EXCEPT ![s] = @ \cup LeavesIn(s, stamp)]
        /\ UNCHANGED <<input, ahead, stack, recorded, wired, unlinked, result>>

\* Only matching stamps are wired; unstamped leaves and roots fan out.
SameStamp(leaf, root) ==
  Stamp(leaf) = NoStamp \/ Stamp(root) = NoStamp \/ Stamp(root) = Stamp(leaf)

\* hasIntraServiceParent
IntraServiceParent(n) == \E p \in parents[n] : Service(p) = Service(n)

\* Mutant: roots of any service.
RootsOfAll(s) == {n \in nodes : ~IntraServiceParent(n)}

\* findChildRoots
Roots(s) == {n \in nodes : Service(n) = s /\ ~IntraServiceParent(n)}

\* The end of accumulate, and wireInterServiceEdges in its caller.
Leave ==
  /\ result = "none" /\ stack # << >> /\ iterations = {}
  /\ ChildrenOf(Current) \subseteq wired
  /\ stack' = SubSeq(stack, 1, Len(stack) - 1)
  /\ IF Len(stack) = 1
       THEN /\ unlinked' = IF ahead = {} THEN nodes ELSE {}
            /\ UNCHANGED <<wired, children, parents>>
       ELSE LET from == leaves[stack[Len(stack) - 1]]
                to   == Roots(Current)
            IN  /\ wired' = wired \cup {Current}
                /\ children' = [n \in Ids |-> IF n \in from
                     THEN children[n] \cup {r \in to : SameStamp(n, r)}
                     ELSE children[n]]
                /\ parents' = [n \in Ids |-> IF n \in to
                     THEN parents[n] \cup {l \in from : SameStamp(l, n)}
                     ELSE parents[n]]
                /\ UNCHANGED unlinked
  /\ UNCHANGED <<input, ahead, iterations, recorded, groups, groupStamped,
                 subscription, nodes, leaves, result>>

-----------------------------------------------------------------------------
(* addExternalDependencyEdges *)

Accumulated == ahead = {} /\ stack = << >>

ExternalParent(n, d) ==
  <<d, IF groupStamped[GroupOf[d]] = "stamped" THEN Stamp(n) ELSE NoStamp>>

ExternalParents(n) == {ExternalParent(n, d) : d \in input.external[Step(n)]}

BadExternal(n, d) ==
  \/ groupStamped[GroupOf[d]] = "unknown"
  \/ /\ groupStamped[GroupOf[d]] = "stamped"
     /\ groupStamped[GroupOf[Step(n)]] = "unstamped"
  \/ ExternalParent(n, d) \notin nodes

\* The node was copied before its parents were changed, and the copy is
\* written back: a node that names itself loses the new child.
Link(n) ==
  /\ result = "none" /\ Accumulated /\ n \in unlinked
  /\ \/ (\E d \in input.external[Step(n)] : BadExternal(n, d)) /\ Fails
     \/ /\ ~\E d \in input.external[Step(n)] : BadExternal(n, d)
        /\ children' = [m \in Ids |-> IF m \in ExternalParents(n) \ {n}
                                        THEN children[m] \cup {n} ELSE children[m]]
        /\ parents' = [parents EXCEPT ![n] = @ \cup ExternalParents(n)]
        /\ unlinked' = unlinked \ {n}
        /\ UNCHANGED <<input, tree, nodes, result>>

\* detectCycles, by theorem DetectionCorrect of Definitions_proofs.
Detect ==
  /\ result = "none" /\ Accumulated /\ unlinked = {}
  /\ result' = IF Acyclic(nodes, children) THEN "ok" ELSE "cycle"
  /\ UNCHANGED <<input, tree, graph, unlinked>>

Next ==
  \/ \E s \in Services : Enter(s)
  \/ \E stamp \in Stamps \cup {NoStamp} : Iterate(stamp)
  \/ Leave
  \/ \E n \in Ids : Link(n)
  \/ Detect

Spec == Init /\ [][Next]_vars

-----------------------------------------------------------------------------
(* Safety *)

\* Children and Parents tell the same story, at every moment of the build and
\* across the merging of iterations, except for what Link does to a node that
\* names itself.
EdgesAgree ==
  \A m, n \in Ids : m # n => (m \in children[n] <=> n \in parents[m])

\* Edges lead to nodes that exist: detectCycles never meets a "could not find
\* child node".
EdgesOnNodes == \A n \in Ids : children[n] \cup parents[n] \subseteq nodes

\* A stamp's steps wait for steps of the same stamp only, or of none: stamps
\* can be rolled out side by side.
StampsApart ==
  \A n \in Ids : \A m \in children[n] :
    Stamp(m) = Stamp(n) \/ Stamp(m) = NoStamp \/ Stamp(n) = NoStamp

EdgesInv == EdgesAgree /\ EdgesOnNodes /\ StampsApart

\* registerResourceGroup compares a service with what is recorded under one
\* key: no two services of a graph disagree on a group they share, whichever
\* came first and whatever their stamps, and only one provisions a subscription.
SharedGroupsAgree ==
  result = "ok" =>
    \A s, q \in recorded :
      /\ \A g \in GroupsOf(s) \cap GroupsOf(q) :
           input.meta[s] = input.meta[q] /\ Kind(s, g) = Kind(q, g)
      /\ {s, q} \subseteq input.provisions => s = q

\* Sets of nodes that hold, with each node, those that it waits for.
WaitedFor == {U \in SUBSET nodes : \A m \in U : parents[m] \subseteq U}

\* Service s is below service a in the tree, and every service between them
\* has a step that counts for its completion.
Between(a, s) ==
  \A below \in SUBSET Services :
    /\ ChildrenOf(a) \subseteq below
    /\ \A q \in below :
         (\E t \in StepsOf(q) : Completes(t)) => ChildrenOf(q) \subseteq below
    => s \in below

\* The promise of wireInterServiceEdges: a step runs only after every step
\* that counts for the completion of a service above its own has run, for the
\* stamp it belongs to.
CompletionFirst ==
  result = "ok" =>
    LET waited == WaitedFor IN
    \A a, s \in recorded : Between(a, s) =>
      \A n \in nodes : Service(n) = s =>
        LET first == {l \in nodes : /\ Service(l) = a /\ Completes(Step(l))
                                    /\ SameStamp(l, n)}
        IN  \A U \in waited : parents[n] \subseteq U => first \subseteq U

\* What follows a step, as the pipelines and the tree of services say it.
After ==
  [t \in Steps |-> {u \in Steps :
     \/ t \in input.deps[u] \cup input.external[u]
     \/ ServiceOf[t] = input.parent[ServiceOf[u]]}]

\* A cycle is reported only when the steps themselves wait for each other:
\* expansion by stamps and the wiring of services bring no cycle of their own.
CyclesAreReal ==
  result = "cycle" => \E C \in SUBSET Steps : Circular(C, After)

-----------------------------------------------------------------------------
(* The inductive invariant *)

\* The stack is a path of the tree of services; there is one while iterations
\* are left; and what its services have collected as leaves is their own.
TreeInv ==
  /\ iterations # {} => stack # << >>
  /\ \A k \in 1..(Len(stack) - 1) : input.parent[stack[k + 1]] = stack[k]
  /\ \A s \in Services : \A l \in leaves[s] : Service(l) = s

\* No edge but what pipelines or the tree ask for; the verdict is about them.
DeclaredInv ==
  /\ \A n \in Ids : \A m \in children[n] : Step(m) \in After[Step(n)]
  /\ result = "cycle" => ~Acyclic(nodes, children)

IInv == TypeOK /\ TreeInv /\ EdgesInv /\ DeclaredInv

-----------------------------------------------------------------------------
(* What comments of the code promise *)

\* graph.go:804: a graph whose steps wait for each other is not let through.
CyclesAreDetected == result = "ok" => Acyclic(nodes, parents)
=============================================================================
