--------------------------- MODULE CycleDetection ---------------------------
(***************************************************************************)
(* detectCycles of pipelines/graph/graph.go: a depth-first search over the *)
(* Children of the nodes with three colours.  The recursion is a stack:    *)
(* path is the code's path, and todo[n] are the children that the call of  *)
(* visit(n) has not come to.  The code goes through nodes and children in  *)
(* the order of its slices; here any order will do.                        *)
(***************************************************************************)
EXTENDS Acyclicity, Sequences, Integers, FiniteSets

CONSTANT Ids     \* identifiers of steps

ASSUME IdsAssumption == IsFiniteSet(Ids)

VARIABLES
  nodes, children,     \* the graph: never changed here
  color, path, todo,
  answer               \* "none" while the search runs

cycleVars == <<nodes, children, color, path, todo, answer>>

Colors  == {"white", "gray", "black"}
Results == {"none", "acyclic", "cycle", "missing"}

CycleTypeOK ==
  /\ nodes \subseteq Ids
  /\ children \in [nodes -> SUBSET Ids]
  /\ color \in [nodes -> Colors]
  /\ path \in Seq(nodes)
  /\ todo \in [nodes -> SUBSET Ids]
  /\ answer \in Results

CycleInit ==
  /\ nodes \in SUBSET Ids
  /\ children \in [nodes -> SUBSET Ids]
  /\ color = [n \in nodes |-> "white"]
  /\ path = << >>
  /\ todo = [n \in nodes |-> {}]
  /\ answer = "none"

LastOnPath == path[Len(path)]

\* Mutant: a node that has been seen is not looked at again.
SeenBefore(n) == color[n] \in {"gray", "black"}
\* A node whose sub-graph has been searched.
Finished(n)   == color[n] = "black"

\* The beginning of visit(n), n white.
Visit(n) ==
  /\ color' = [color EXCEPT ![n] = "gray"]
  /\ path' = Append(path, n)

\* The loop over all nodes.
StartAt(n) ==
  /\ answer = "none" /\ path = << >>
  /\ color[n] = "white"
  /\ Visit(n)
  /\ todo' = [todo EXCEPT ![n] = children[n]]
  /\ UNCHANGED <<nodes, children, answer>>

\* The loop over the children of the node being visited.
Child(c) ==
  /\ answer = "none" /\ path # << >>
  /\ c \in todo[LastOnPath]
  /\ \/ /\ c \notin nodes
        /\ answer' = "missing"
        /\ UNCHANGED <<color, path, todo>>
     \/ /\ c \in nodes /\ Finished(c)
        /\ todo' = [todo EXCEPT ![LastOnPath] = @ \ {c}]
        /\ UNCHANGED <<color, path, answer>>
     \/ /\ c \in nodes /\ ~Finished(c) /\ color[c] = "gray"
        /\ answer' = "cycle"
        /\ UNCHANGED <<color, path, todo>>
     \/ /\ c \in nodes /\ color[c] = "white"
        /\ Visit(c)
        /\ todo' = [todo EXCEPT ![LastOnPath] = @ \ {c}, ![c] = children[c]]
        /\ UNCHANGED answer
  /\ UNCHANGED <<nodes, children>>

\* The end of visit(n).
Return ==
  /\ answer = "none" /\ path # << >>
  /\ todo[LastOnPath] = {}
  /\ color' = [color EXCEPT ![LastOnPath] = "black"]
  /\ path' = SubSeq(path, 1, Len(path) - 1)
  /\ UNCHANGED <<nodes, children, todo, answer>>

Done ==
  /\ answer = "none" /\ path = << >>
  /\ \A n \in nodes : color[n] # "white"
  /\ answer' = "acyclic"
  /\ UNCHANGED <<nodes, children, color, path, todo>>

CycleNext == \/ \E n \in nodes : StartAt(n)
             \/ \E c \in Ids : Child(c)
             \/ Return \/ Done

CycleSpec == CycleInit /\ [][CycleNext]_cycleVars

-----------------------------------------------------------------------------

Black == {n \in nodes : color[n] = "black"}
Gray  == {n \in nodes : color[n] = "gray"}

\* The search answers "cycle" only when there is one, and lets a graph through
\* only when it has neither a cycle nor an edge to a node that does not exist:
\* visit returns nil early for a black node, and this must lose no cycle.
DetectsExactly ==
  /\ answer = "cycle"   => \E C \in SUBSET nodes : Circular(C, children)
  /\ answer = "acyclic" => /\ Acyclic(nodes, children)
                           /\ \A n \in nodes : children[n] \subseteq nodes

-----------------------------------------------------------------------------
(* Why DetectsExactly holds *)

\* The stack is a path of the graph, and the gray nodes are those on it.
PathInv ==
  /\ Gray = {path[i] : i \in 1..Len(path)}
  /\ \A i \in 1..Len(path) - 1 : path[i + 1] \in children[path[i]]
  /\ \A i, j \in 1..Len(path) : path[i] = path[j] => i = j

\* A child that a visit has come to is black, but for the one it is in.
TodoInv ==
  \A i \in 1..Len(path) :
    /\ todo[path[i]] \subseteq children[path[i]]
    /\ \A m \in children[path[i]] \ todo[path[i]] :
         m \in Black \/ (i < Len(path) /\ m = path[i + 1])

\* Black nodes form an acyclic graph that nothing leads out of.
BlackInv ==
  /\ \A n \in Black : children[n] \subseteq Black
  /\ Acyclic(Black, children)

CycleIInv == CycleTypeOK /\ PathInv /\ TodoInv /\ BlackInv /\ DetectsExactly
=============================================================================
