----------------------------- MODULE ConfigPaths ------------------------------
(***************************************************************************)
(* What a configuration promises, path by path, whatever its depth and the *)
(* number of its layers.  A configuration is a function from the paths     *)
(* that are there; what is above a path is a map.  ConfigLayers has the    *)
(* trees and the recursion of config/types; seen by path, its merge is     *)
(* Overlay, and the precedence of the layers follows.                      *)
(***************************************************************************)
EXTENDS Naturals, Sequences

CONSTANTS Paths,     \* sequences of keys, the empty one among them
          MapHere    \* what is at a path that others go on from

VARIABLES layers,    \* the configurations, the weakest first
          level,     \* how many of them are merged
          cfg        \* the configuration so far

layersVars == <<layers, level, cfg>>

\* q is p or leads to it.
Leads(q, p) == DOMAIN q \subseteq DOMAIN p /\ \A k \in DOMAIN q : q[k] = p[k]

HasValue(c, p) == p \in DOMAIN c /\ c[p] # MapHere

\* Beyond a value there is nothing.
Ends(c, p) == \E q \in Paths : Leads(q, p) /\ HasValue(c, q)

IsConfiguration(c) ==
  /\ DOMAIN c \subseteq Paths
  /\ << >> \in DOMAIN c
  /\ \A p \in DOMAIN c, q \in Paths :
       Leads(q, p) /\ q # p => q \in DOMAIN c /\ ~HasValue(c, q)

JustAMap == [p \in {<< >>} |-> MapHere]

\* MergeConfiguration: what override says stands, and so does what base says of
\* paths that override does not end.
Overlay(base, override) ==
  [p \in DOMAIN override \cup {p \in DOMAIN base : ~Ends(override, p)} |->
     IF p \in DOMAIN override THEN override[p] ELSE base[p]]

LayersInit ==
  /\ \A i \in DOMAIN layers : IsConfiguration(layers[i])
  /\ level = 0 /\ cfg = JustAMap

MergeNext ==
  /\ level + 1 \in DOMAIN layers
  /\ level' = level + 1
  /\ cfg' = Overlay(cfg, layers[level + 1])
  /\ UNCHANGED layers

LayersSpec == LayersInit /\ [][MergeNext]_layersVars

-----------------------------------------------------------------------------
Says(i, p) == p \in DOMAIN layers[i]

\* Layer i says p, and no later one has a value there or on the way to it.
Stands(i, p) == Says(i, p) /\ \A j \in i + 1 .. level : ~Ends(layers[j], p)

(***************************************************************************)
(* At every depth a later layer wins where it says something, what it does *)
(* not mention survives, and a map that was replaced by a value does not   *)
(* shine through when a still later layer brings a map again.              *)
(***************************************************************************)
LastLayerWins ==
  /\ \A p \in Paths \ {<< >>} :
       p \in DOMAIN cfg <=> \E i \in 1 .. level : Stands(i, p)
  /\ \A p \in DOMAIN cfg, i \in 1 .. level :
       Says(i, p) /\ (\A j \in i + 1 .. level : ~Says(j, p)) => cfg[p] = layers[i][p]

\* What is merged is a configuration again: no path hangs in the air.
StaysConfiguration == IsConfiguration(cfg)

\* No layer has a value where others have a map on the way to p.
Straight(p) == \A i \in 1 .. level : Ends(layers[i], p) => Says(i, p)

(***************************************************************************)
(* The layers that say something of p account for the result: it is there  *)
(* if one of them does, and a value is that of the last that does.         *)
(***************************************************************************)
LayersExplain ==
  \A p \in Paths \ {<< >>} : Straight(p) =>
    /\ p \in DOMAIN cfg <=> \E i \in 1 .. level : Says(i, p)
    /\ \A i \in 1 .. level :
         Says(i, p) /\ (\A j \in i + 1 .. level : ~Says(j, p)) => cfg[p] = layers[i][p]

-----------------------------------------------------------------------------
\* What every step of the merge keeps.
LayersInv ==
  /\ level \in Nat /\ 1 .. level \subseteq DOMAIN layers
  /\ \A i \in DOMAIN layers : IsConfiguration(layers[i])
  /\ StaysConfiguration /\ LastLayerWins /\ LayersExplain
=============================================================================
