----------------------------- MODULE Acyclicity ------------------------------
(***************************************************************************)
(* When a finite graph, given by the successors of each node, has no       *)
(* cycle: every non-empty set of its nodes has one that leads nowhere      *)
(* inside the set.  The definition needs no paths, so that it can be       *)
(* evaluated and proved about without recursion.                           *)
(***************************************************************************)

\* C lies on cycles, or leads to one inside C.
Circular(C, succ) == C # {} /\ \A n \in C : succ[n] \cap C # {}

Acyclic(S, succ) == \A C \in SUBSET S : ~Circular(C, succ)
=============================================================================
