---------------------------- MODULE MeshLifecycle ----------------------------
(***************************************************************************)
(* What a cluster's mesh goes through, whoever drives it and whatever      *)
(* fails on the way: control planes are installed next to each other, the  *)
(* tag is switched between installed ones only, and a retirement keeps     *)
(* exactly one control plane, the one the tag points at.                   *)
(*                                                                         *)
(* An installation is written on what was read some time before.  What     *)
(* others have installed in between is lost, and nothing but that: never   *)
(* the control plane the tag points at, nor all that there was.            *)
(***************************************************************************)
EXTENDS Naturals, FiniteSets

CONSTANTS Revs,    \* the revisions that occur
          Others,  \* those that others may install next to the one there is
          None     \* no tag

VARIABLES installed,  \* the revisions ARM is told to run
          serving     \* the revision the tag points at

ServingInstalled == serving \in installed \cup {None}

LifecycleInit == installed \subseteq Revs /\ ServingInstalled

\* The latest to come may be lost, when they are somebody else's.
MayBeLost(lost) ==
  /\ lost \subseteq installed \cap Others
  /\ serving \notin lost
  /\ lost # {} => lost # installed
  /\ \A l \in lost : \A q \in installed \ lost : q < l

\* A newer control plane next to what was there, or the first one.
Install == /\ \E lost \in SUBSET installed, r \in Revs :
                 /\ MayBeLost(lost)
                 /\ \A q \in installed \ lost : q < r
                 /\ installed' = (installed \ lost) \cup {r}
           /\ serving' = serving

Switch  == \E r \in installed : serving' = r /\ installed' = installed

\* Irreversible: all other control planes go.
Retire  == /\ \E r \in installed : serving \in {r, None} /\ installed' = {r}
           /\ serving' = serving

LifecycleNext == Install \/ Switch \/ Retire

Lifecycle == LifecycleInit /\ [][LifecycleNext]_<<installed, serving>>
=============================================================================
