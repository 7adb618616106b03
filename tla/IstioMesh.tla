------------------------------ MODULE IstioMesh ------------------------------
(***************************************************************************)
(* The cluster that istio-upgrade works on, as far as the tool can tell    *)
(* two clusters apart: what ARM lists, the istiod deployments, the tag     *)
(* webhook, the namespaces with their injection labels and sidecars, the   *)
(* per-revision ConfigMaps and the ingress gateway.                        *)
(*                                                                         *)
(* The actions of this module are everybody else: ARM finishing or failing *)
(* an operation, istiods coming and going, pods being rescheduled,         *)
(* rollouts converging, namespaces joining the mesh, another operator's    *)
(* canary.  None of it is code of the repository; the tool's assumptions   *)
(* about it are in the comments of pkg/istio.                              *)
(***************************************************************************)
EXTENDS Naturals, FiniteSets

CONSTANTS
  Revisions,     \* the revisions that occur, numbered in their order
  Namespaces,    \* the namespaces that are, or may come, in the mesh
  TagLabel,      \* the injection label that names the tag, e.g. prod-stable
  NoLabel,       \* a namespace without istio.io/rev
  NoRevision,    \* no revision: no tag webhook, no rollout under way
  TagMode,       \* whether the run is given a tag (opts.Tag # "")
  InitialRevs,   \* the revision sets a history may start from
  NsLabels,      \* the labels namespace owners use
  ForeignRevs,   \* revisions that somebody else may start a canary to
  MaxFaults      \* how many faults a behaviour may have

ASSUME RevisionsAssumption  == Revisions \subseteq Nat
ASSUME SentinelAssumption   == /\ NoRevision \notin Revisions
                               /\ {TagLabel, NoLabel} \cap Revisions = {}
                               /\ TagLabel # NoLabel
ASSUME TagModeAssumption    == TagMode \in BOOLEAN
ASSUME InitialAssumption    == \A S \in InitialRevs :
                                 S \subseteq Revisions /\ IsFiniteSet(S)
ASSUME NsLabelsAssumption   == NsLabels \subseteq Revisions \cup {TagLabel}
ASSUME ForeignAssumption    == ForeignRevs \subseteq Revisions
ASSUME MaxFaultsAssumption  == MaxFaults \in Nat

VARIABLES
  revs,      \* ServiceMeshProfile.Istio.Revisions, as ARM returns it
  prov,      \* the provisioning state of the cluster
  planes,    \* revisions with an istiod deployment and a revision webhook
  ready,     \* the planes whose istiod has all its replicas available
  tag,       \* the revision the tag webhook points at
  label,     \* label[ns]: the istio.io/rev label of ns
  sidecar,   \* sidecar[ns]: revisions of the sidecars of ns's running pods
  rolling,   \* rolling[ns]: the workloads of ns that are not on this revision
             \* were restarted and have not converged
  cm,        \* revisions with a MISE ext-authz ConfigMap
  pinned,    \* the ingress gateway carries the static IP annotations
  faults     \* faults that may still happen

aksVars   == <<revs, prov, planes, ready>>
kubeVars  == <<tag, label, sidecar, rolling, cm, pinned>>
meshVars  == <<aksVars, kubeVars>>

Labels == Revisions \cup {TagLabel}

Inject(ns) == IF label[ns] = TagLabel THEN tag ELSE label[ns]

InMesh(ns) == label[ns] # NoLabel

MeshTypeOK ==
  /\ revs \subseteq Revisions
  /\ prov \in {"Succeeded", "Updating", "Failed"}
  /\ planes \subseteq Revisions
  /\ ready \subseteq planes
  /\ tag \in Revisions \cup {NoRevision}
  /\ label \in [Namespaces -> Labels \cup {NoLabel}]
  /\ sidecar \in [Namespaces -> SUBSET Revisions]
  /\ rolling \in [Namespaces -> Revisions \cup {NoRevision}]
  /\ cm \subseteq Revisions
  /\ pinned \in BOOLEAN
  /\ faults \in 0..MaxFaults

(***************************************************************************)
(* A settled cluster: the tag, if the pipeline uses one, points at an      *)
(* installed revision, and pods carry installed sidecars.                  *)
(***************************************************************************)
MeshInit ==
  /\ revs \in InitialRevs
  /\ prov = "Succeeded"
  /\ planes = revs
  /\ ready = revs
  /\ tag \in IF TagMode /\ revs # {} THEN revs ELSE {NoRevision}
  /\ label \in [Namespaces ->
                  {l \in NsLabels : l \in revs \/ l = TagLabel} \cup {NoLabel}]
  /\ sidecar \in [Namespaces -> SUBSET revs]
  /\ \A ns \in Namespaces : label[ns] = NoLabel => sidecar[ns] = {}
  /\ rolling = [ns \in Namespaces |-> NoRevision]
  /\ cm = revs
  /\ pinned = FALSE
  /\ faults = MaxFaults

Fault == faults > 0 /\ faults' = faults - 1

-----------------------------------------------------------------------------
(* ARM *)

ArmDone ==
  /\ prov = "Updating"
  /\ prov' = "Succeeded"
  /\ planes' = revs
  /\ ready' = ready \cap revs
  /\ UNCHANGED <<revs, kubeVars, faults>>

\* The operation fails half-way or before it touched the istiods.
ArmFails ==
  /\ prov = "Updating"
  /\ Fault
  /\ prov' = "Failed"
  /\ planes' \in {planes, planes \cup revs}
  /\ UNCHANGED <<revs, ready, kubeVars>>

\* Somebody repairs a failed cluster; nothing says that they will.
Repair ==
  /\ prov = "Failed"
  /\ prov' = "Succeeded"
  /\ planes' = revs
  /\ ready' = ready \cap revs
  /\ UNCHANGED <<revs, kubeVars, faults>>

\* Somebody else starts a canary; ARM upgrades to newer revisions only, and
\* holds at most two.
ForeignCanary ==
  /\ prov = "Succeeded"
  /\ Cardinality(revs) = 1
  /\ \E r \in ForeignRevs : /\ \A q \in revs : q < r
                            /\ revs' = revs \cup {r}
  /\ Fault
  /\ prov' = "Updating"
  /\ UNCHANGED <<planes, ready, kubeVars>>

-----------------------------------------------------------------------------
(* istiods and pods *)

CpUp ==
  /\ \E r \in planes \ ready : ready' = ready \cup {r}
  /\ UNCHANGED <<revs, prov, planes, kubeVars, faults>>

CpDown ==
  /\ \E r \in ready : ready' = ready \ {r}
  /\ Fault
  /\ UNCHANGED <<revs, prov, planes, kubeVars>>

\* A pod of ns is created, and injected by the webhook its label selects.
PodStarts(ns) ==
  /\ Inject(ns) \in ready
  /\ sidecar' = [sidecar EXCEPT ![ns] = @ \cup {Inject(ns)}]
  /\ UNCHANGED <<aksVars, tag, label, rolling, cm, pinned, faults>>

\* The last pod of ns with a sidecar of revision r exits.
PodExits(ns) ==
  /\ \E r \in sidecar[ns] : sidecar' = [sidecar EXCEPT ![ns] = @ \ {r}]
  /\ UNCHANGED <<aksVars, tag, label, rolling, cm, pinned, faults>>

\* The restarted workloads of ns have come up: WaitForRollout counts updated
\* and ready replicas, so that old pods may be running still.
RolloutReady(ns) ==
  /\ rolling[ns] # NoRevision
  /\ Inject(ns) \in ready
  /\ rolling' = [rolling EXCEPT ![ns] = NoRevision]
  /\ \/ /\ sidecar' = [sidecar EXCEPT ![ns] =
                         (@ \cap {rolling[ns]}) \cup {Inject(ns)}]
        /\ UNCHANGED faults
     \/ /\ sidecar' = [sidecar EXCEPT ![ns] = @ \cup {Inject(ns)}]
        /\ Fault
  /\ UNCHANGED <<aksVars, tag, label, cm, pinned>>

\* The owner of ns puts it in the mesh.
NamespaceJoins(ns) ==
  /\ label[ns] = NoLabel
  /\ \E l \in NsLabels :
        /\ l \in planes \/ l = TagLabel
        /\ label' = [label EXCEPT ![ns] = l]
  /\ UNCHANGED <<aksVars, tag, sidecar, rolling, cm, pinned, faults>>

Environment ==
  \/ ArmDone \/ ArmFails \/ Repair \/ ForeignCanary
  \/ CpUp \/ CpDown
  \/ \E ns \in Namespaces :
       PodStarts(ns) \/ PodExits(ns) \/ RolloutReady(ns) \/ NamespaceJoins(ns)
=============================================================================
