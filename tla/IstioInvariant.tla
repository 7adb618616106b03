--------------------------- MODULE IstioInvariant ----------------------------
(***************************************************************************)
(* Why the tag never points at a removed control plane: the strengthening  *)
(* of TagTargetsInstalled that every step of IstioUpgrade preserves.       *)
(***************************************************************************)
EXTENDS IstioUpgrade

Moving == {"flip", "restart", "rollout"}

\* Which function can be at which call.
PhaseOfStep ==
  /\ pc = "idle"                => phase = "none"
  /\ pc = "read"                => phase = "none"
  /\ pc = "inspect"             => phase \in {"install", "reconcile", "canary",
                                              "cleanup"}
  /\ pc \in {"cm", "planes", "tag", "ingress"}
                                => phase \in {"install", "reconcile", "canary",
                                              "cleanup"}
  /\ pc = "tag"                 => TagMode
  /\ pc = "tagcheck"            => phase = "canary"
  /\ pc \in Moving              => phase \in {"canary", "cleanup", "rollback"}
  /\ pc = "health"              => phase \in {"install", "canary", "cleanup"}
  /\ pc \in {"orphans", "delete", "verify"}
                                => phase \in {"canary", "cleanup"}
  /\ pc \in {"get", "put", "poll"} =>
       \/ op = "enable"   /\ phase = "install"
       \/ op = "start"    /\ phase = "canary"
       \/ op = "complete" /\ phase \in {"canary", "cleanup"}

\* The run has yet to tell ARM to install dest.
BeforeInstall ==
  \/ phase = "install" /\ pc \in {"inspect", "get", "put"}
  \/ phase = "canary"  /\ \/ pc = "inspect"
                          \/ pc \in {"get", "put"} /\ op = "start"

\* ARM was told to complete.
Completed == pc \in {"delete", "verify"} \/ (pc = "poll" /\ op = "complete")

Running == pc \notin {"idle", "read", "exit"}

\* ARM lists the revision that workloads are moved to ...
DestInstalled == Running /\ ~BeforeInstall => dest \in revs

\* ... and, while there is a way back, the one they came from.
PrevInstalled ==
  Running /\ ~Completed /\ phase # "install" => prev \subseteq revs

\* An installation starts from nothing, and nobody else installs.
InstallsFirst ==
  phase = "install" /\ pc \in {"inspect", "get", "put"} => revs = {}

\* What a PUT builds on contains what the run and the tag rely on.
ReadInstalled ==
  pc = "put" /\ op = "start" => prev \subseteq read /\ tag \in read \cup {NoRevision}

\* From the first flip to the completion the tag stays on dest.
TagMoved ==
  TagMode /\ phase \in {"canary", "cleanup"}
          /\ \/ pc \in Moving \cup {"ingress", "health", "orphans"}
             \/ pc \in {"get", "put"} /\ op = "complete"
    => tag = dest

TagOnlyInTagMode == ~TagMode => tag = NoRevision

\* The inductive invariant of TagTargetsInstalled: what every step of a run
\* and of the environment relies on and restores.
TagInv ==
  /\ TagTargetsInstalled /\ TagOnlyInTagMode /\ TagMoved
  /\ PhaseOfStep /\ DestInstalled /\ PrevInstalled /\ InstallsFirst
  /\ ReadInstalled

-----------------------------------------------------------------------------
(* What a start of a canary builds on *)

\* Nobody but the run takes a revision away between its Get and its PUT.
ReadStillInstalled == pc = "put" => read \subseteq revs

\* What has come since the Get is somebody else's, and newer: there is no ETag,
\* and the PUT drops it.
MissesOnlyForeign ==
  pc = "put" => \A r \in revs \ read : r \in ForeignRevs /\ \A q \in read : q < r

Starting == \/ pc = "inspect" /\ NeedsCanary
            \/ pc \in {"get", "put"} /\ op = "start"

\* A canary is newer than everything the run found when it decided on it; the
\* cleanup flow decides before it removes the older of two.
NewerThanFound ==
  /\ phase = "canary" /\ Starting => prev # {} /\ \A q \in prev : q < dest
  /\ phase = "cleanup" => dest < target

\* modifyClusterProperties gives up on a canary that is there already.
StartsAbsent == pc = "put" /\ op = "start" => dest \notin read

\* The inductive invariant of CanaryIsNewest and of the refinement.
NewestInv ==
  /\ IsFiniteSet(revs) /\ IsFiniteSet(read)
  /\ ReadStillInstalled /\ MissesOnlyForeign /\ NewerThanFound /\ StartsAbsent

-----------------------------------------------------------------------------
(* What a rollback goes back to *)

\* ARM is settled only on a cluster whose istiods are those it lists.
SettledPlanes == prov = "Succeeded" => planes = revs

\* While there is a way back, what the run found keeps its control planes.
PrevPlanes ==
  /\ Running /\ ~Completed /\ phase # "install" => prev \subseteq planes
  /\ pc \in {"delete", "verify"} => dest \in planes

\* A rollback keeps the control plane it goes back to; its first step is to
\* point the tag at it.
RollbackPlanes ==
  /\ phase = "rollback" => dest \in planes \cap revs
  /\ phase = "rollback" /\ TagMode /\ pc # "flip" /\ outcome # "failed"
       => tag = dest
  /\ outcome = "rolledback" => phase = "rollback"
  /\ pc # "exit" => outcome = "none"

\* A run with a tag has no labels to update in its flip.
FlipsTag == TagMode /\ pc = "flip" => ~listed /\ todo = {}

\* A namespace in the run's cache is in the mesh: nobody leaves it.
KnownInMesh == \A ns \in Namespaces : Known(ns) => InMesh(ns)

\* The inductive invariant of what a rollback leaves behind.
RollbackInv ==
  /\ SettledPlanes /\ PrevPlanes /\ RollbackPlanes /\ FlipsTag

\* Namespaces that joined by the tag stay with it in a run with a tag.
TagLabelsOnly == \A ns \in Namespaces : label[ns] \in {TagLabel, NoLabel}

-----------------------------------------------------------------------------
(* What a completion removes *)

\* Everything that ARM lists is what the run found or installed, or somebody
\* else's; once completed, the rest of what it found is gone.
RevsAccounted ==
  /\ phase \in {"canary", "cleanup"} /\ Running
       => revs \subseteq prev \cup {dest} \cup ForeignRevs
  /\ Completed => revs \subseteq {dest} \cup ForeignRevs

\* The orphan guard has passed ns.
Guarded(ns) ==
  /\ phase = "canary"
  /\ \/ pc = "orphans" /\ listed /\ ~failed /\ ns \notin todo
     \/ pc \in {"get", "put"} /\ op = "complete"

\* What the guard saw of a namespace stays so, whichever pods come and go.
OrphanGuard ==
  \A ns \in Namespaces :
    Guarded(ns) /\ Known(ns) /\ Inject(ns) = dest
      => sidecar[ns] \cap retiring = {}

\* The inductive invariant of RetireOnlyUnused.
RetireInv == RevsAccounted /\ OrphanGuard
=============================================================================
