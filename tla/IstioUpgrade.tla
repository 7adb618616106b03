---------------------------- MODULE IstioUpgrade -----------------------------
(***************************************************************************)
(* RunUpgrade of pkg/istio/upgrade.go: one run reads the cluster, decides, *)
(* and walks through the steps of the chosen flow; the pipeline starts a   *)
(* new run whenever the last one has ended.  A step is one remote call, or *)
(* one per namespace where the code loops over namespaces, so that the     *)
(* environment of IstioMesh acts between any two calls.                    *)
(*                                                                         *)
(* A call that changes something may succeed, may fail, or may succeed     *)
(* and be reported as failed; the run's context may expire, after which    *)
(* every call fails; the process may be killed anywhere.                   *)
(***************************************************************************)
EXTENDS IstioMesh, IstioDecide

CONSTANTS
  Targets,           \* values that svc.istio.versions takes from run to run
  Offered,           \* what ListMeshUpgradeProfiles offers
  StopAfters,        \* values of --stop-after, "" when it is not given
  MaxOrphanRetries

ASSUME TargetsAssumption == Targets \subseteq Revisions
ASSUME StopAfterAssumption ==
         StopAfters \subseteq {"", "canary-start", "orphan-check"}
ASSUME RetriesAssumption == MaxOrphanRetries \in Nat

VARIABLES
  pc,            \* the call the run makes next
  phase,         \* the function it is in
  op,            \* the ARM operation of its get, put and poll
  target, stopAfter,
  dest,          \* the revision workloads are to end up on
  prev,          \* previousRevisions: what was installed when it began
  read,          \* the revisions in the Get that the next PUT builds on
  attempt,       \* restarts made by the orphan guard
  expired,       \* the deadline of the run's context has passed
  listed, todo, failed,   \* a loop over the mesh namespaces: listed yet,
                          \* still to visit, error or orphan met
  outcome,
  cachedNS, nsCacheValid  \* KubeClient's namespace cache

plan    == <<phase, op, target, stopAfter, dest, prev, read, attempt, expired>>
loop    == <<listed, todo, failed>>
cache   == <<cachedNS, nsCacheValid>>
runVars == <<pc, plan, loop, outcome>>
vars    == <<meshVars, faults, runVars, cache>>

Phases   == {"none", "install", "reconcile", "canary", "cleanup", "rollback"}
Ops      == {"none", "enable", "start", "complete"}
Calls    == {"read", "cm", "tagcheck", "planes", "tag", "ingress", "flip",
             "restart", "rollout", "health", "orphans", "get", "put", "poll",
             "delete", "verify"}
Steps    == Calls \cup {"idle", "inspect", "exit"}
Outcomes == {"none", "skipped", "reconciled", "installed", "upgraded",
             "stopped", "failed", "rolledback"}

EmptyCache == [ns \in Namespaces |-> NoLabel]
Known(ns)  == cachedNS[ns] # NoLabel
retiring   == prev \ {dest}

RunTypeOK ==
  /\ pc \in Steps /\ phase \in Phases /\ op \in Ops
  /\ target \in Revisions \cup {NoRevision}
  /\ stopAfter \in StopAfters \cup {""}
  /\ dest \in Revisions \cup {NoRevision}
  /\ prev \subseteq Revisions /\ read \subseteq Revisions
  /\ attempt \in 0..MaxOrphanRetries
  /\ expired \in BOOLEAN
  /\ listed \in BOOLEAN /\ failed \in BOOLEAN /\ todo \subseteq Namespaces
  /\ outcome \in Outcomes
  /\ pc # "idle" => target \in Revisions
  /\ pc \notin {"idle", "read", "exit"} => dest \in Revisions

CacheTypeOK ==
  /\ cachedNS \in [Namespaces -> Labels \cup {NoLabel}]
  /\ nsCacheValid \in BOOLEAN

TypeOK == MeshTypeOK /\ RunTypeOK /\ CacheTypeOK

Fresh ==
  /\ pc = "idle" /\ phase = "none" /\ op = "none"
  /\ target = NoRevision /\ stopAfter = "" /\ dest = NoRevision
  /\ prev = {} /\ read = {} /\ attempt = 0 /\ expired = FALSE
  /\ listed = FALSE /\ todo = {} /\ failed = FALSE
  /\ outcome = "none"
  /\ cachedNS = EmptyCache /\ nsCacheValid = FALSE

Init == MeshInit /\ Fresh

-----------------------------------------------------------------------------
(* Moving from step to step *)

NewLoop == listed' = FALSE /\ todo' = {} /\ failed' = FALSE

Goto(step) == pc' = step /\ NewLoop /\ UNCHANGED <<plan, outcome>>

End(result) ==
  pc' = "exit" /\ outcome' = result /\ NewLoop /\ UNCHANGED plan

\* modifyClusterProperties begins with a Get.
Arm(operation) ==
  /\ pc' = "get" /\ op' = operation /\ NewLoop
  /\ UNCHANGED <<phase, target, stopAfter, dest, prev, read, attempt, expired,
                 outcome>>

TagOrIngress == IF TagMode THEN "tag" ELSE "ingress"

(***************************************************************************)
(* The order of the calls in runReconcile, runInitialInstall,              *)
(* runCleanupAndUpgrade phase 1, runCanaryPostInstall and migrateWorkloads.*)
(***************************************************************************)
Proceed ==
  \/ pc = "cm" /\ Goto(CASE phase = "reconcile" -> TagOrIngress
                         [] phase = "canary" /\ ~TagMode -> "tagcheck"
                         [] OTHER -> "planes")
  \/ pc = "tagcheck" /\ Goto("planes")
  \/ pc = "planes"   /\ Goto(TagOrIngress)
  \/ pc = "tag"      /\ Goto("ingress")
  \/ pc = "ingress"  /\ CASE phase = "reconcile" -> End("reconciled")
                          [] phase = "install"   -> Goto("health")
                          [] OTHER               -> Goto("flip")
  \/ pc = "flip"     /\ Goto("restart")
  \/ pc = "restart"  /\ Goto("rollout")
  \/ pc = "rollout"  /\ CASE phase = "rollback" -> End("rolledback")
                          [] phase # "rollback" /\ attempt = 0 -> Goto("health")
                          [] OTHER -> Goto("orphans")
  \/ pc = "health"   /\ IF phase = "install" THEN End("installed")
                                             ELSE Goto("orphans")
  \/ pc = "delete"   /\ Goto("verify")

\* Mutant: every error of the canary rolls back, that of its completion too.
RollsBackAlways == phase = "canary" /\ pc \in Calls \ {"cm", "tagcheck", "get"}

\* The steps of runCanaryPostInstall that end in rollbackAndReturn.
RollsBack ==
  /\ phase = "canary"
  /\ pc \in {"planes", "tag", "ingress", "flip", "restart", "rollout",
             "health", "orphans"}

\* Mutant: the rollback restarts workloads without moving injection back.
RestartOnly == "restart"

\* rollbackWorkloads is migrateWorkloads, which begins with the flip.
RollbackStart == "flip"

(***************************************************************************)
(* What the run does with an error: runReconcile logs it and goes on,      *)
(* rollbackAndReturn migrates the workloads to oldRevisionFrom(previous,   *)
(* target) if there is one, everybody else returns it.                     *)
(***************************************************************************)
Fail ==
  \/ phase = "reconcile" /\ pc # "read" /\ Proceed
  \/ /\ RollsBack
     /\ \E old \in retiring : IsHighest(old, retiring) /\ dest' = old
     /\ phase' = "rollback" /\ pc' = RollbackStart /\ attempt' = 0 /\ NewLoop
     /\ UNCHANGED <<op, target, stopAfter, prev, read, expired, outcome>>
  \/ /\ phase # "reconcile" \/ pc = "read"
     /\ ~(RollsBack /\ retiring # {})
     /\ End("failed")

\* A call fails for reasons of its own, or because the context has expired.
Denied == \/ expired /\ UNCHANGED faults
          \/ ~expired /\ Fault

\* The result of a call that took effect: its answer may still be lost.
Answered == /\ ~expired
            /\ \/ Proceed /\ UNCHANGED faults
               \/ Fail /\ Fault

\* Whether the run is about to make a call: GetMeshNamespaces makes none when
\* its cache is valid, and a namespace with the right label gets no patch.
\* The loops that collect errors fail in RestartFails and RolloutFails.
MakesCall ==
  CASE pc = "tagcheck" -> ~nsCacheValid
    [] pc \in {"restart", "rollout"} -> ~listed /\ ~nsCacheValid
    [] pc = "flip" /\ ~TagMode ->
         IF listed THEN \E ns \in todo : cachedNS[ns] # dest ELSE ~nsCacheValid
    [] pc = "orphans" ->
         retiring # {} /\ IF listed THEN todo # {} ELSE ~nsCacheValid
    [] OTHER -> pc \in Calls \ {"delete"}

\* A call fails without effect.
CallFails ==
  /\ MakesCall
  /\ Denied
  /\ Fail
  /\ UNCHANGED <<meshVars, cache>>

-----------------------------------------------------------------------------
(* RunUpgrade *)

StartRun ==
  /\ pc = "idle"
  /\ pc' = "read"
  /\ target' \in Targets
  /\ stopAfter' \in StopAfters
  /\ UNCHANGED <<meshVars, faults, cache, loop, outcome, phase, op, dest, prev,
                 read, attempt, expired>>

(***************************************************************************)
(* GetClusterState, GetMeshUpgradeTargets and Decide.  A 409 of the        *)
(* second call says that ARM is changing the mesh although the first one   *)
(* found the cluster settled.                                              *)
(***************************************************************************)
ReadState ==
  /\ pc = "read"
  /\ ~expired
  /\ \E inProgress \in BOOLEAN :
       /\ IF inProgress THEN Fault ELSE UNCHANGED faults
       /\ LET action == Decide(prov, inProgress, revs,
                               IF inProgress THEN {} ELSE Offered, target)
          IN  \/ action = "skip" /\ End("skipped")
              \/ /\ action # "skip"
                 /\ pc' = "inspect"
                 /\ prev' = revs
                 /\ phase' = CASE action = "install" -> "install"
                               [] action = "reconcile" -> "reconcile"
                               [] action = "cleanup-and-upgrade" -> "cleanup"
                               [] OTHER -> "canary"
                 /\ CASE action = "cleanup-and-upgrade" ->
                           \E old \in revs : IsLowest(old, revs) /\ dest' = old
                      [] action = "reconcile" /\ SomeNewer(revs, target) ->
                           \E top \in revs : IsHighest(top, revs) /\ dest' = top
                      [] OTHER -> dest' = target
                 /\ UNCHANGED <<op, target, stopAfter, read, attempt, expired,
                                loop, outcome>>
  /\ UNCHANGED <<meshVars, cache>>

\* Mutant: a resumed run starts its canary again.
AlwaysStarts == TRUE

\* ActionUpgrade, not ActionResume
NeedsCanary == dest \notin prev

\* logMeshState: fills the namespace cache, or ignores the error.  Then the
\* run enters its flow.
Inspect ==
  /\ pc = "inspect"
  /\ \/ ~expired /\ cachedNS' = label /\ nsCacheValid' = TRUE /\ UNCHANGED faults
     \/ Denied /\ UNCHANGED cache
  /\ CASE phase = "install" -> Arm("enable")
       [] phase = "canary" /\ NeedsCanary -> Arm("start")
       [] OTHER -> Goto("cm")
  /\ UNCHANGED meshVars

\* The process ends, or is killed; nothing of it survives.
Forget ==
  /\ pc' = "idle" /\ phase' = "none" /\ op' = "none"
  /\ target' = NoRevision /\ stopAfter' = "" /\ dest' = NoRevision
  /\ prev' = {} /\ read' = {} /\ attempt' = 0 /\ expired' = FALSE
  /\ NewLoop
  /\ outcome' = "none"
  /\ cachedNS' = EmptyCache /\ nsCacheValid' = FALSE
  /\ UNCHANGED meshVars

Exit  == pc = "exit" /\ Forget /\ UNCHANGED faults
Crash == pc \notin {"idle", "exit"} /\ Forget /\ Fault

Deadline ==
  /\ pc \notin {"idle", "exit"} /\ ~expired
  /\ Fault
  /\ expired' = TRUE
  /\ UNCHANGED <<meshVars, cache, loop, outcome, pc, phase, op, target,
                 stopAfter, dest, prev, read, attempt>>

-----------------------------------------------------------------------------
(* ARM operations: modifyClusterProperties *)

ArmGet ==
  /\ pc = "get" /\ ~expired
  /\ IF op = "start" /\ dest \in revs
       THEN End("failed")                       \* already installed
       ELSE /\ pc' = "put" /\ read' = revs
            /\ UNCHANGED <<phase, op, target, stopAfter, dest, prev, attempt,
                           expired, loop, outcome>>
  /\ UNCHANGED <<meshVars, faults, cache>>

\* Mutant: a completion keeps the target of the run, whatever it consolidated.
KeepTarget == IF op = "start" THEN read \cup {dest} ELSE {target}

ArmGoal == IF op = "start" THEN read \cup {dest} ELSE {dest}

\* ARM takes one operation at a time and two revisions at most.
ArmRefuses == prov = "Updating" \/ Cardinality(ArmGoal) > 2

ArmPut ==
  /\ pc = "put" /\ ~expired
  /\ \/ /\ ArmRefuses
        /\ End("failed")
        /\ UNCHANGED <<meshVars, faults>>
     \/ /\ ~ArmRefuses
        /\ revs' = ArmGoal /\ prov' = "Updating"
        /\ \/ Goto("poll") /\ UNCHANGED faults
           \/ End("failed") /\ Fault
        /\ UNCHANGED <<planes, ready, kubeVars>>
  /\ UNCHANGED cache

\* PollUntilDone and waitForProvisioning.
ArmPoll ==
  /\ pc = "poll" /\ ~expired
  /\ \/ prov = "Failed" /\ End("failed")
     \/ /\ prov = "Succeeded"
        /\ \/ op = "enable" /\ Goto("cm")
           \/ /\ op = "start"
              /\ IF stopAfter = "canary-start" THEN End("stopped")
                                               ELSE Goto("cm")
           \/ op = "complete" /\ Goto("delete")
  /\ UNCHANGED <<meshVars, faults, cache>>

-----------------------------------------------------------------------------
(* Calls on the mesh *)

CreateConfigMap ==
  /\ pc = "cm"
  /\ Answered
  /\ cm' = cm \cup {dest}
  /\ UNCHANGED <<aksVars, tag, label, sidecar, rolling, pinned, cache>>

\* The check that namespaces do not use tags when the run has none.
CheckTags ==
  /\ pc = "tagcheck" /\ (nsCacheValid \/ ~expired)
  /\ cachedNS' = IF nsCacheValid THEN cachedNS ELSE label
  /\ nsCacheValid' = TRUE
  /\ IF \E ns \in Namespaces : cachedNS'[ns] = TagLabel THEN End("failed")
                                                        ELSE Proceed
  /\ UNCHANGED <<meshVars, faults>>

\* verifyControlPlaneAndTag, up to the tag: every istiod is to be ready.
VerifyPlanes ==
  /\ pc = "planes" /\ ~expired
  /\ IF planes \subseteq ready /\ dest \in planes THEN Proceed ELSE Fail
  /\ UNCHANGED <<meshVars, faults, cache>>

\* EnsureRevisionTag, of verifyControlPlaneAndTag and of migrateWorkloads: it
\* needs the revision's own webhook, which goes with its istiod.
EnsureRevisionTag ==
  /\ pc = "tag" \/ (pc = "flip" /\ TagMode)
  /\ \/ /\ dest \in planes
        /\ Answered
        /\ tag' = dest
     \/ /\ dest \notin planes
        /\ ~expired /\ Fail
        /\ UNCHANGED <<faults, tag>>
  /\ UNCHANGED <<aksVars, label, sidecar, rolling, cm, pinned, cache>>

EnsureIngress ==
  /\ pc = "ingress"
  /\ Answered
  /\ pinned' = TRUE
  /\ UNCHANGED <<aksVars, tag, label, sidecar, rolling, cm, cache>>

HealthCheck ==
  /\ pc = "health" /\ ~expired
  /\ IF planes # {} /\ planes \subseteq ready THEN Proceed ELSE Fail
  /\ UNCHANGED <<meshVars, faults, cache>>

-----------------------------------------------------------------------------
(* Loops over the mesh namespaces *)

\* GetMeshNamespaces: the cache answers when it is valid.
ListNamespaces ==
  /\ pc \in {"restart", "rollout", "orphans"} \/ (pc = "flip" /\ ~TagMode)
  /\ ~listed /\ (nsCacheValid \/ ~expired)
  /\ pc = "orphans" => retiring # {}
  /\ cachedNS' = IF nsCacheValid THEN cachedNS ELSE label
  /\ nsCacheValid' = TRUE
  /\ listed' = TRUE
  /\ todo' = {ns \in Namespaces : cachedNS'[ns] # NoLabel}
  /\ UNCHANGED <<meshVars, faults, pc, plan, failed, outcome>>

Visit(ns) == /\ todo' = todo \ {ns}
             /\ UNCHANGED <<pc, plan, listed, outcome, cache>>

\* UpdateMeshNamespaceLabels compares with the label it has cached, and gives
\* up at the first error.
UpdateLabel(ns) ==
  /\ pc = "flip" /\ ns \in todo
  /\ cachedNS[ns] = dest \/ ~expired
  /\ label' = IF cachedNS[ns] = dest THEN label ELSE [label EXCEPT ![ns] = dest]
  /\ \/ Visit(ns) /\ UNCHANGED <<failed, faults>>
     \/ cachedNS[ns] # dest /\ Fail /\ Fault /\ UNCHANGED cache
  /\ UNCHANGED <<aksVars, tag, sidecar, rolling, cm, pinned>>

LabelsUpdated ==
  /\ pc = "flip" /\ listed /\ todo = {}
  /\ cachedNS' = EmptyCache /\ nsCacheValid' = FALSE
  /\ Proceed
  /\ UNCHANGED <<meshVars, faults>>

Stale(ns) == \E r \in sidecar[ns] : r # dest

\* executeRestart, which restarts the owners of the pods it finds stale.
RestartNamespace(ns) ==
  /\ pc = "restart" /\ ns \in todo /\ ~expired
  /\ rolling' = IF Stale(ns) THEN [rolling EXCEPT ![ns] = dest] ELSE rolling
  /\ Visit(ns)
  /\ \/ UNCHANGED <<failed, faults>>
     \/ failed' = TRUE /\ Fault
  /\ UNCHANGED <<aksVars, tag, label, sidecar, cm, pinned>>

RestartFails(ns) ==
  /\ pc = "restart" /\ ns \in todo
  /\ Denied
  /\ failed' = TRUE /\ Visit(ns)
  /\ UNCHANGED meshVars

\* WaitForRollout of ns has seen everything converged.
RolloutConverged(ns) ==
  /\ pc = "rollout" /\ ns \in todo /\ ~expired
  /\ rolling[ns] = NoRevision
  /\ Visit(ns)
  /\ UNCHANGED <<meshVars, failed, faults>>

\* It times out, for free when the new pods cannot start.
RolloutFails(ns) ==
  /\ pc = "rollout" /\ ns \in todo
  /\ \/ Denied
     \/ /\ rolling[ns] # NoRevision /\ Inject(ns) \notin ready
        /\ UNCHANGED faults
  /\ failed' = TRUE /\ Visit(ns)
  /\ UNCHANGED meshVars

\* The errors are joined once every namespace has been visited.
NamespacesDone ==
  /\ pc \in {"restart", "rollout"} /\ listed /\ todo = {}
  /\ IF failed THEN Fail ELSE Proceed
  /\ UNCHANGED <<meshVars, faults, cache>>

\* Mutant: a namespace is done once a pod has the new sidecar.
NotStarted(ns) == sidecar[ns] # {} /\ dest \notin sidecar[ns]

Orphaned(ns) == sidecar[ns] \cap retiring # {}

\* CheckOrphanedWorkloads
CheckNamespace(ns) ==
  /\ pc = "orphans" /\ ns \in todo /\ ~expired
  /\ failed' = (failed \/ Orphaned(ns))
  /\ Visit(ns)
  /\ UNCHANGED <<meshVars, faults>>

RetriesLeft     == attempt < MaxOrphanRetries

\* Mutant: both flows use the warning variant of the guard.
NeverFatal == FALSE
ExhaustionIsFatal == phase # "cleanup"

\* retireOrphanedWorkloads and warnRetireOrphanedWorkloads: the second one
\* goes on when the retries are used up.
OrphansChecked ==
  /\ pc = "orphans" /\ (retiring = {} \/ (listed /\ todo = {}))
  /\ \/ /\ failed /\ RetriesLeft
        /\ pc' = "restart" /\ attempt' = attempt + 1 /\ NewLoop
        /\ UNCHANGED <<phase, op, target, stopAfter, dest, prev, read, expired,
                       outcome>>
     \/ /\ failed /\ ~RetriesLeft
        /\ IF ExhaustionIsFatal THEN Fail ELSE Arm("complete")
     \/ /\ ~failed
        /\ IF phase = "canary" /\ stopAfter = "orphan-check"
             THEN End("stopped") ELSE Arm("complete")
  /\ UNCHANGED <<meshVars, faults, cache>>

-----------------------------------------------------------------------------
(* After the point of no return *)

OldConfigMaps == retiring

\* DeleteRevisionConfigMap of every old revision, best effort.
DeleteConfigMaps ==
  /\ pc = "delete"
  /\ \/ ~expired /\ cm' = cm \ OldConfigMaps /\ UNCHANGED faults
     \/ Denied /\ UNCHANGED cm
  /\ Proceed
  /\ UNCHANGED <<aksVars, tag, label, sidecar, rolling, pinned, cache>>

Verified ==
  /\ dest \in cm
  /\ TagMode => tag = dest
  /\ \A ns \in Namespaces : Known(ns) =>
       /\ cachedNS[ns] \in {dest} \cup (IF TagMode THEN {TagLabel} ELSE {})
       /\ sidecar[ns] \subseteq {dest}

\* VerifyUpgrade; the cleanup flow then starts the canary it made room for.
VerifyUpgrade ==
  /\ pc = "verify" /\ ~expired
  /\ \/ ~Verified /\ End("failed")
     \/ Verified /\ phase = "canary" /\ End("upgraded")
     \/ /\ Verified /\ phase = "cleanup"
        /\ phase' = "canary" /\ prev' = {dest} /\ dest' = target
        /\ op' = "start" /\ pc' = "get" /\ attempt' = 0
        /\ UNCHANGED <<target, stopAfter, read, expired, loop, outcome>>
  /\ UNCHANGED <<meshVars, faults, cache>>

-----------------------------------------------------------------------------

RunStep ==
  \/ ReadState \/ Inspect
  \/ ArmGet \/ ArmPut \/ ArmPoll
  \/ CreateConfigMap \/ CheckTags \/ VerifyPlanes \/ EnsureRevisionTag
  \/ EnsureIngress \/ HealthCheck
  \/ ListNamespaces \/ LabelsUpdated \/ NamespacesDone \/ OrphansChecked
  \/ \E ns \in Namespaces :
       \/ UpdateLabel(ns) \/ RestartNamespace(ns) \/ RestartFails(ns)
       \/ RolloutConverged(ns) \/ RolloutFails(ns) \/ CheckNamespace(ns)
  \/ DeleteConfigMaps \/ VerifyUpgrade
  \/ CallFails

Next ==
  \/ StartRun \/ RunStep \/ Exit \/ Crash \/ Deadline
  \/ Environment /\ UNCHANGED <<runVars, cache>>

Spec == Init /\ [][Next]_vars

(***************************************************************************)
(* The pipeline runs the tool again until the cluster is where it should   *)
(* be; ARM finishes what it accepted; istiods and rollouts come up.        *)
(***************************************************************************)
FairSpec ==
  /\ Spec
  /\ WF_vars(StartRun) /\ WF_vars(RunStep) /\ WF_vars(Exit)
  /\ WF_vars(ArmDone /\ UNCHANGED <<runVars, cache>>)
  /\ WF_vars(CpUp /\ UNCHANGED <<runVars, cache>>)
  /\ \A ns \in Namespaces :
       WF_vars(RolloutReady(ns) /\ UNCHANGED <<runVars, cache>>)

-----------------------------------------------------------------------------
(* Safety *)

\* The tag webhook never points at a control plane that ARM was told to
\* remove: EnsureRevisionTag, the rollback and the two completions together.
TagTargetsInstalled == tag # NoRevision => tag \in revs

Completing == pc = "put" /\ op = "complete"

\* Completing a canary takes no control plane away from a pod of a namespace
\* that the run knows and whose injection it has moved: the orphan guard, read
\* namespace by namespace well before the PUT, still holds when ARM gets it, but
\* for a canary that somebody else has started since the run began.  Nor is the
\* ConfigMap of a revision deleted that ARM still lists, unless somebody else
\* started a canary to that revision again.
RetireOnlyUnused ==
  [][/\ Completing /\ phase = "canary" /\ revs' # revs =>
          \A ns \in Namespaces : Known(ns) /\ Inject(ns) = dest =>
                  sidecar[ns] \cap (revs \ revs') \subseteq ForeignRevs \ prev
     /\ (cm \ cm') \cap revs \subseteq ForeignRevs]_vars

\* A rollback that is reported as done has put the injection of every
\* namespace the run knows back on the previous revision, and that revision
\* still has a control plane (rollbackAndReturn).
RollbackRestores ==
  outcome = "rolledback" =>
    /\ dest \in planes /\ dest \in revs
    /\ \A ns \in Namespaces : Known(ns) => Inject(ns) = dest

\* A run adds a control plane only when it is newer than every one in the Get
\* that its PUT builds on, whatever was installed when the run decided.
CanaryIsNewest ==
  [][pc = "put" => \A r \in revs' \ revs : \A q \in read : q < r]_vars

\* Seen from outside, runs do nothing but install, switch and retire; the PUT of
\* modifyClusterProperties, which has no ETag, loses nothing but a canary that
\* somebody else has started since the Get.
L == INSTANCE MeshLifecycle
       WITH Revs <- Revisions, Others <- ForeignRevs, None <- NoRevision,
            installed <- revs, serving <- tag
ImplementsLifecycle == L!Lifecycle

-----------------------------------------------------------------------------
(* Liveness *)

AtTarget == \E t \in Targets : revs = {t} /\ (TagMode => tag = t)

\* With the same target in the configuration and runs repeated, the cluster
\* gets there and stays, unless ARM leaves it in a failed state for good.
Converges == <>[]AtTarget \/ <>[](prov = "Failed")

-----------------------------------------------------------------------------
(* What comments of the code promise *)

\* upgrade.go:481-484: no pod is left on an old sidecar by ARM complete.
NoPodOrphaned ==
  [][Completing /\ phase = "canary" /\ revs' # revs =>
       \A ns \in Namespaces : sidecar[ns] \subseteq revs']_vars
=============================================================================
