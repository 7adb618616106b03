------------------------- MODULE IstioUpgrade_proofs -------------------------
(***************************************************************************)
(* Type correctness of IstioUpgrade, and that the tag never points at a    *)
(* control plane that ARM was told to remove: for every set of revisions   *)
(* and namespaces, every number of faults, with and without a tag.  TagInv *)
(* of IstioInvariant is inductive.  The lemmas about the helpers are used  *)
(* again where the steps of a run are.                                     *)
(***************************************************************************)
EXTENDS IstioInvariant, FiniteSetTheorems, TLAPS

-----------------------------------------------------------------------------
(* The helpers that move a run from step to step keep its types. *)

LEMMA NoAttempt == 0 \in 0..MaxOrphanRetries
BY RetriesAssumption

LEMMA NextAttempt ==
  ASSUME NEW a \in 0..MaxOrphanRetries, a < MaxOrphanRetries
  PROVE  a + 1 \in 0..MaxOrphanRetries
BY RetriesAssumption

LEMMA GotoType ==
  ASSUME RunTypeOK, NEW s \in Steps, Goto(s),
         pc \notin {"idle", "read", "exit"}
  PROVE  RunTypeOK'
BY DEF RunTypeOK, Goto, NewLoop, plan

LEMMA EndType ==
  ASSUME RunTypeOK, NEW o \in Outcomes, End(o), pc # "idle"
  PROVE  RunTypeOK'
BY DEF RunTypeOK, End, NewLoop, plan, Steps

LEMMA ArmType ==
  ASSUME RunTypeOK, NEW o \in Ops, Arm(o),
         pc \notin {"idle", "read", "exit"}
  PROVE  RunTypeOK'
BY DEF RunTypeOK, Arm, NewLoop, Steps, Calls

LEMMA ProceedType ==
  ASSUME RunTypeOK, Proceed
  PROVE  RunTypeOK'
<1>0. pc \notin {"idle", "read", "exit"}
  BY DEF Proceed
<1>1. ASSUME NEW s, Goto(s), s \in {"tagcheck", "planes", "tag", "ingress",
                "health", "flip", "restart", "rollout", "orphans", "verify"}
      PROVE  RunTypeOK'
  BY <1>0, <1>1, GotoType DEF Steps, Calls
<1>2. ASSUME NEW o, End(o), o \in {"reconciled", "rolledback", "installed"}
      PROVE  RunTypeOK'
  BY <1>0, <1>2, EndType DEF Outcomes
<1> QED
  BY <1>1, <1>2 DEF Proceed, TagOrIngress

LEMMA FailType ==
  ASSUME RunTypeOK, Fail, pc # "idle"
  PROVE  RunTypeOK'
<1>1. CASE Proceed
  BY <1>1, ProceedType
<1>2. CASE End("failed")
  BY <1>2, EndType DEF Outcomes
<1>3. ASSUME NEW old \in retiring, dest' = old, phase' = "rollback",
             pc' = RollbackStart, attempt' = 0, NewLoop,
             UNCHANGED <<op, target, stopAfter, prev, read, expired, outcome>>
      PROVE  RunTypeOK'
  <2>1. prev \subseteq Revisions
    BY DEF RunTypeOK
  <2>2. dest' \in Revisions
    BY <1>3, <2>1 DEF retiring
  <2>3. attempt' \in 0..MaxOrphanRetries
    BY <1>3, NoAttempt
  <2> QED
    BY <1>3, <2>2, <2>3 DEF RunTypeOK, NewLoop, RollbackStart, Steps, Calls, Phases
<1> QED
  BY <1>1, <1>2, <1>3 DEF Fail

LEMMA FaultType ==
  ASSUME faults \in 0..MaxFaults, Fault
  PROVE  faults' \in 0..MaxFaults
BY MaxFaultsAssumption DEF Fault

LEMMA DeniedType ==
  ASSUME faults \in 0..MaxFaults, Denied
  PROVE  faults' \in 0..MaxFaults
BY FaultType DEF Denied

LEMMA AnsweredType ==
  ASSUME RunTypeOK, faults \in 0..MaxFaults, Answered, pc # "idle"
  PROVE  RunTypeOK' /\ faults' \in 0..MaxFaults
BY ProceedType, FailType, FaultType DEF Answered

LEMMA VisitType ==
  ASSUME RunTypeOK, NEW ns \in Namespaces, Visit(ns), failed' \in BOOLEAN
  PROVE  RunTypeOK'
BY DEF RunTypeOK, Visit, plan

-----------------------------------------------------------------------------
(* Type correctness, action by action *)

LEMMA InitType == Init => TypeOK
<1> SUFFICES ASSUME Init PROVE TypeOK
  OBVIOUS
<1>1. MeshTypeOK
  <2>1. /\ revs \subseteq Revisions /\ planes \subseteq Revisions
        /\ ready \subseteq planes /\ cm \subseteq Revisions
    BY InitialAssumption DEF Init, MeshInit
  <2>2. tag \in Revisions \cup {NoRevision}
    BY <2>1 DEF Init, MeshInit
  <2>3. label \in [Namespaces -> Labels \cup {NoLabel}]
    BY NsLabelsAssumption DEF Init, MeshInit, Labels
  <2>4. sidecar \in [Namespaces -> SUBSET Revisions]
    BY <2>1 DEF Init, MeshInit
  <2>5. rolling \in [Namespaces -> Revisions \cup {NoRevision}]
    BY DEF Init, MeshInit
  <2>6. faults \in 0..MaxFaults
    BY MaxFaultsAssumption DEF Init, MeshInit
  <2> QED
    BY <2>1, <2>2, <2>3, <2>4, <2>5, <2>6 DEF Init, MeshInit, MeshTypeOK
<1>2. RunTypeOK
  BY NoAttempt DEF Init, Fresh, RunTypeOK, Steps, Phases, Ops, Outcomes
<1>3. CacheTypeOK
  BY DEF Init, Fresh, CacheTypeOK, EmptyCache
<1> QED
  BY <1>1, <1>2, <1>3 DEF TypeOK

LEMMA EnvironmentType ==
  ASSUME TypeOK, Environment, UNCHANGED <<runVars, cache>>
  PROVE  TypeOK'
<1>0. RunTypeOK' /\ CacheTypeOK'
  BY DEF TypeOK, RunTypeOK, CacheTypeOK, runVars, plan, loop, cache
<1>1. ASSUME ArmDone \/ Repair PROVE MeshTypeOK'
  BY <1>1 DEF ArmDone, Repair, TypeOK, MeshTypeOK, kubeVars
<1>2. ASSUME ArmFails PROVE MeshTypeOK'
  BY <1>2, FaultType DEF ArmFails, TypeOK, MeshTypeOK, kubeVars
<1>3. ASSUME ForeignCanary PROVE MeshTypeOK'
  BY <1>3, FaultType, ForeignAssumption
  DEF ForeignCanary, TypeOK, MeshTypeOK, kubeVars
<1>4. ASSUME CpUp PROVE MeshTypeOK'
  BY <1>4 DEF CpUp, TypeOK, MeshTypeOK, kubeVars
<1>5. ASSUME CpDown PROVE MeshTypeOK'
  BY <1>5, FaultType DEF CpDown, TypeOK, MeshTypeOK, kubeVars
<1>6. ASSUME NEW ns \in Namespaces, PodStarts(ns)
      PROVE  MeshTypeOK'
  BY <1>6 DEF PodStarts, TypeOK, MeshTypeOK, aksVars
<1>7. ASSUME NEW ns \in Namespaces, PodExits(ns)
      PROVE  MeshTypeOK'
  BY <1>7 DEF PodExits, TypeOK, MeshTypeOK, aksVars
<1>8. ASSUME NEW ns \in Namespaces, RolloutReady(ns)
      PROVE  MeshTypeOK'
  <2>1. Inject(ns) \in Revisions
    BY <1>8 DEF RolloutReady, TypeOK, MeshTypeOK
  <2>2. faults' \in 0..MaxFaults
    BY <1>8, FaultType DEF RolloutReady, TypeOK, MeshTypeOK
  <2>3. sidecar' \in [Namespaces -> SUBSET Revisions]
    BY <1>8, <2>1 DEF RolloutReady, TypeOK, MeshTypeOK
  <2> QED
    BY <1>8, <2>2, <2>3 DEF RolloutReady, TypeOK, MeshTypeOK, aksVars
<1>9. ASSUME NEW ns \in Namespaces, NamespaceJoins(ns)
      PROVE  MeshTypeOK'
  BY <1>9 DEF NamespaceJoins, TypeOK, MeshTypeOK, Labels, aksVars
<1> QED
  BY <1>0, <1>1, <1>2, <1>3, <1>4, <1>5, <1>6, <1>7, <1>8, <1>9
  DEF Environment, TypeOK, MeshTypeOK

\* What a call leaves alone keeps its type.
LEMMA MeshUnchanged ==
  ASSUME MeshTypeOK, UNCHANGED meshVars, faults' \in 0..MaxFaults
  PROVE  MeshTypeOK'
BY DEF MeshTypeOK, meshVars, aksVars, kubeVars

LEMMA CacheUnchanged ==
  ASSUME CacheTypeOK, UNCHANGED cache
  PROVE  CacheTypeOK'
BY DEF CacheTypeOK, cache

\* GetMeshNamespaces fills the cache from the labels, or leaves it.
LEMMA CacheFilled ==
  ASSUME MeshTypeOK, CacheTypeOK, nsCacheValid' = TRUE,
         cachedNS' \in {cachedNS, label}
  PROVE  CacheTypeOK'
BY DEF MeshTypeOK, CacheTypeOK

LEMMA CallFailsType ==
  ASSUME TypeOK, CallFails
  PROVE  TypeOK'
<1>1. pc # "idle"
  BY DEF CallFails, MakesCall, Calls
<1> QED
  BY <1>1, DeniedType, FailType, MeshUnchanged, CacheUnchanged
  DEF CallFails, TypeOK, MeshTypeOK

LEMMA StartRunType ==
  ASSUME TypeOK, StartRun
  PROVE  TypeOK'
<1>1. RunTypeOK'
  BY TargetsAssumption DEF TypeOK, RunTypeOK, StartRun, loop, Steps, Calls
<1> QED
  BY <1>1, MeshUnchanged, CacheUnchanged DEF TypeOK, StartRun, MeshTypeOK

LEMMA ReadStateType ==
  ASSUME TypeOK, ReadState
  PROVE  TypeOK'
<1>1. faults' \in 0..MaxFaults
  BY FaultType DEF TypeOK, MeshTypeOK, ReadState
<1>2. ASSUME End("skipped") PROVE RunTypeOK'
  BY <1>2, EndType DEF ReadState, TypeOK, Outcomes
<1>3. ASSUME NEW action,
             pc' = "inspect", prev' = revs,
             phase' = CASE action = "install" -> "install"
                        [] action = "reconcile" -> "reconcile"
                        [] action = "cleanup-and-upgrade" -> "cleanup"
                        [] OTHER -> "canary",
             dest' = target \/ dest' \in revs,
             UNCHANGED <<op, target, stopAfter, read, attempt, expired,
                         loop, outcome>>
      PROVE  RunTypeOK'
  <2>1. revs \subseteq Revisions /\ target \in Revisions
    BY DEF ReadState, TypeOK, MeshTypeOK, RunTypeOK
  <2>2. dest' \in Revisions
    BY <1>3, <2>1
  <2>3. phase' \in Phases
    BY <1>3 DEF Phases
  <2> QED
    BY <1>3, <2>1, <2>2, <2>3 DEF TypeOK, RunTypeOK, Steps, loop
<1>4. RunTypeOK'
  BY <1>2, <1>3 DEF ReadState
<1> QED
  BY <1>1, <1>4, MeshUnchanged, CacheUnchanged DEF TypeOK, ReadState

LEMMA InspectType ==
  ASSUME TypeOK, Inspect
  PROVE  TypeOK'
<1>1. faults' \in 0..MaxFaults
  BY DeniedType DEF TypeOK, MeshTypeOK, Inspect
<1>2. RunTypeOK'
  <2>1. Arm("enable") \/ Arm("start") \/ Goto("cm")
    BY DEF Inspect
  <2> QED
    BY <2>1, ArmType, GotoType DEF Inspect, TypeOK, Ops, Steps, Calls
<1>3. CacheTypeOK'
  BY CacheFilled, CacheUnchanged DEF TypeOK, Inspect
<1> QED
  BY <1>1, <1>2, <1>3, MeshUnchanged DEF TypeOK, Inspect

LEMMA ForgetType ==
  ASSUME TypeOK, Forget, faults' \in 0..MaxFaults
  PROVE  TypeOK'
<1>1. RunTypeOK'
  BY NoAttempt DEF Forget, RunTypeOK, NewLoop, Steps, Phases, Ops, Outcomes
<1>2. CacheTypeOK'
  BY DEF Forget, CacheTypeOK, EmptyCache
<1> QED
  BY <1>1, <1>2, MeshUnchanged DEF TypeOK, Forget

LEMMA ExitType ==
  ASSUME TypeOK, Exit \/ Crash
  PROVE  TypeOK'
BY ForgetType, FaultType DEF Exit, Crash, TypeOK, MeshTypeOK

LEMMA DeadlineType ==
  ASSUME TypeOK, Deadline
  PROVE  TypeOK'
<1>1. RunTypeOK'
  BY DEF TypeOK, RunTypeOK, Deadline, loop
<1> QED
  BY <1>1, FaultType, MeshUnchanged, CacheUnchanged
  DEF TypeOK, MeshTypeOK, Deadline

LEMMA ArmGetType ==
  ASSUME TypeOK, ArmGet
  PROVE  TypeOK'
<1>1. ASSUME pc' = "put", read' = revs,
             UNCHANGED <<phase, op, target, stopAfter, dest, prev, attempt,
                         expired, loop, outcome>>
      PROVE  RunTypeOK'
  BY <1>1 DEF ArmGet, TypeOK, MeshTypeOK, RunTypeOK, loop, Steps, Calls
<1>2. RunTypeOK'
  BY <1>1, EndType DEF ArmGet, TypeOK, Outcomes
<1> QED
  BY <1>2, MeshUnchanged, CacheUnchanged DEF ArmGet, TypeOK, MeshTypeOK

LEMMA ArmPutType ==
  ASSUME TypeOK, ArmPut
  PROVE  TypeOK'
<1>1. RunTypeOK' /\ CacheTypeOK'
  BY EndType, GotoType, CacheUnchanged
  DEF ArmPut, TypeOK, Outcomes, Steps, Calls
<1>2. faults' \in 0..MaxFaults
  BY FaultType DEF ArmPut, TypeOK, MeshTypeOK
<1>3. ASSUME UNCHANGED meshVars PROVE MeshTypeOK'
  BY <1>2, <1>3, MeshUnchanged DEF TypeOK
<1>4. ASSUME revs' = ArmGoal, prov' = "Updating",
             UNCHANGED <<planes, ready, kubeVars>>
      PROVE  MeshTypeOK'
  <2>1. ArmGoal \subseteq Revisions
    BY DEF ArmGoal, ArmPut, TypeOK, RunTypeOK
  <2> QED
    BY <1>2, <1>4, <2>1 DEF TypeOK, MeshTypeOK, kubeVars
<1> QED
  BY <1>1, <1>3, <1>4 DEF ArmPut, TypeOK

LEMMA ArmPollType ==
  ASSUME TypeOK, ArmPoll
  PROVE  TypeOK'
<1>1. RunTypeOK'
  <2>1. \E s \in {"cm", "delete"} : End("failed") \/ End("stopped") \/ Goto(s)
    BY DEF ArmPoll
  <2> QED
    BY <2>1, EndType, GotoType DEF ArmPoll, TypeOK, Outcomes, Steps, Calls
<1> QED
  BY <1>1, MeshUnchanged, CacheUnchanged DEF ArmPoll, TypeOK, MeshTypeOK

\* The calls that answer: their effect on the mesh is typed, the rest is
\* AnsweredType.
LEMMA AnsweringType ==
  ASSUME TypeOK, CreateConfigMap \/ EnsureIngress
  PROVE  TypeOK'
<1>1. pc # "idle" /\ (pc = "cm" => dest \in Revisions)
  BY DEF CreateConfigMap, EnsureIngress, TypeOK, RunTypeOK
<1>2. RunTypeOK' /\ faults' \in 0..MaxFaults
  BY <1>1, AnsweredType DEF CreateConfigMap, EnsureIngress, TypeOK, MeshTypeOK
<1>3. MeshTypeOK'
  BY <1>1, <1>2
  DEF CreateConfigMap, EnsureIngress, TypeOK, MeshTypeOK, aksVars
<1> QED
  BY <1>2, <1>3, CacheUnchanged DEF CreateConfigMap, EnsureIngress, TypeOK

LEMMA EnsureRevisionTagType ==
  ASSUME TypeOK, EnsureRevisionTag
  PROVE  TypeOK'
<1>1. pc # "idle" /\ dest \in Revisions
  BY DEF EnsureRevisionTag, TypeOK, RunTypeOK
<1>2. RunTypeOK' /\ faults' \in 0..MaxFaults
  BY <1>1, AnsweredType, FailType DEF EnsureRevisionTag, TypeOK, MeshTypeOK
<1>3. MeshTypeOK'
  BY <1>1, <1>2 DEF EnsureRevisionTag, TypeOK, MeshTypeOK, aksVars
<1> QED
  BY <1>2, <1>3, CacheUnchanged DEF EnsureRevisionTag, TypeOK

\* The steps that only look.
LEMMA LookType ==
  ASSUME TypeOK, VerifyPlanes \/ HealthCheck \/ NamespacesDone
  PROVE  TypeOK'
<1>1. RunTypeOK'
  BY ProceedType, FailType
  DEF VerifyPlanes, HealthCheck, NamespacesDone, TypeOK
<1> QED
  BY <1>1, MeshUnchanged, CacheUnchanged
  DEF VerifyPlanes, HealthCheck, NamespacesDone, TypeOK, MeshTypeOK

LEMMA CheckTagsType ==
  ASSUME TypeOK, CheckTags
  PROVE  TypeOK'
<1>1. RunTypeOK'
  BY ProceedType, EndType DEF CheckTags, TypeOK, Outcomes
<1>2. CacheTypeOK'
  BY CacheFilled DEF CheckTags, TypeOK
<1> QED
  BY <1>1, <1>2, MeshUnchanged DEF CheckTags, TypeOK, MeshTypeOK

LEMMA ListNamespacesType ==
  ASSUME TypeOK, ListNamespaces
  PROVE  TypeOK'
<1>1. RunTypeOK'
  BY DEF ListNamespaces, TypeOK, RunTypeOK, plan
<1>2. CacheTypeOK'
  BY CacheFilled DEF ListNamespaces, TypeOK
<1> QED
  BY <1>1, <1>2, MeshUnchanged DEF ListNamespaces, TypeOK, MeshTypeOK

LEMMA UpdateLabelType ==
  ASSUME TypeOK, NEW ns \in Namespaces, UpdateLabel(ns)
  PROVE  TypeOK'
<1>1. pc # "idle" /\ dest \in Revisions
  BY DEF UpdateLabel, TypeOK, RunTypeOK
<1>2. RunTypeOK'
  BY <1>1, VisitType, FailType DEF UpdateLabel, TypeOK, RunTypeOK
<1>3. faults' \in 0..MaxFaults
  BY FaultType DEF UpdateLabel, TypeOK, MeshTypeOK
<1>4. label' \in [Namespaces -> Labels \cup {NoLabel}]
  BY <1>1 DEF UpdateLabel, TypeOK, MeshTypeOK, Labels
<1>5. MeshTypeOK'
  BY <1>3, <1>4 DEF UpdateLabel, TypeOK, MeshTypeOK, aksVars
<1> QED
  BY <1>2, <1>5, CacheUnchanged DEF UpdateLabel, Visit, TypeOK, cache

LEMMA LabelsUpdatedType ==
  ASSUME TypeOK, LabelsUpdated
  PROVE  TypeOK'
<1>1. CacheTypeOK'
  BY DEF LabelsUpdated, CacheTypeOK, EmptyCache
<1> QED
  BY <1>1, ProceedType, MeshUnchanged DEF LabelsUpdated, TypeOK, MeshTypeOK

LEMMA RestartNamespaceType ==
  ASSUME TypeOK, NEW ns \in Namespaces, RestartNamespace(ns)
  PROVE  TypeOK'
<1>1. dest \in Revisions
  BY DEF RestartNamespace, TypeOK, RunTypeOK
<1>2. RunTypeOK'
  BY VisitType DEF RestartNamespace, TypeOK, RunTypeOK
<1>3. faults' \in 0..MaxFaults
  BY FaultType DEF RestartNamespace, TypeOK, MeshTypeOK
<1>4. MeshTypeOK'
  BY <1>1, <1>3 DEF RestartNamespace, TypeOK, MeshTypeOK, aksVars
<1> QED
  BY <1>2, <1>4, CacheUnchanged DEF RestartNamespace, Visit, TypeOK

\* The visits to a namespace that leave the mesh alone.
LEMMA VisitingType ==
  ASSUME TypeOK, NEW ns \in Namespaces,
         \/ RestartFails(ns) \/ RolloutConverged(ns) \/ RolloutFails(ns)
         \/ CheckNamespace(ns)
  PROVE  TypeOK'
<1>1. Visit(ns) /\ UNCHANGED meshVars
  BY DEF RestartFails, RolloutConverged, RolloutFails, CheckNamespace
<1>2. failed' \in BOOLEAN
  BY DEF RestartFails, RolloutConverged, RolloutFails, CheckNamespace, TypeOK,
         RunTypeOK
<1>3. faults' \in 0..MaxFaults
  BY DeniedType
  DEF RestartFails, RolloutConverged, RolloutFails, CheckNamespace, TypeOK,
      MeshTypeOK
<1> QED
  BY <1>1, <1>2, <1>3, VisitType, MeshUnchanged, CacheUnchanged
  DEF Visit, TypeOK

LEMMA OrphansCheckedType ==
  ASSUME TypeOK, OrphansChecked
  PROVE  TypeOK'
<1>1. ASSUME RetriesLeft, pc' = "restart", attempt' = attempt + 1, NewLoop,
             UNCHANGED <<phase, op, target, stopAfter, dest, prev, read,
                         expired, outcome>>
      PROVE  RunTypeOK'
  <2>1. attempt' \in 0..MaxOrphanRetries
    BY <1>1, NextAttempt DEF RetriesLeft, TypeOK, RunTypeOK
  <2>2. dest \in Revisions /\ target \in Revisions
    BY DEF OrphansChecked, TypeOK, RunTypeOK
  <2> QED
    BY <1>1, <2>1, <2>2 DEF TypeOK, RunTypeOK, NewLoop, Steps, Calls
<1>2. ASSUME Fail \/ Arm("complete") \/ End("stopped") PROVE RunTypeOK'
  <2>1. pc = "orphans"
    BY DEF OrphansChecked
  <2> QED
    BY <1>2, <2>1, FailType, ArmType, EndType DEF TypeOK, Ops, Outcomes
<1>3. RunTypeOK'
  BY <1>1, <1>2 DEF OrphansChecked
<1> QED
  BY <1>3, MeshUnchanged, CacheUnchanged DEF OrphansChecked, TypeOK, MeshTypeOK

LEMMA DeleteConfigMapsType ==
  ASSUME TypeOK, DeleteConfigMaps
  PROVE  TypeOK'
<1>1. faults' \in 0..MaxFaults
  BY DeniedType DEF DeleteConfigMaps, TypeOK, MeshTypeOK
<1>2. MeshTypeOK'
  BY <1>1 DEF DeleteConfigMaps, TypeOK, MeshTypeOK, aksVars
<1> QED
  BY <1>2, ProceedType, CacheUnchanged DEF DeleteConfigMaps, TypeOK

LEMMA VerifyUpgradeType ==
  ASSUME TypeOK, VerifyUpgrade
  PROVE  TypeOK'
<1>1. ASSUME phase' = "canary", prev' = {dest}, dest' = target,
             op' = "start", pc' = "get", attempt' = 0,
             UNCHANGED <<target, stopAfter, read, expired, loop, outcome>>
      PROVE  RunTypeOK'
  <2>1. dest \in Revisions /\ target \in Revisions
    BY DEF VerifyUpgrade, TypeOK, RunTypeOK
  <2>2. prev' \subseteq Revisions /\ dest' \in Revisions
    BY <1>1, <2>1
  <2>3. attempt' \in 0..MaxOrphanRetries
    BY <1>1, NoAttempt
  <2> QED
    BY <1>1, <2>1, <2>2, <2>3
    DEF TypeOK, RunTypeOK, loop, Steps, Calls, Phases, Ops
<1>2. RunTypeOK'
  BY <1>1, EndType DEF VerifyUpgrade, TypeOK, Outcomes
<1> QED
  BY <1>2, MeshUnchanged, CacheUnchanged DEF VerifyUpgrade, TypeOK, MeshTypeOK

LEMMA NextType ==
  ASSUME TypeOK, [Next]_vars
  PROVE  TypeOK'
<1>1. CASE RunStep
  BY <1>1, ReadStateType, InspectType, ArmGetType, ArmPutType, ArmPollType,
     AnsweringType, CheckTagsType, LookType, EnsureRevisionTagType,
     ListNamespacesType, LabelsUpdatedType, OrphansCheckedType,
     UpdateLabelType, RestartNamespaceType, VisitingType,
     DeleteConfigMapsType, VerifyUpgradeType, CallFailsType
  DEF RunStep
<1>2. CASE UNCHANGED vars
  <2>1. RunTypeOK'
    BY <1>2 DEF vars, runVars, plan, loop, TypeOK, RunTypeOK
  <2> QED
    BY <1>2, <2>1, MeshUnchanged, CacheUnchanged DEF vars, TypeOK, MeshTypeOK
<1> QED
  BY <1>1, <1>2, StartRunType, ExitType, DeadlineType, EnvironmentType DEF Next

\* Every variable of the cluster and of a run keeps its type, whatever the
\* revisions, the namespaces and the number of faults.
THEOREM TypeCorrect == Spec => []TypeOK
<1>1. Init => TypeOK
  BY InitType
<1>2. TypeOK /\ [Next]_vars => TypeOK'
  BY NextType
<1> QED
  BY <1>1, <1>2, PTL DEF Spec


-----------------------------------------------------------------------------
(* The decision *)

\* A run installs only on a cluster without a mesh.
LEMMA InstallsOnNothing ==
  ASSUME NEW p, NEW i \in BOOLEAN, NEW S, NEW A, NEW t,
         Decide(p, i, S, A, t) = "install"
  PROVE  S = {}
<1>1. Classify(p, i, S, A, t) = "FreshInstall"
  <2>1. Classify(p, i, S, A, t) \in Scenarios
    BY DEF Classify, Scenarios
  <2> QED
    BY <2>1 DEF Decide, ActionOf, Scenarios
<1> QED
  BY <1>1 DEF Classify

\* A run reconciles a target that is installed, or was overtaken.
LEMMA ReconcilesInstalled ==
  ASSUME NEW p, NEW i \in BOOLEAN, NEW S, NEW A, NEW t,
         Decide(p, i, S, A, t) = "reconcile", ~SomeNewer(S, t)
  PROVE  t \in S
<1>1. Classify(p, i, S, A, t) \in {"AlreadyAtTarget", "Downgrade"}
  <2>1. Classify(p, i, S, A, t) \in Scenarios
    BY DEF Classify, Scenarios
  <2> QED
    BY <2>1 DEF Decide, ActionOf, Scenarios
<1> QED
  BY <1>1 DEF Classify

-----------------------------------------------------------------------------
(* The helpers that move a run from step to step keep TagInv. *)

LEMMA TagStays ==
  ASSUME TagInv, tag' = tag, revs \subseteq revs'
  PROVE  TagTargetsInstalled' /\ TagOnlyInTagMode'
BY DEF TagInv, TagTargetsInstalled, TagOnlyInTagMode

\* A run that has ended promises nothing but the tag.
LEMMA EndTag ==
  ASSUME NEW o, End(o), TagTargetsInstalled', TagOnlyInTagMode'
  PROVE  TagInv'
BY DEF TagInv, End, TagMoved, PhaseOfStep, DestInstalled, PrevInstalled,
       InstallsFirst, ReadInstalled, Running, Moving

\* Where Proceed goes.
LEMMA ProceedMoves ==
  ASSUME Proceed
  PROVE  \/ \E o : End(o)
         \/ /\ Goto("tagcheck") \/ Goto("planes")
            /\ pc \in {"cm", "tagcheck"}
            /\ phase = "canary" \/ pc' = "planes"
         \/ Goto("tag") /\ pc \in {"cm", "planes"} /\ TagMode
         \/ Goto("ingress") /\ pc \in {"cm", "planes"} /\ ~TagMode
         \/ Goto("ingress") /\ pc = "tag"
         \/ Goto("health") /\ pc = "ingress" /\ phase = "install"
         \/ Goto("flip") /\ pc = "ingress" /\ phase \notin {"install", "reconcile"}
         \/ Goto("restart") /\ pc = "flip"
         \/ Goto("rollout") /\ pc = "restart"
         \/ /\ Goto("health") \/ Goto("orphans")
            /\ pc = "rollout" /\ phase # "rollback"
         \/ Goto("orphans") /\ pc = "health" /\ phase # "install"
         \/ Goto("verify") /\ pc = "delete"
BY DEF Proceed, TagOrIngress, Goto, End, plan

LEMMA ProceedTag ==
  ASSUME TagInv, Proceed, revs' = revs, TagTargetsInstalled',
         TagOnlyInTagMode',
         TagMode /\ phase \in {"canary", "cleanup"}
                 /\ pc \in Moving \cup {"tag", "ingress", "health"}
           => tag' = dest
  PROVE  TagInv'
<1>1. ASSUME NEW o, End(o) PROVE TagInv'
  BY <1>1, EndTag
<1>2. ASSUME pc' \notin {"inspect", "get", "put", "exit"}, NewLoop,
             UNCHANGED <<plan, outcome>>, PhaseOfStep', Running,
             pc \notin {"inspect", "get", "put", "poll"},
             Completed => Completed', TagMoved'
      PROVE  TagInv'
  <2>1. DestInstalled'
    BY <1>2 DEF TagInv, DestInstalled, BeforeInstall, Running, plan
  <2>2. PrevInstalled'
    BY <1>2 DEF TagInv, PrevInstalled, Running, plan
  <2> QED
    BY <1>2, <2>1, <2>2 DEF TagInv, InstallsFirst, ReadInstalled
<1>3. \/ \E o : End(o)
      \/ /\ pc' \notin {"inspect", "get", "put", "exit"}
         /\ NewLoop /\ UNCHANGED <<plan, outcome>> /\ Running
         /\ pc \notin {"inspect", "get", "put", "poll"}
  BY ProceedMoves DEF Goto, Running
<1>4. ASSUME UNCHANGED plan PROVE PhaseOfStep' \/ \E o : End(o)
  BY <1>4, ProceedMoves DEF Goto, TagInv, PhaseOfStep, Moving, plan
<1>5. ASSUME UNCHANGED plan PROVE Completed => Completed' \/ \E o : End(o)
  BY <1>5, ProceedMoves DEF Goto, Completed, plan
<1>6. ASSUME UNCHANGED plan PROVE TagMoved' \/ \E o : End(o)
  BY <1>6, ProceedMoves DEF Goto, TagInv, TagMoved, Moving, plan
<1> QED
  BY <1>1, <1>2, <1>3, <1>4, <1>5, <1>6

LEMMA FailTag ==
  ASSUME TagInv, Fail, revs' = revs, TagTargetsInstalled', TagOnlyInTagMode'
  PROVE  TagInv'
<1>1. CASE phase = "reconcile" /\ Proceed
  BY <1>1, ProceedTag
<1>2. CASE End("failed")
  BY <1>2, EndTag
<1>3. ASSUME RollsBack, NEW old \in retiring, dest' = old,
             phase' = "rollback", pc' = RollbackStart, prev' = prev
      PROVE  TagInv'
  <2>1. prev \subseteq revs
    BY <1>3 DEF TagInv, PrevInstalled, RollsBack, Running, Completed
  <2>2. DestInstalled' /\ PrevInstalled'
    BY <1>3, <2>1 DEF retiring, DestInstalled, PrevInstalled
  <2>3. PhaseOfStep' /\ InstallsFirst' /\ ReadInstalled' /\ TagMoved'
    BY <1>3
    DEF RollbackStart, PhaseOfStep, InstallsFirst, ReadInstalled, TagMoved,
        Moving
  <2> QED
    BY <2>2, <2>3 DEF TagInv
<1> QED
  BY <1>1, <1>2, <1>3 DEF Fail

-----------------------------------------------------------------------------
(* The environment and the ends of a run *)

LEMMA InitTag == Init => TagInv
BY DEF Init, MeshInit, Fresh, TagInv, TagTargetsInstalled, TagOnlyInTagMode,
       TagMoved, PhaseOfStep, DestInstalled, PrevInstalled, InstallsFirst,
       ReadInstalled, Running, Moving

\* Whatever leaves the run alone, and takes no revision away.
LEMMA OthersTag ==
  ASSUME TagInv, UNCHANGED runVars, tag' = tag, revs \subseteq revs',
         revs = {} => revs' = {}
  PROVE  TagInv'
<1>1. TagTargetsInstalled' /\ TagOnlyInTagMode'
  BY TagStays
<1>2. TagMoved' /\ PhaseOfStep' /\ InstallsFirst'
  BY DEF TagInv, TagMoved, PhaseOfStep, InstallsFirst, runVars, plan
<1>3. DestInstalled' /\ PrevInstalled'
  BY DEF TagInv, DestInstalled, PrevInstalled, Running, BeforeInstall,
         Completed, runVars, plan
<1>4. ReadInstalled'
  BY DEF TagInv, ReadInstalled, runVars, plan
<1> QED
  BY <1>1, <1>2, <1>3, <1>4 DEF TagInv

LEMMA EnvironmentTag ==
  ASSUME TagInv, Environment, UNCHANGED <<runVars, cache>>
  PROVE  TagInv'
<1>1. tag' = tag /\ revs \subseteq revs'
  BY DEF Environment, ArmDone, ArmFails, Repair, ForeignCanary, CpUp, CpDown,
         PodStarts, PodExits, RolloutReady, NamespaceJoins, aksVars, kubeVars
<1>2. revs = {} => revs' = {}
  <2>1. Cardinality({}) # 1
    BY FS_EmptySet
  <2> QED
    BY <2>1
    DEF Environment, ArmDone, ArmFails, Repair, ForeignCanary, CpUp, CpDown,
        PodStarts, PodExits, RolloutReady, NamespaceJoins, aksVars
<1> QED
  BY <1>1, <1>2, OthersTag

LEMMA ForgetTag ==
  ASSUME TagInv, Forget
  PROVE  TagInv'
<1>1. TagTargetsInstalled' /\ TagOnlyInTagMode'
  BY TagStays DEF Forget, meshVars, aksVars, kubeVars
<1> QED
  BY <1>1
  DEF Forget, TagInv, TagMoved, PhaseOfStep, DestInstalled, PrevInstalled,
      InstallsFirst, ReadInstalled, Running, Moving

LEMMA ExitTag ==
  ASSUME TagInv, Exit \/ Crash
  PROVE  TagInv'
BY ForgetTag DEF Exit, Crash

LEMMA DeadlineTag ==
  ASSUME TagInv, Deadline
  PROVE  TagInv'
BY OthersTag
DEF Deadline, TagInv, TagTargetsInstalled, TagOnlyInTagMode, TagMoved,
    PhaseOfStep, DestInstalled, PrevInstalled, InstallsFirst, ReadInstalled,
    Running, BeforeInstall, Completed, meshVars, aksVars, kubeVars

-----------------------------------------------------------------------------
(* The steps of a run *)

LEMMA StartRunTag ==
  ASSUME TagInv, StartRun
  PROVE  TagInv'
<1>1. TagTargetsInstalled' /\ TagOnlyInTagMode'
  BY TagStays DEF StartRun, meshVars, aksVars, kubeVars
<1> QED
  BY <1>1
  DEF StartRun, TagInv, TagMoved, PhaseOfStep, DestInstalled, PrevInstalled,
      InstallsFirst, ReadInstalled, Running, Moving

LEMMA ReadStateTag ==
  ASSUME TagInv, ReadState
  PROVE  TagInv'
<1>1. revs' = revs /\ TagTargetsInstalled' /\ TagOnlyInTagMode'
  BY TagStays DEF ReadState, meshVars, aksVars, kubeVars
<1>2. ASSUME NEW action,
             pc' = "inspect", prev' = revs,
             phase' = CASE action = "install" -> "install"
                        [] action = "reconcile" -> "reconcile"
                        [] action = "cleanup-and-upgrade" -> "cleanup"
                        [] OTHER -> "canary",
             action = "install" => revs = {},
             action \in {"reconcile", "cleanup-and-upgrade"} => dest' \in revs
      PROVE  TagInv'
  <2>1. PhaseOfStep' /\ TagMoved' /\ ReadInstalled'
    BY <1>2 DEF PhaseOfStep, TagMoved, ReadInstalled, Moving
  <2>2. InstallsFirst' /\ DestInstalled' /\ PrevInstalled'
    BY <1>1, <1>2
    DEF InstallsFirst, DestInstalled, PrevInstalled, BeforeInstall
  <2> QED
    BY <1>1, <2>1, <2>2 DEF TagInv
<1>3. ASSUME End("skipped") PROVE TagInv'
  BY <1>1, <1>3, EndTag
<1>4. PICK i \in BOOLEAN :
        LET action == Decide(prov, i, revs, IF i THEN {} ELSE Offered, target)
        IN  \/ End("skipped")
            \/ /\ pc' = "inspect" /\ prev' = revs
               /\ phase' = CASE action = "install" -> "install"
                             [] action = "reconcile" -> "reconcile"
                             [] action = "cleanup-and-upgrade" -> "cleanup"
                             [] OTHER -> "canary"
               /\ CASE action = "cleanup-and-upgrade" -> dest' \in revs
                    [] action = "reconcile" /\ SomeNewer(revs, target) ->
                         dest' \in revs
                    [] OTHER -> dest' = target
  BY DEF ReadState, IsLowest, IsHighest
<1> DEFINE A == IF i THEN {} ELSE Offered
           action == Decide(prov, i, revs, A, target)
<1>5. action = "install" => revs = {}
  BY InstallsOnNothing
<1>6. action = "reconcile" /\ ~SomeNewer(revs, target) => target \in revs
  BY ReconcilesInstalled
<1>7. \/ End("skipped")
      \/ /\ pc' = "inspect" /\ prev' = revs
         /\ phase' = CASE action = "install" -> "install"
                       [] action = "reconcile" -> "reconcile"
                       [] action = "cleanup-and-upgrade" -> "cleanup"
                       [] OTHER -> "canary"
         /\ CASE action = "cleanup-and-upgrade" -> dest' \in revs
              [] action = "reconcile" /\ SomeNewer(revs, target) -> dest' \in revs
              [] OTHER -> dest' = target
  BY <1>4
<1> HIDE DEF action
<1>8. ASSUME ~End("skipped"), action \in {"reconcile", "cleanup-and-upgrade"}
      PROVE  dest' \in revs
  BY <1>6, <1>7, <1>8
<1> QED
  BY <1>2, <1>3, <1>5, <1>7, <1>8

LEMMA InspectTag ==
  ASSUME TagInv, Inspect
  PROVE  TagInv'
<1>1. revs' = revs /\ TagTargetsInstalled' /\ TagOnlyInTagMode'
  BY TagStays DEF Inspect, meshVars, aksVars, kubeVars
<1>2. \/ Arm("enable") /\ phase = "install"
      \/ Arm("start") /\ phase = "canary"
      \/ Goto("cm") /\ phase # "install" /\ (phase = "canary" => dest \in prev)
  BY DEF Inspect, NeedsCanary
<1>3. pc = "inspect"
  BY DEF Inspect
<1>4. PhaseOfStep'
  BY <1>2, <1>3 DEF TagInv, PhaseOfStep, Moving, Arm, Goto, plan
<1>5. DestInstalled' /\ PrevInstalled'
  BY <1>1, <1>2, <1>3
  DEF TagInv, DestInstalled, PrevInstalled, BeforeInstall, Completed, Running,
      Arm, Goto, plan
<1>6. InstallsFirst' /\ ReadInstalled' /\ TagMoved'
  BY <1>1, <1>2, <1>3
  DEF TagInv, InstallsFirst, ReadInstalled, TagMoved, Moving, Arm, Goto, plan
<1> QED
  BY <1>1, <1>4, <1>5, <1>6 DEF TagInv

LEMMA CallFailsTag ==
  ASSUME TagInv, CallFails
  PROVE  TagInv'
BY TagStays, FailTag DEF CallFails, meshVars, aksVars, kubeVars

LEMMA ArmGetTag ==
  ASSUME TagInv, ArmGet
  PROVE  TagInv'
<1>1. revs' = revs /\ tag' = tag /\ TagTargetsInstalled' /\ TagOnlyInTagMode'
  BY TagStays DEF ArmGet, meshVars, aksVars, kubeVars
<1>2. ASSUME pc' = "put", read' = revs,
             UNCHANGED <<phase, op, target, stopAfter, dest, prev>>
      PROVE  TagInv'
  <2>1. pc = "get"
    BY DEF ArmGet
  <2>2. PhaseOfStep' /\ InstallsFirst' /\ TagMoved'
    BY <1>1, <1>2, <2>1
    DEF TagInv, PhaseOfStep, InstallsFirst, TagMoved, Moving
  <2>3. DestInstalled' /\ PrevInstalled'
    BY <1>1, <1>2, <2>1
    DEF TagInv, DestInstalled, PrevInstalled, BeforeInstall, Completed, Running
  <2>4. op = "start" => prev \subseteq revs
    BY <2>1
    DEF TagInv, PhaseOfStep, PrevInstalled, Completed, Running
  <2>5. tag \in revs \cup {NoRevision}
    BY DEF TagInv, TagTargetsInstalled
  <2>6. ReadInstalled'
    BY <1>1, <1>2, <2>4, <2>5 DEF ReadInstalled
  <2> QED
    BY <1>1, <2>2, <2>3, <2>6 DEF TagInv
<1> QED
  BY <1>1, <1>2, EndTag DEF ArmGet

LEMMA ArmPutTag ==
  ASSUME TagInv, ArmPut
  PROVE  TagInv'
<1>1. CASE End("failed") /\ UNCHANGED meshVars
  BY <1>1, EndTag, TagStays DEF meshVars, aksVars, kubeVars
<1>2. ASSUME revs' = ArmGoal, tag' = tag, Goto("poll") \/ End("failed")
      PROVE  TagInv'
  <2>1. pc = "put"
    BY DEF ArmPut
  <2>2. tag \in ArmGoal \cup {NoRevision}
    <3>1. CASE op = "start"
      BY <2>1, <3>1 DEF ArmGoal, TagInv, ReadInstalled
    <3>2. CASE op = "enable"
      BY <2>1, <3>2
      DEF TagInv, PhaseOfStep, InstallsFirst, TagTargetsInstalled
    <3>3. CASE op = "complete"
      BY <2>1, <3>3
      DEF ArmGoal, TagInv, PhaseOfStep, TagMoved, TagOnlyInTagMode
    <3> QED
      BY <2>1, <3>1, <3>2, <3>3 DEF TagInv, PhaseOfStep
  <2>3. TagTargetsInstalled' /\ TagOnlyInTagMode'
    BY <1>2, <2>2 DEF TagInv, TagTargetsInstalled, TagOnlyInTagMode
  <2>4. CASE End("failed")
    BY <2>3, <2>4, EndTag
  <2>5. CASE Goto("poll")
    <3>1. PhaseOfStep' /\ InstallsFirst' /\ TagMoved' /\ ReadInstalled'
      BY <2>1, <2>5
      DEF TagInv, PhaseOfStep, InstallsFirst, TagMoved, ReadInstalled, Moving,
          Goto, plan
    <3>2. DestInstalled'
      BY <1>2, <2>5 DEF DestInstalled, ArmGoal, Goto, plan
    <3>3. PrevInstalled'
      BY <1>2, <2>1, <2>5
      DEF TagInv, PhaseOfStep, PrevInstalled, ReadInstalled, Completed, ArmGoal,
          Goto, plan
    <3> QED
      BY <2>3, <3>1, <3>2, <3>3 DEF TagInv
  <2> QED
    BY <1>2, <2>4, <2>5
<1> QED
  BY <1>1, <1>2 DEF ArmPut, kubeVars

LEMMA ArmPollTag ==
  ASSUME TagInv, ArmPoll
  PROVE  TagInv'
<1>1. revs' = revs /\ TagTargetsInstalled' /\ TagOnlyInTagMode'
  BY TagStays DEF ArmPoll, meshVars, aksVars, kubeVars
<1>2. ASSUME NEW o, End(o) PROVE TagInv'
  BY <1>1, <1>2, EndTag
<1>3. CASE \/ Goto("cm") /\ op \in {"enable", "start"}
           \/ Goto("delete") /\ op = "complete"
  <2>1. pc = "poll"
    BY DEF ArmPoll
  <2>2. PhaseOfStep' /\ InstallsFirst' /\ TagMoved' /\ ReadInstalled'
    BY <1>3, <2>1
    DEF TagInv, PhaseOfStep, InstallsFirst, TagMoved, ReadInstalled, Moving,
        Goto, plan
  <2>3. DestInstalled' /\ PrevInstalled'
    BY <1>1, <1>3, <2>1
    DEF TagInv, DestInstalled, PrevInstalled, BeforeInstall, Completed, Running,
        Goto, plan
  <2> QED
    BY <1>1, <2>2, <2>3 DEF TagInv
<1> QED
  BY <1>2, <1>3 DEF ArmPoll

\* The steps that proceed or fail with the tag where it was, at calls where
\* proceeding does not depend on it.
LEMMA AnsweringTag ==
  ASSUME TagInv,
         \/ CreateConfigMap \/ EnsureIngress \/ VerifyPlanes \/ HealthCheck
         \/ NamespacesDone \/ LabelsUpdated \/ CheckTags \/ DeleteConfigMaps
  PROVE  TagInv'
<1>1. revs' = revs /\ tag' = tag
  BY DEF CreateConfigMap, EnsureIngress, VerifyPlanes, HealthCheck,
         NamespacesDone, LabelsUpdated, CheckTags, DeleteConfigMaps, meshVars,
         aksVars, kubeVars
<1>2. TagTargetsInstalled' /\ TagOnlyInTagMode'
  BY <1>1, TagStays
<1>3. Proceed \/ Fail \/ End("failed")
  BY DEF CreateConfigMap, EnsureIngress, VerifyPlanes, HealthCheck,
         NamespacesDone, LabelsUpdated, CheckTags, DeleteConfigMaps, Answered
<1>4. TagMode /\ phase \in {"canary", "cleanup"}
              /\ pc \in Moving \cup {"tag", "ingress", "health"}
        => tag' = dest
  <2>1. pc # "tag"
    BY DEF CreateConfigMap, EnsureIngress, VerifyPlanes, HealthCheck,
           NamespacesDone, LabelsUpdated, CheckTags, DeleteConfigMaps
  <2> QED
    BY <1>1, <2>1 DEF TagInv, TagMoved
<1> QED
  BY <1>1, <1>2, <1>3, <1>4, ProceedTag, FailTag, EndTag

LEMMA EnsureRevisionTagTag ==
  ASSUME TagInv, EnsureRevisionTag
  PROVE  TagInv'
<1>1. revs' = revs
  BY DEF EnsureRevisionTag, aksVars
<1>2. CASE tag' = tag /\ Fail
  BY <1>1, <1>2, TagStays, FailTag
<1>3. CASE tag' = dest /\ Answered
  <2>1. dest \in revs
    BY DEF EnsureRevisionTag, TagInv, DestInstalled, Running, BeforeInstall
  <2>2. TagMode
    BY DEF EnsureRevisionTag, TagInv, PhaseOfStep
  <2>3. TagTargetsInstalled' /\ TagOnlyInTagMode'
    BY <1>1, <1>3, <2>1, <2>2 DEF TagTargetsInstalled, TagOnlyInTagMode
  <2> QED
    BY <1>1, <1>3, <2>3, ProceedTag, FailTag DEF Answered
<1> QED
  BY <1>2, <1>3 DEF EnsureRevisionTag

\* A step of a loop stays at its call.
LEMMA LoopTag ==
  ASSUME TagInv, UNCHANGED <<revs, tag, pc, plan>>
  PROVE  TagInv'
BY DEF TagInv, TagTargetsInstalled, TagOnlyInTagMode, TagMoved, PhaseOfStep,
       DestInstalled, PrevInstalled, InstallsFirst, ReadInstalled, Running,
       BeforeInstall, Completed, plan

LEMMA ListNamespacesTag ==
  ASSUME TagInv, ListNamespaces
  PROVE  TagInv'
BY LoopTag DEF ListNamespaces, meshVars, aksVars, kubeVars

LEMMA VisitTag ==
  ASSUME TagInv, NEW ns \in Namespaces,
         \/ RestartNamespace(ns) \/ RestartFails(ns) \/ RolloutConverged(ns)
         \/ RolloutFails(ns) \/ CheckNamespace(ns)
  PROVE  TagInv'
BY LoopTag
DEF RestartNamespace, RestartFails, RolloutConverged, RolloutFails,
    CheckNamespace, Visit, meshVars, aksVars, kubeVars

LEMMA UpdateLabelTag ==
  ASSUME TagInv, NEW ns \in Namespaces, UpdateLabel(ns)
  PROVE  TagInv'
<1>1. CASE Visit(ns)
  BY <1>1, LoopTag DEF UpdateLabel, Visit, aksVars
<1>2. CASE Fail
  BY <1>2, TagStays, FailTag DEF UpdateLabel, aksVars
<1> QED
  BY <1>1, <1>2 DEF UpdateLabel

LEMMA OrphansCheckedTag ==
  ASSUME TagInv, OrphansChecked
  PROVE  TagInv'
<1>1. /\ revs' = revs /\ tag' = tag /\ pc = "orphans"
      /\ TagTargetsInstalled' /\ TagOnlyInTagMode'
  BY TagStays DEF OrphansChecked, meshVars, aksVars, kubeVars
<1>2. ASSUME Fail \/ End("stopped") PROVE TagInv'
  BY <1>1, <1>2, FailTag, EndTag
<1>3. ASSUME \/ pc' = "restart" /\ op' = op
             \/ pc' = "get" /\ op' = "complete",
             UNCHANGED <<phase, dest, prev, read>>
      PROVE  TagInv'
  <2>1. phase \in {"canary", "cleanup"}
    BY <1>1 DEF TagInv, PhaseOfStep
  <2>2. PhaseOfStep' /\ InstallsFirst' /\ ReadInstalled' /\ TagMoved'
    BY <1>1, <1>3, <2>1
    DEF TagInv, PhaseOfStep, InstallsFirst, ReadInstalled, TagMoved, Moving
  <2>3. DestInstalled' /\ PrevInstalled'
    BY <1>1, <1>3, <2>1
    DEF TagInv, DestInstalled, PrevInstalled, BeforeInstall, Completed, Running
  <2> QED
    BY <1>1, <2>2, <2>3 DEF TagInv
<1> QED
  BY <1>2, <1>3 DEF OrphansChecked, Arm

LEMMA VerifyUpgradeTag ==
  ASSUME TagInv, VerifyUpgrade
  PROVE  TagInv'
<1>1. /\ revs' = revs /\ pc = "verify"
      /\ TagTargetsInstalled' /\ TagOnlyInTagMode'
  BY TagStays DEF VerifyUpgrade, meshVars, aksVars, kubeVars
<1>2. ASSUME NEW o, End(o) PROVE TagInv'
  BY <1>1, <1>2, EndTag
<1>3. ASSUME phase = "cleanup", phase' = "canary", prev' = {dest},
             op' = "start", pc' = "get"
      PROVE  TagInv'
  <2>1. dest \in revs
    BY <1>1 DEF TagInv, DestInstalled, Running, BeforeInstall
  <2>2. DestInstalled' /\ PrevInstalled'
    BY <1>1, <1>3, <2>1
    DEF DestInstalled, PrevInstalled, BeforeInstall
  <2>3. PhaseOfStep' /\ InstallsFirst' /\ ReadInstalled' /\ TagMoved'
    BY <1>3
    DEF PhaseOfStep, InstallsFirst, ReadInstalled, TagMoved, Moving
  <2> QED
    BY <1>1, <2>2, <2>3 DEF TagInv
<1> QED
  BY <1>2, <1>3 DEF VerifyUpgrade

LEMMA NextTag ==
  ASSUME TagInv, [Next]_vars
  PROVE  TagInv'
<1>1. CASE RunStep
  BY <1>1, ReadStateTag, InspectTag, ArmGetTag, ArmPutTag, ArmPollTag,
     AnsweringTag, EnsureRevisionTagTag, ListNamespacesTag, OrphansCheckedTag,
     UpdateLabelTag, VisitTag, VerifyUpgradeTag, CallFailsTag
  DEF RunStep
<1>2. CASE UNCHANGED vars
  BY <1>2, LoopTag DEF vars, meshVars, aksVars, runVars, kubeVars
<1> QED
  BY <1>1, <1>2, StartRunTag, ExitTag, DeadlineTag, EnvironmentTag DEF Next

\* The inductive invariant: what a run relies on between its calls.
THEOREM TagInvariant == Spec => []TagInv
<1>1. Init => TagInv
  BY InitTag
<1>2. TagInv /\ [Next]_vars => TagInv'
  BY NextTag
<1> QED
  BY <1>1, <1>2, PTL DEF Spec

\* The tag webhook never points at a control plane that ARM was told to
\* remove: EnsureRevisionTag, the rollback and both completions together,
\* whatever fails, expires, crashes or is changed by somebody else.
THEOREM TagSafe == Spec => []TagTargetsInstalled
<1>1. TagInv => TagTargetsInstalled
  BY DEF TagInv
<1> QED
  BY <1>1, TagInvariant, PTL
=============================================================================
