------------------------- MODULE IstioCanary_proofs --------------------------
(***************************************************************************)
(* What a run adds, goes back to and removes: canaries are newer than what *)
(* they are put next to, seen from outside a run does nothing but install, *)
(* switch and retire, a rollback leaves the previous revision in charge,   *)
(* and a completion removes what nobody that the run knows depends on.     *)
(* The inductive invariants are those of IstioInvariant.                   *)
(***************************************************************************)
EXTENDS IstioUpgrade_proofs

-----------------------------------------------------------------------------
(* How steps move a run *)

\* The steps that touch neither ARM nor what the run builds on.
MeshStep ==
  \/ CreateConfigMap \/ CheckTags \/ VerifyPlanes \/ EnsureRevisionTag
  \/ EnsureIngress \/ HealthCheck
  \/ ListNamespaces \/ LabelsUpdated \/ NamespacesDone
  \/ \E ns \in Namespaces :
       \/ UpdateLabel(ns) \/ RestartNamespace(ns) \/ RestartFails(ns)
       \/ RolloutConverged(ns) \/ RolloutFails(ns) \/ CheckNamespace(ns)
  \/ DeleteConfigMaps \/ CallFails

\* The rollback, as Fail starts it.
StartsRollback ==
  /\ RollsBack
  /\ \E old \in retiring : dest' = old
  /\ phase' = "rollback" /\ pc' = "flip" /\ NewLoop
  /\ UNCHANGED <<op, target, stopAfter, prev, read, expired, outcome>>

LEMMA FailMoves ==
  ASSUME Fail
  PROVE  (Proceed /\ phase = "reconcile") \/ End("failed") \/ StartsRollback
BY DEF Fail, StartsRollback, RollbackStart

LEMMA MeshStepMoves ==
  ASSUME MeshStep
  PROVE  /\ UNCHANGED aksVars
         /\ \/ UNCHANGED <<pc, plan, outcome>>
            \/ Proceed \/ End("failed") \/ StartsRollback
<1>1. UNCHANGED aksVars
  BY DEF MeshStep, CreateConfigMap, CheckTags, VerifyPlanes, EnsureRevisionTag,
         EnsureIngress, HealthCheck, ListNamespaces, LabelsUpdated,
         NamespacesDone, UpdateLabel, RestartNamespace, RestartFails,
         RolloutConverged, RolloutFails, CheckNamespace, DeleteConfigMaps,
         CallFails, meshVars, aksVars
<1>2. \/ UNCHANGED <<pc, plan, outcome>>
      \/ Proceed \/ End("failed") \/ Fail
  BY DEF MeshStep, CreateConfigMap, CheckTags, VerifyPlanes, EnsureRevisionTag,
         EnsureIngress, HealthCheck, ListNamespaces, LabelsUpdated,
         NamespacesDone, UpdateLabel, RestartNamespace, RestartFails,
         RolloutConverged, RolloutFails, CheckNamespace, DeleteConfigMaps,
         CallFails, Visit, Answered
<1> QED
  BY <1>1, <1>2, FailMoves

\* Proceed leaves the plan, and never goes to ARM.
LEMMA ProceedPlan ==
  ASSUME Proceed
  PROVE  /\ UNCHANGED plan
         /\ Running
         /\ pc' \notin {"idle", "read", "inspect", "get", "put", "poll", "delete"}
         /\ pc' = "verify" => pc = "delete"
         /\ pc' = "flip" => pc = "ingress" /\ ~listed' /\ todo' = {}
         /\ pc = "delete" => pc' \in {"verify", "exit"}
<1>1. UNCHANGED plan
  BY ProceedMoves DEF Goto, End
<1>2. pc \in {"cm", "tagcheck", "planes", "tag", "ingress", "flip", "restart",
              "rollout", "health", "delete"}
  BY DEF Proceed
<1>3. \/ pc' = "exit"
      \/ pc' \in {"tagcheck", "planes", "tag", "ingress", "health", "restart",
                 "rollout", "orphans"} /\ pc # "delete"
      \/ pc' = "verify" /\ pc = "delete"
      \/ pc' = "flip" /\ pc = "ingress" /\ ~listed' /\ todo' = {}
  BY ProceedMoves DEF Goto, End, NewLoop
<1> QED
  BY <1>1, <1>2, <1>3 DEF Running

-----------------------------------------------------------------------------
(* The environment, as far as these invariants see it *)

LEMMA EnvironmentMoves ==
  ASSUME Environment
  PROVE  \/ /\ prov' = "Succeeded" /\ planes' = revs
            /\ UNCHANGED <<revs, kubeVars>>
         \/ /\ prov' = "Failed" /\ planes' \in {planes, planes \cup revs}
            /\ UNCHANGED <<revs, kubeVars>>
         \/ ForeignCanary
         \/ UNCHANGED <<revs, prov, planes, tag, cm>>
BY DEF Environment, ArmDone, ArmFails, Repair, CpUp, CpDown,
       PodStarts, PodExits, RolloutReady, NamespaceJoins, aksVars, kubeVars

LEMMA ForeignGrows ==
  ASSUME TypeOK, ForeignCanary
  PROVE  /\ revs \subseteq revs'
         /\ \E r \in ForeignRevs :
              revs' = revs \cup {r} /\ r \in Revisions /\ \A q \in revs : q < r
         /\ UNCHANGED <<planes, tag>>
BY ForeignAssumption DEF ForeignCanary, kubeVars

-----------------------------------------------------------------------------
(* Canaries are newer than what they are put next to: NewestInv *)

\* What Decide says of the flows that start a canary.
LEMMA DecidesOnNewer ==
  ASSUME NEW p, NEW i \in BOOLEAN, NEW S, NEW A, NEW t,
         Decide(p, i, S, A, t) \in {"upgrade", "resume", "cleanup-and-upgrade"}
  PROVE  /\ p = "Succeeded"
         /\ \/ t \in S /\ Decide(p, i, S, A, t) = "resume"
            \/ t \notin S /\ S # {} /\ ~SomeNewer(S, t)
<1>1. /\ Classify(p, i, S, A, t) \in {"MidUpgrade", "UpgradeAvailable", "StaleCanary"}
      /\ Classify(p, i, S, A, t) = "MidUpgrade" => Decide(p, i, S, A, t) = "resume"
  <2>1. Classify(p, i, S, A, t) \in Scenarios
    BY DEF Classify, Scenarios
  <2> QED
    BY <2>1 DEF Decide, ActionOf, Scenarios
<1> QED
  BY <1>1 DEF Classify

LEMMA AllOlder ==
  ASSUME NEW S \in SUBSET Nat, NEW t \in Nat, t \notin S, ~SomeNewer(S, t)
  PROVE  \A q \in S : q < t
BY DEF SomeNewer

\* ARM's list as others leave it: as it was, or with a newer canary of theirs.
OthersGrow ==
  /\ revs \subseteq revs'
  /\ \A r \in revs' \ revs : r \in ForeignRevs /\ \A q \in revs : q < r

\* Any step after which the run is about to start nothing new.
LEMMA NewestQuiet ==
  ASSUME NewestInv, UNCHANGED <<read, target>>, IsFiniteSet(revs'),
         pc' = "put" => OthersGrow,
         phase' = "cleanup" => phase = "cleanup" /\ dest' = dest,
         \/ UNCHANGED <<pc, phase, op, dest, prev>>
         \/ pc' \notin {"inspect", "get", "put"}
         \/ pc' = "get" /\ op' = "complete"
  PROVE  NewestInv'
BY DEF NewestInv, ReadStillInstalled, MissesOnlyForeign, NewerThanFound,
       StartsAbsent, Starting, NeedsCanary, OthersGrow

LEMMA InitNewest == Init => NewestInv
BY InitialAssumption, FS_EmptySet
DEF Init, MeshInit, Fresh, NewestInv, ReadStillInstalled, MissesOnlyForeign,
    NewerThanFound, StartsAbsent, Starting

LEMMA MeshStepNewest ==
  ASSUME NewestInv, MeshStep
  PROVE  NewestInv'
<1>1. revs' = revs /\ IsFiniteSet(revs')
  BY MeshStepMoves DEF aksVars, NewestInv
<1>2. CASE UNCHANGED <<pc, plan, outcome>>
  BY <1>1, <1>2, NewestQuiet DEF OthersGrow, plan
<1>3. CASE Proceed \/ End("failed")
  <2>1. UNCHANGED plan /\ pc' \notin {"inspect", "get", "put"}
    BY <1>3, ProceedPlan DEF End
  <2> QED
    BY <1>1, <2>1, NewestQuiet DEF OthersGrow, plan
<1>4. CASE StartsRollback
  BY <1>1, <1>4, NewestQuiet DEF OthersGrow, StartsRollback
<1> QED
  BY <1>2, <1>3, <1>4, MeshStepMoves

LEMMA EnvironmentNewest ==
  ASSUME TypeOK, NewestInv, Environment, UNCHANGED <<runVars, cache>>
  PROVE  NewestInv'
<1>1. OthersGrow /\ IsFiniteSet(revs')
  BY EnvironmentMoves, ForeignGrows, FS_AddElement DEF NewestInv, OthersGrow
<1> QED
  BY <1>1, NewestQuiet DEF OthersGrow, runVars, plan

LEMMA EndsNewest ==
  ASSUME TagInv, NewestInv,
         StartRun \/ Exit \/ Crash \/ Deadline \/ UNCHANGED vars
  PROVE  NewestInv'
<1>1. revs' = revs /\ IsFiniteSet(revs')
  BY DEF StartRun, Exit, Crash, Forget, Deadline, vars, meshVars, aksVars, NewestInv
<1>2. CASE StartRun
  BY <1>1, <1>2
  DEF StartRun, TagInv, PhaseOfStep, NewestInv, ReadStillInstalled,
      MissesOnlyForeign, NewerThanFound, StartsAbsent, Starting
<1>3. CASE Exit \/ Crash
  BY <1>1, <1>3, FS_EmptySet
  DEF Exit, Crash, Forget, NewestInv, ReadStillInstalled, MissesOnlyForeign,
      NewerThanFound, StartsAbsent
<1>4. CASE Deadline \/ UNCHANGED vars
  BY <1>1, <1>4, NewestQuiet DEF OthersGrow, Deadline, vars, runVars, plan
<1> QED
  BY <1>2, <1>3, <1>4

LEMMA ReadStateNewest ==
  ASSUME TypeOK, NewestInv, ReadState
  PROVE  NewestInv'
<1>1. /\ revs' = revs /\ IsFiniteSet(revs') /\ revs \in SUBSET Nat
      /\ target \in Nat
  BY RevisionsAssumption
  DEF ReadState, meshVars, aksVars, NewestInv, TypeOK, MeshTypeOK, RunTypeOK
<1>2. CASE End("skipped")
  BY <1>1, <1>2, NewestQuiet DEF OthersGrow, End, plan
<1>3. ASSUME ~End("skipped") PROVE NewestInv'
  <2>1. PICK i \in BOOLEAN :
          LET action == Decide(prov, i, revs, IF i THEN {} ELSE Offered, target)
          IN  /\ action # "skip"
              /\ pc' = "inspect"
              /\ prev' = revs
              /\ phase' = CASE action = "install" -> "install"
                            [] action = "reconcile" -> "reconcile"
                            [] action = "cleanup-and-upgrade" -> "cleanup"
                            [] OTHER -> "canary"
              /\ CASE action = "cleanup-and-upgrade" -> dest' \in revs
                   [] action = "reconcile" /\ SomeNewer(revs, target) ->
                        dest' \in revs
                   [] OTHER -> dest' = target
              /\ UNCHANGED <<target, read>>
    BY <1>3 DEF ReadState, IsLowest, IsHighest
  <2> DEFINE A == IF i THEN {} ELSE Offered
             action == Decide(prov, i, revs, A, target)
  <2>2. action \in Actions
    <3>1. Classify(prov, i, revs, A, target) \in Scenarios
      BY DEF Classify, Scenarios
    <3> QED
      BY <3>1 DEF Decide, ActionOf, Scenarios, Actions
  <2>3. phase' \in {"canary", "cleanup"} =>
          action \in {"upgrade", "resume", "cleanup-and-upgrade"}
    BY <2>1, <2>2 DEF Actions
  <2>4. phase' = "cleanup" => action = "cleanup-and-upgrade"
    BY <2>1
  <2>5. phase' = "canary" => dest' = target
    BY <2>1
  <2>6. action = "cleanup-and-upgrade" => dest' \in revs
    BY <2>1
  <2>7. phase' \in {"canary", "cleanup"} =>
          \/ target \in revs /\ action = "resume"
          \/ revs # {} /\ \A q \in revs : q < target
    BY <1>1, <2>3, DecidesOnNewer, AllOlder
  <2> HIDE DEF action
  <2>8. NewerThanFound'
    BY <2>1, <2>4, <2>5, <2>6, <2>7 DEF NewerThanFound, Starting, NeedsCanary
  <2> QED
    BY <1>1, <2>1, <2>8
    DEF NewestInv, ReadStillInstalled, MissesOnlyForeign, StartsAbsent
<1> QED
  BY <1>2, <1>3

LEMMA InspectNewest ==
  ASSUME NewestInv, Inspect
  PROVE  NewestInv'
<1>1. revs' = revs /\ IsFiniteSet(revs') /\ pc = "inspect"
  BY DEF Inspect, meshVars, aksVars, NewestInv
<1>2. CASE Goto("cm")
  BY <1>1, <1>2, NewestQuiet DEF OthersGrow, Goto, plan
<1>3. CASE Arm("enable") /\ phase = "install"
  BY <1>1, <1>3
  DEF Arm, NewestInv, ReadStillInstalled, MissesOnlyForeign, NewerThanFound,
      StartsAbsent, Starting
<1>4. CASE Arm("start") /\ phase = "canary" /\ NeedsCanary
  BY <1>1, <1>4
  DEF Arm, NewestInv, ReadStillInstalled, MissesOnlyForeign, NewerThanFound,
      StartsAbsent, Starting
<1> QED
  BY <1>2, <1>3, <1>4 DEF Inspect

LEMMA ArmGetNewest ==
  ASSUME NewestInv, ArmGet
  PROVE  NewestInv'
<1>1. revs' = revs /\ IsFiniteSet(revs') /\ pc = "get"
  BY DEF ArmGet, meshVars, aksVars, NewestInv
<1>2. CASE End("failed")
  BY <1>1, <1>2, NewestQuiet DEF OthersGrow, End, plan
<1>3. CASE /\ ~(op = "start" /\ dest \in revs) /\ pc' = "put" /\ read' = revs
           /\ UNCHANGED <<phase, op, target, dest, prev>>
  BY <1>1, <1>3
  DEF NewestInv, ReadStillInstalled, MissesOnlyForeign, NewerThanFound,
      StartsAbsent, Starting
<1> QED
  BY <1>2, <1>3 DEF ArmGet

LEMMA GoalFinite ==
  ASSUME NewestInv
  PROVE  IsFiniteSet(ArmGoal)
BY FS_AddElement, FS_Singleton DEF NewestInv, ArmGoal

LEMMA ArmPutNewest ==
  ASSUME NewestInv, ArmPut
  PROVE  NewestInv'
<1>1. IsFiniteSet(revs')
  BY GoalFinite DEF ArmPut, meshVars, aksVars, NewestInv
<1>2. End("failed") \/ Goto("poll")
  BY DEF ArmPut
<1> QED
  BY <1>1, <1>2, NewestQuiet DEF OthersGrow, End, Goto, plan

LEMMA ArmPollNewest ==
  ASSUME NewestInv, ArmPoll
  PROVE  NewestInv'
<1>1. IsFiniteSet(revs')
  BY DEF ArmPoll, meshVars, aksVars, NewestInv
<1>2. (\E o : End(o)) \/ Goto("cm") \/ Goto("delete")
  BY DEF ArmPoll
<1> QED
  BY <1>1, <1>2, NewestQuiet DEF OthersGrow, End, Goto, plan

LEMMA OrphansCheckedNewest ==
  ASSUME NewestInv, OrphansChecked
  PROVE  NewestInv'
<1>1. IsFiniteSet(revs')
  BY DEF OrphansChecked, meshVars, aksVars, NewestInv
<1>2. \/ Proceed \/ End("failed") \/ StartsRollback
      \/ pc' = "restart" /\ UNCHANGED <<phase, target, dest, prev, read>>
      \/ Arm("complete")
      \/ End("stopped")
  BY FailMoves DEF OrphansChecked
<1>3. /\ UNCHANGED <<read, target>>
      /\ phase' = "cleanup" => phase = "cleanup" /\ dest' = dest
      /\ pc' \notin {"inspect", "get", "put"} \/ (pc' = "get" /\ op' = "complete")
  BY <1>2, ProceedPlan DEF End, Arm, StartsRollback, plan
<1> QED
  BY <1>1, <1>3, NewestQuiet

LEMMA VerifyUpgradeNewest ==
  ASSUME NewestInv, VerifyUpgrade
  PROVE  NewestInv'
<1>1. revs' = revs /\ IsFiniteSet(revs')
  BY DEF VerifyUpgrade, meshVars, aksVars, NewestInv
<1>2. CASE End("failed") \/ End("upgraded")
  BY <1>1, <1>2, NewestQuiet DEF OthersGrow, End, plan
<1>3. CASE /\ phase = "cleanup" /\ phase' = "canary" /\ prev' = {dest}
           /\ dest' = target /\ pc' = "get" /\ UNCHANGED read
  BY <1>1, <1>3
  DEF NewestInv, ReadStillInstalled, MissesOnlyForeign, NewerThanFound,
      StartsAbsent
<1> QED
  BY <1>2, <1>3 DEF VerifyUpgrade

LEMMA NextNewest ==
  ASSUME TypeOK, TagInv, NewestInv, [Next]_vars
  PROVE  NewestInv'
<1>1. CASE RunStep
  BY <1>1, MeshStepNewest, ReadStateNewest, InspectNewest, ArmGetNewest,
     ArmPutNewest, ArmPollNewest, OrphansCheckedNewest, VerifyUpgradeNewest
  DEF RunStep, MeshStep
<1> QED
  BY <1>1, EnvironmentNewest, EndsNewest DEF Next

\* The inductive invariant: what a run has found is older than the canary it
\* starts, and still there when ARM gets the PUT.
THEOREM NewestInvariant == Spec => []NewestInv
<1>1. Init => NewestInv
  BY InitNewest
<1>2. TypeOK /\ TagInv /\ NewestInv /\ [Next]_vars => NewestInv'
  BY NextNewest
<1> QED
  BY <1>1, <1>2, TypeCorrect, TagInvariant, PTL DEF Spec

\* One more element makes a finite set one larger.
LEMMA OneMore ==
  ASSUME NEW S, NEW x, IsFiniteSet(S), x \notin S
  PROVE  IsFiniteSet(S \cup {x}) /\ Cardinality(S \cup {x}) = Cardinality(S) + 1
BY FS_AddElement

LEMMA ThreeAreThree ==
  ASSUME NEW a, NEW b, NEW c, a # b, c \notin {a, b}
  PROVE  IsFiniteSet({a, b, c}) /\ Cardinality({a, b, c}) = 3
<1>1. IsFiniteSet({a}) /\ Cardinality({a}) = 1
  BY FS_Singleton
<1>2. b \notin {a}
  OBVIOUS
<1>3. IsFiniteSet({a} \cup {b}) /\ Cardinality({a} \cup {b}) = 1 + 1
  BY <1>1, <1>2, OneMore
<1>4. {a} \cup {b} = {a, b} /\ {a, b} \cup {c} = {a, b, c}
  OBVIOUS
<1>5. IsFiniteSet({a, b}) /\ Cardinality({a, b}) = 1 + 1
  BY <1>3, <1>4
<1>6. IsFiniteSet({a, b} \cup {c}) /\ Cardinality({a, b} \cup {c}) = 1 + 1 + 1
  BY <1>5, OneMore
<1> QED
  BY <1>4, <1>6

\* ARM holds two revisions: a start that it accepts was built on what the run
\* found, and on nothing else.
LEMMA StartsOnFound ==
  ASSUME TagInv, NewestInv, pc = "put", op = "start", ~ArmRefuses, dest \in Nat,
         prev \subseteq Nat
  PROVE  read = prev /\ \A q \in read : q < dest
<1>1. /\ prev \subseteq read /\ prev # {} /\ dest \notin read
      /\ \A q \in prev : q < dest
  BY DEF TagInv, ReadInstalled, PhaseOfStep, NewestInv, NewerThanFound, Starting,
         StartsAbsent
<1>2. ASSUME NEW a \in prev, NEW b \in read, a # b PROVE FALSE
  <2>1. IsFiniteSet({a, b, dest}) /\ Cardinality({a, b, dest}) = 3
    <3>1. dest \notin {a, b}
      BY <1>1
    <3> QED
      BY <1>2, <3>1, ThreeAreThree
  <2>2. {a, b, dest} \subseteq ArmGoal /\ IsFiniteSet(ArmGoal)
    <3>1. ArmGoal = read \cup {dest}
      BY DEF ArmGoal
    <3>2. a \in read
      BY <1>1
    <3> QED
      BY <3>1, <3>2, GoalFinite
  <2>3. Cardinality(ArmGoal) \in Nat /\ 3 <= Cardinality(ArmGoal)
    BY <2>1, <2>2, FS_Subset, FS_CardinalityType
  <2> QED
    BY <2>3 DEF ArmRefuses
<1>3. read = prev
  BY <1>1, <1>2
<1> QED
  BY <1>1, <1>3

LEMMA PutIsNewest ==
  ASSUME TypeOK, TagInv, NewestInv, pc = "put", [Next]_vars
  PROVE  \A r \in revs' \ revs : \A q \in read : q < r
<1>1. /\ dest \in Nat /\ prev \subseteq Nat
  BY RevisionsAssumption DEF TypeOK, RunTypeOK
<1>2. CASE ArmPut
  <2>1. CASE ~ArmRefuses /\ revs' = ArmGoal /\ op = "start"
    BY <1>1, <2>1, StartsOnFound DEF ArmGoal, NewestInv, ReadStillInstalled
  <2>2. CASE op = "enable"
    BY <2>2 DEF TagInv, PhaseOfStep, InstallsFirst, NewestInv, ReadStillInstalled
  <2>3. CASE revs' = ArmGoal /\ op = "complete"
    BY <2>3 DEF ArmGoal, TagInv, DestInstalled, Running, BeforeInstall, PhaseOfStep
  <2> QED
    BY <1>2, <2>1, <2>2, <2>3 DEF ArmPut, meshVars, aksVars, TagInv, PhaseOfStep
<1>3. CASE Environment
  BY <1>3, EnvironmentMoves, ForeignGrows DEF NewestInv, ReadStillInstalled
<1>4. CASE UNCHANGED revs
  BY <1>4
<1>5. ArmPut \/ Environment \/ UNCHANGED revs
  <2>1. CASE MeshStep
    BY <2>1, MeshStepMoves DEF aksVars
  <2> QED
    BY <2>1
    DEF Next, RunStep, MeshStep, StartRun, Exit, Crash, Forget, Deadline,
        ReadState, Inspect, ArmGet, ArmPoll, OrphansChecked, VerifyUpgrade,
        vars, meshVars, aksVars
<1> QED
  BY <1>2, <1>3, <1>4, <1>5

\* A run adds a control plane only when it is newer than every one in the Get
\* that its PUT builds on (Decide, modifyClusterProperties), however many
\* canaries somebody else starts between the decision and the PUT.
THEOREM CanariesAreNewest == Spec => CanaryIsNewest
<1>1. TypeOK /\ TagInv /\ NewestInv /\ [Next]_vars
        => [pc = "put" => \A r \in revs' \ revs : \A q \in read : q < r]_vars
  BY PutIsNewest
<1> QED
  BY <1>1, TypeCorrect, TagInvariant, NewestInvariant, PTL
  DEF Spec, CanaryIsNewest

-----------------------------------------------------------------------------
(* Seen from outside: MeshLifecycle *)

LEMMA InitLifecycle == Init => L!LifecycleInit
BY InitialAssumption DEF Init, MeshInit, L!LifecycleInit, L!ServingInstalled

\* Every other step leaves ARM's list and the tag alone.
LEMMA OutsideUnchanged ==
  ASSUME [Next]_vars, ~ArmPut, ~ForeignCanary, ~EnsureRevisionTag
  PROVE  UNCHANGED <<revs, tag>>
BY DEF Next, RunStep, StartRun, Exit, Crash, Forget, Deadline, ReadState,
       Inspect, ArmGet, ArmPoll, CreateConfigMap, CheckTags, VerifyPlanes,
       EnsureIngress, HealthCheck, ListNamespaces, LabelsUpdated,
       NamespacesDone, OrphansChecked, UpdateLabel, RestartNamespace,
       RestartFails, RolloutConverged, RolloutFails, CheckNamespace,
       DeleteConfigMaps, VerifyUpgrade, CallFails, Environment, ArmDone,
       ArmFails, Repair, CpUp, CpDown, PodStarts, PodExits, RolloutReady,
       NamespaceJoins, vars, meshVars, aksVars, kubeVars

\* A start that somebody else's canary has overtaken drops that canary: what it
\* keeps, it has read, and the tag points at that.
LEMMA StartIsInstall ==
  ASSUME TypeOK, TagInv, NewestInv, pc = "put", op = "start", ~ArmRefuses,
         revs' = ArmGoal, tag' = tag
  PROVE  L!LifecycleNext
<1> DEFINE lost == revs \ read
<1>1. /\ dest \in Revisions /\ dest \in Nat /\ prev \subseteq Nat
      /\ NoRevision \notin Revisions /\ revs \subseteq Revisions
  BY RevisionsAssumption, SentinelAssumption DEF TypeOK, RunTypeOK, MeshTypeOK
<1>2. read = prev /\ prev # {} /\ \A q \in read : q < dest
  BY <1>1, StartsOnFound
  DEF NewestInv, NewerThanFound, Starting, TagInv, PhaseOfStep
<1>3. read \subseteq revs /\ tag \in read \cup {NoRevision}
  BY DEF NewestInv, ReadStillInstalled, TagInv, ReadInstalled
<1>4. revs \ lost = read
  BY <1>3
<1>5. tag \notin lost
  BY <1>1, <1>3
<1>6. lost \subseteq ForeignRevs /\ \A l \in lost : \A q \in read : q < l
  BY DEF NewestInv, MissesOnlyForeign
<1>7. L!MayBeLost(lost)
  <2>1. lost \subseteq revs \cap ForeignRevs
    BY <1>6
  <2>2. lost # revs
    BY <1>2, <1>3
  <2> HIDE DEF lost
  <2> QED
    BY <1>4, <1>5, <1>6, <2>1, <2>2 DEF L!MayBeLost
<1>8. revs' = (revs \ lost) \cup {dest}
  BY <1>4 DEF ArmGoal
<1> HIDE DEF lost
<1>9. lost \in SUBSET revs
  BY <1>7 DEF L!MayBeLost
<1> QED
  BY <1>1, <1>2, <1>4, <1>7, <1>8, <1>9 DEF L!LifecycleNext, L!Install

\* Where nothing is lost.
LEMMA InstallsNext ==
  ASSUME NEW r \in Revisions, \A q \in revs : q < r,
         revs' = revs \cup {r}, tag' = tag
  PROVE  L!LifecycleNext
<1>1. L!MayBeLost({})
  BY DEF L!MayBeLost
<1>2. revs \ {} = revs
  OBVIOUS
<1> QED
  BY <1>1, <1>2 DEF L!LifecycleNext, L!Install

LEMMA PutIsLifecycle ==
  ASSUME TypeOK, TagInv, NewestInv, ArmPut
  PROVE  L!LifecycleNext \/ UNCHANGED <<revs, tag>>
<1>1. dest \in Revisions /\ pc = "put"
  BY DEF ArmPut, TypeOK, RunTypeOK
<1>2. CASE UNCHANGED meshVars
  BY <1>2 DEF meshVars, aksVars, kubeVars
<1>3. CASE ~ArmRefuses /\ revs' = ArmGoal /\ tag' = tag
  <2>1. CASE op = "start"
    BY <1>1, <1>3, <2>1, StartIsInstall
  <2>2. CASE op = "enable"
    <3>1. revs = {}
      BY <1>1, <2>2 DEF TagInv, PhaseOfStep, InstallsFirst
    <3> QED
      BY <1>1, <1>3, <2>2, <3>1, InstallsNext DEF ArmGoal
  <2>3. CASE op = "complete"
    <3>1. dest \in revs /\ tag \in {dest, NoRevision}
      BY <1>1, <2>3
      DEF TagInv, PhaseOfStep, DestInstalled, Running, BeforeInstall, TagMoved,
          TagOnlyInTagMode
    <3> QED
      BY <1>3, <2>3, <3>1 DEF ArmGoal, L!LifecycleNext, L!Retire
  <2> QED
    BY <1>1, <2>1, <2>2, <2>3 DEF TagInv, PhaseOfStep
<1> QED
  BY <1>2, <1>3 DEF ArmPut, kubeVars

LEMMA NextIsLifecycle ==
  ASSUME TypeOK, TagInv, NewestInv, [Next]_vars
  PROVE  L!LifecycleNext \/ UNCHANGED <<revs, tag>>
<1>1. CASE ForeignCanary
  BY <1>1, ForeignGrows, InstallsNext
<1>2. CASE EnsureRevisionTag
  <2>1. dest \in revs
    BY <1>2 DEF EnsureRevisionTag, TagInv, DestInstalled, Running, BeforeInstall
  <2>2. revs' = revs /\ tag' \in {tag, dest}
    BY <1>2 DEF EnsureRevisionTag, aksVars
  <2> QED
    BY <2>1, <2>2 DEF L!LifecycleNext, L!Switch
<1> QED
  BY <1>1, <1>2, PutIsLifecycle, OutsideUnchanged

\* istio-upgrade implements MeshLifecycle, whatever fails, expires or crashes and
\* whoever else upgrades the cluster: the two only install newer control planes
\* next to what there is, switch the tag to an installed one, and retire all but
\* the one it points at.  The PUT without an ETag (aks.go) that somebody else's
\* canary has overtaken loses that canary, and nothing that a run relies on.
THEOREM RunsImplementLifecycle == Spec => ImplementsLifecycle
<1>1. TypeOK /\ TagInv /\ NewestInv /\ [Next]_vars
        => [L!LifecycleNext]_<<revs, tag>>
  BY NextIsLifecycle
<1> QED
  BY <1>1, InitLifecycle, TypeCorrect, TagInvariant, NewestInvariant, PTL
  DEF Spec, ImplementsLifecycle, L!Lifecycle

-----------------------------------------------------------------------------
(* What a rollback goes back to: RollbackInv *)

LEMMA AksUnchanged ==
  ASSUME [Next]_vars, ~ArmPut, ~Environment
  PROVE  UNCHANGED aksVars
BY MeshStepMoves
DEF Next, RunStep, MeshStep, StartRun, Exit, Crash, Forget, Deadline, ReadState,
    Inspect, ArmGet, ArmPoll, OrphansChecked, VerifyUpgrade, vars, meshVars

LEMMA EnvironmentPlanes ==
  ASSUME TypeOK, Environment
  PROVE  planes \cap revs \subseteq planes' /\ revs \subseteq revs' /\ tag' = tag
BY EnvironmentMoves, ForeignGrows DEF kubeVars

LEMMA SettledNext ==
  ASSUME SettledPlanes, [Next]_vars
  PROVE  SettledPlanes'
<1>1. CASE Environment
  BY <1>1, EnvironmentMoves DEF ForeignCanary, SettledPlanes
<1>2. CASE ArmPut
  BY <1>2 DEF ArmPut, SettledPlanes, meshVars, aksVars
<1> QED
  BY <1>1, <1>2, AksUnchanged DEF aksVars, SettledPlanes

\* What ARM and everybody else do leaves an istiod that ARM lists.
LEMMA PrevQuiet ==
  ASSUME TagInv, PrevPlanes, planes \cap revs \subseteq planes',
         \/ UNCHANGED <<pc, phase, op, dest, prev>>
         \/ /\ UNCHANGED <<phase, op, dest, prev>>
            /\ Running /\ pc' \notin {"delete", "poll"}
            /\ Completed => Completed' \/ ~Running'
            /\ pc' = "verify" => pc = "delete"
         \/ pc' \in {"idle", "read", "exit"}
  PROVE  PrevPlanes'
<1>1. CASE pc' \in {"idle", "read", "exit"}
  BY <1>1 DEF PrevPlanes, Running
<1>2. CASE UNCHANGED <<phase, op, dest, prev>> /\ Running
  BY <1>2
  DEF TagInv, PrevPlanes, PrevInstalled, DestInstalled, PhaseOfStep,
      BeforeInstall, Completed, Running
<1>3. CASE UNCHANGED <<pc, phase, op, dest, prev>> /\ ~Running
  BY <1>3 DEF PrevPlanes, Running
<1> QED
  BY <1>1, <1>2, <1>3

LEMMA MeshStepPrev ==
  ASSUME TagInv, PrevPlanes, MeshStep
  PROVE  PrevPlanes'
<1>1. planes' = planes /\ revs' = revs
  BY MeshStepMoves DEF aksVars
<1>2. CASE UNCHANGED <<pc, plan, outcome>>
  BY <1>1, <1>2, PrevQuiet DEF plan
<1>3. CASE Proceed
  <2>1. Completed => Completed' \/ ~Running'
    BY <1>3, ProceedPlan DEF Completed, Running, Proceed
  <2> QED
    BY <1>1, <1>3, <2>1, ProceedPlan, PrevQuiet DEF plan
<1>4. CASE End("failed")
  BY <1>1, <1>4, PrevQuiet DEF End
<1>5. CASE StartsRollback
  BY <1>1, <1>5
  DEF StartsRollback, RollsBack, PrevPlanes, Running, Completed
<1> QED
  BY <1>2, <1>3, <1>4, <1>5, MeshStepMoves

LEMMA RunStepPrev ==
  ASSUME TypeOK, TagInv, SettledPlanes, PrevPlanes, RunStep
  PROVE  PrevPlanes'
<1>1. CASE ReadState
  <2>1. CASE End("skipped")
    BY <1>1, <2>1, PrevQuiet DEF ReadState, End, meshVars, aksVars
  <2>2. ASSUME ~End("skipped") PROVE PrevPlanes'
    <3>1. PICK i \in BOOLEAN :
            /\ Decide(prov, i, revs, IF i THEN {} ELSE Offered, target) # "skip"
            /\ pc' = "inspect" /\ prev' = revs /\ planes' = planes
      BY <1>1, <2>2 DEF ReadState, meshVars, aksVars
    <3>2. prov = "Succeeded"
      BY <3>1 DEF Decide, ActionOf, Classify, Scenarios
    <3> QED
      BY <3>1, <3>2 DEF SettledPlanes, PrevPlanes
  <2> QED
    BY <2>1, <2>2
<1>2. CASE Inspect
  BY <1>2
  DEF Inspect, Arm, Goto, plan, meshVars, aksVars, PrevPlanes, Completed, Running
<1>3. CASE ArmGet
  BY <1>3, PrevQuiet
  DEF ArmGet, End, plan, meshVars, aksVars, Completed, Running
<1>4. CASE ArmPut
  <2>1. planes' = planes /\ pc = "put"
    BY <1>4 DEF ArmPut, meshVars, aksVars
  <2>2. CASE End("failed")
    BY <2>1, <2>2, PrevQuiet DEF End
  <2>3. CASE Goto("poll")
    BY <2>1, <2>3 DEF Goto, plan, PrevPlanes, Running, Completed
  <2> QED
    BY <1>4, <2>2, <2>3 DEF ArmPut
<1>5. CASE ArmPoll
  <2>1. planes' = planes /\ pc = "poll"
    BY <1>5 DEF ArmPoll, meshVars, aksVars
  <2>2. CASE \E o : End(o)
    BY <2>1, <2>2, PrevQuiet DEF End
  <2>3. CASE Goto("cm") /\ op \in {"enable", "start"}
    BY <2>1, <2>3 DEF Goto, plan, PrevPlanes, Running, Completed
  <2>4. CASE Goto("delete") /\ prov = "Succeeded"
    BY <2>1, <2>4
    DEF Goto, plan, SettledPlanes, PrevPlanes, Completed, TagInv, DestInstalled,
        Running, BeforeInstall
  <2> QED
    BY <1>5, <2>2, <2>3, <2>4 DEF ArmPoll
<1>6. CASE OrphansChecked
  <2>1. planes' = planes /\ pc = "orphans"
    BY <1>6 DEF OrphansChecked, meshVars, aksVars
  <2>2. CASE Proceed \/ End("failed") \/ End("stopped")
    BY <2>1, <2>2, PrevQuiet DEF Proceed, End
  <2>3. CASE StartsRollback
    BY <2>1, <2>3
    DEF StartsRollback, RollsBack, PrevPlanes, Running, Completed
  <2>4. CASE /\ pc' = "restart" \/ (pc' = "get" /\ op' = "complete")
             /\ UNCHANGED <<phase, prev>>
    BY <2>1, <2>4 DEF PrevPlanes, Running, Completed
  <2> QED
    BY <1>6, <2>2, <2>3, <2>4, FailMoves DEF OrphansChecked, Arm
<1>7. CASE VerifyUpgrade
  <2>1. planes' = planes /\ pc = "verify"
    BY <1>7 DEF VerifyUpgrade, meshVars, aksVars
  <2>2. CASE \E o : End(o)
    BY <2>1, <2>2, PrevQuiet DEF End
  <2>3. CASE prev' = {dest} /\ pc' = "get"
    BY <2>1, <2>3 DEF PrevPlanes
  <2> QED
    BY <1>7, <2>2, <2>3 DEF VerifyUpgrade
<1> QED
  BY <1>1, <1>2, <1>3, <1>4, <1>5, <1>6, <1>7, MeshStepPrev
  DEF RunStep, MeshStep

LEMMA NextPrev ==
  ASSUME TypeOK, TagInv, SettledPlanes, PrevPlanes, [Next]_vars
  PROVE  PrevPlanes'
<1>1. CASE Environment /\ UNCHANGED <<runVars, cache>>
  BY <1>1, EnvironmentPlanes, PrevQuiet DEF runVars, plan
<1>2. CASE StartRun \/ Exit \/ Crash
  BY <1>2, PrevQuiet DEF StartRun, Exit, Crash, Forget, meshVars, aksVars
<1>3. CASE Deadline \/ UNCHANGED vars
  BY <1>3, PrevQuiet DEF Deadline, vars, meshVars, aksVars, runVars, plan
<1> QED
  BY <1>1, <1>2, <1>3, RunStepPrev DEF Next

\* Only the last step of a rollback reports it.
LEMMA ProceedEnds ==
  ASSUME Proceed, outcome # "rolledback", outcome' = "rolledback"
  PROVE  phase = "rollback" /\ pc' = "exit"
<1>1. ASSUME NEW s, Goto(s) PROVE FALSE
  BY <1>1 DEF Goto
<1> QED
  BY <1>1 DEF Proceed, End

LEMMA RollbackQuiet ==
  ASSUME RollbackPlanes, planes \cap revs \subseteq planes', revs \subseteq revs',
         UNCHANGED <<tag, pc, phase, dest, outcome>>
  PROVE  RollbackPlanes'
BY DEF RollbackPlanes

\* Nothing is said of other flows.
LEMMA NoRollback ==
  ASSUME phase' # "rollback", outcome' # "rolledback",
         pc' # "exit" => outcome' = "none"
  PROVE  RollbackPlanes'
BY DEF RollbackPlanes

LEMMA EndRollback ==
  ASSUME RollbackPlanes, UNCHANGED <<planes, revs, tag>>, NEW o, End(o),
         o # "rolledback", o = "failed" \/ phase # "rollback"
  PROVE  RollbackPlanes'
BY DEF RollbackPlanes, End, plan

LEMMA ProceedRollback ==
  ASSUME RollbackPlanes, Proceed, UNCHANGED <<planes, revs>>,
         phase = "rollback" /\ TagMode =>
           tag' = IF pc = "flip" THEN dest ELSE tag
  PROVE  RollbackPlanes'
<1>1. UNCHANGED <<phase, dest, planes, revs>> /\ pc # "exit"
  BY ProceedPlan DEF plan, Running
<1>2. outcome = "none"
  BY <1>1 DEF RollbackPlanes
<1>3. /\ outcome' = "rolledback" => phase' = "rollback"
      /\ pc' # "exit" => outcome' = "none"
  BY <1>1, <1>2, ProceedEnds, ProceedMoves DEF Goto, End
<1>4. phase = "rollback" /\ TagMode => tag' = dest
  BY <1>1, <1>2 DEF RollbackPlanes
<1> QED
  BY <1>1, <1>3, <1>4 DEF RollbackPlanes

LEMMA StartsRollbackPlanes ==
  ASSUME TagInv, PrevPlanes, RollbackPlanes, StartsRollback,
         UNCHANGED <<planes, revs>>
  PROVE  RollbackPlanes'
<1>1. prev \subseteq planes \cap revs /\ outcome' = "none"
  BY DEF TagInv, PrevInstalled, PrevPlanes, RollbackPlanes, StartsRollback,
         RollsBack, Running, Completed
<1> QED
  BY <1>1 DEF StartsRollback, retiring, RollbackPlanes

LEMMA InitRollback == Init => RollbackInv
BY DEF Init, MeshInit, Fresh, RollbackInv, SettledPlanes, PrevPlanes,
       RollbackPlanes, FlipsTag, Running, Completed

\* In a run with a tag the flip is EnsureRevisionTag, or a call that failed.
LEMMA TagFlips ==
  ASSUME FlipsTag, TagMode, pc = "flip", MeshStep, ~EnsureRevisionTag
  PROVE  CallFails
BY DEF FlipsTag, MeshStep, CreateConfigMap, CheckTags, VerifyPlanes,
       EnsureIngress, HealthCheck, ListNamespaces, LabelsUpdated,
       NamespacesDone, UpdateLabel, RestartNamespace, RestartFails,
       RolloutConverged, RolloutFails, CheckNamespace, DeleteConfigMaps

LEMMA MeshStepRollback ==
  ASSUME TagInv, RollbackInv, MeshStep
  PROVE  RollbackPlanes'
<1>1. planes' = planes /\ revs' = revs
  BY MeshStepMoves DEF aksVars
<1>2. CASE EnsureRevisionTag
  <2>1. CASE tag' = tag /\ Fail
    BY <1>1, <2>1, FailMoves, ProceedRollback, EndRollback, StartsRollbackPlanes
    DEF RollbackInv
  <2>2. CASE tag' = dest /\ Answered
    <3>1. CASE Proceed
      <4>1. pc = "tag" => phase # "rollback"
        BY DEF TagInv, PhaseOfStep
      <4> QED
        BY <1>1, <1>2, <2>2, <3>1, <4>1, ProceedRollback
        DEF EnsureRevisionTag, RollbackInv
    <3>2. CASE End("failed")
      BY <1>1, <3>2 DEF RollbackInv, RollbackPlanes, End, plan
    <3>3. CASE StartsRollback
      BY <1>1, <3>3, StartsRollbackPlanes DEF RollbackInv
    <3> QED
      BY <2>2, <3>1, <3>2, <3>3, FailMoves DEF Answered
  <2> QED
    BY <1>2, <2>1, <2>2 DEF EnsureRevisionTag
<1>3. CASE ~EnsureRevisionTag
  <2>1. tag' = tag
    BY <1>3
    DEF MeshStep, CreateConfigMap, CheckTags, VerifyPlanes, EnsureIngress,
        HealthCheck, ListNamespaces, LabelsUpdated, NamespacesDone, UpdateLabel,
        RestartNamespace, RestartFails, RolloutConverged, RolloutFails,
        CheckNamespace, DeleteConfigMaps, CallFails, meshVars, kubeVars
  <2>2. CASE UNCHANGED <<pc, plan, outcome>>
    BY <1>1, <2>1, <2>2, RollbackQuiet DEF plan, RollbackInv
  <2>3. CASE Proceed
    <3>1. ~(TagMode /\ pc = "flip" /\ phase = "rollback")
      <4>1. pc = "flip" => pc' = "restart"
        BY <2>3 DEF Proceed, Goto
      <4>2. CallFails => ~(pc = "flip" /\ phase = "rollback")
        BY <4>1, FailMoves DEF CallFails, End, StartsRollback, RollsBack
      <4> QED
        BY <1>3, <4>2, TagFlips DEF RollbackInv
    <3> QED
      BY <1>1, <2>1, <2>3, <3>1, ProceedRollback DEF RollbackInv
  <2>4. CASE End("failed")
    BY <1>1, <2>1, <2>4, EndRollback DEF RollbackInv
  <2>5. CASE StartsRollback
    BY <1>1, <2>5, StartsRollbackPlanes DEF RollbackInv
  <2> QED
    BY <2>2, <2>3, <2>4, <2>5, MeshStepMoves
<1> QED
  BY <1>2, <1>3

LEMMA RunStepRollback ==
  ASSUME TagInv, RollbackInv, RunStep
  PROVE  RollbackPlanes'
<1>1. CASE ReadState \/ Inspect \/ ArmGet \/ ArmPut \/ ArmPoll \/ VerifyUpgrade
  <2>1. phase # "rollback" /\ pc # "exit"
    BY <1>1
    DEF ReadState, Inspect, ArmGet, ArmPut, ArmPoll, VerifyUpgrade, TagInv,
        PhaseOfStep
  <2>2. outcome = "none"
    BY <2>1 DEF RollbackInv, RollbackPlanes
  <2>3. CASE ReadState
    BY <2>1, <2>2, <2>3, NoRollback DEF ReadState, End, loop, plan
  <2>4. CASE Inspect \/ ArmGet \/ ArmPut \/ ArmPoll \/ VerifyUpgrade
    BY <2>1, <2>2, <2>4, NoRollback
    DEF Inspect, ArmGet, ArmPut, ArmPoll, VerifyUpgrade, Arm, Goto, End, plan
  <2> QED
    BY <1>1, <2>3, <2>4
<1>2. CASE OrphansChecked
  <2>1. /\ phase # "rollback" /\ outcome = "none" /\ UNCHANGED <<planes, revs>>
    BY <1>2
    DEF OrphansChecked, TagInv, PhaseOfStep, RollbackInv, RollbackPlanes,
        meshVars, aksVars
  <2>2. CASE Fail
    BY <2>1, <2>2, FailMoves, ProceedRollback, StartsRollbackPlanes, NoRollback
    DEF RollbackInv, End, plan
  <2>3. CASE ~Fail
    BY <1>2, <2>1, <2>3, NoRollback DEF OrphansChecked, Arm, End, plan
  <2> QED
    BY <2>2, <2>3
<1> QED
  BY <1>1, <1>2, MeshStepRollback DEF RunStep, MeshStep

LEMMA FlipsNext ==
  ASSUME TagInv, FlipsTag, [Next]_vars
  PROVE  FlipsTag'
<1>1. CASE MeshStep
  <2>1. CASE UNCHANGED <<pc, plan, outcome>> /\ pc = "flip" /\ TagMode
    <3>1. CASE EnsureRevisionTag \/ CallFails
      <4>1. Proceed \/ End("failed") \/ StartsRollback
        BY <3>1, FailMoves DEF EnsureRevisionTag, CallFails, Answered
      <4>2. ~Proceed
        BY <2>1 DEF Proceed, Goto
      <4> QED
        BY <2>1, <4>1, <4>2 DEF End, StartsRollback, FlipsTag, NewLoop
    <3> QED
      BY <1>1, <2>1, <3>1, TagFlips
  <2>2. CASE Proceed \/ End("failed") \/ StartsRollback
    BY <2>2, ProceedPlan DEF FlipsTag, End, StartsRollback, NewLoop
  <2>3. CASE UNCHANGED <<pc, plan, outcome>> /\ ~(pc = "flip" /\ TagMode)
    BY <2>3 DEF FlipsTag
  <2> QED
    BY <1>1, <2>1, <2>2, <2>3, MeshStepMoves
<1>2. CASE OrphansChecked
  BY <1>2, FailMoves, ProceedPlan
  DEF OrphansChecked, FlipsTag, End, Arm, StartsRollback, NewLoop
<1>3. CASE ReadState \/ Inspect \/ ArmGet \/ ArmPut \/ ArmPoll \/ VerifyUpgrade
  BY <1>3
  DEF ReadState, Inspect, ArmGet, ArmPut, ArmPoll, VerifyUpgrade, FlipsTag, Arm,
      Goto, End
<1>4. CASE StartRun \/ Exit \/ Crash
  BY <1>4 DEF StartRun, Exit, Crash, Forget, FlipsTag
<1>5. CASE Deadline \/ UNCHANGED <<runVars, cache>> \/ UNCHANGED vars
  BY <1>5 DEF Deadline, FlipsTag, vars, runVars, loop
<1> QED
  BY <1>1, <1>2, <1>3, <1>4, <1>5 DEF Next, RunStep, MeshStep

LEMMA NextRollback ==
  ASSUME TypeOK, TagInv, RollbackInv, [Next]_vars
  PROVE  RollbackInv'
<1>1. SettledPlanes' /\ PrevPlanes' /\ FlipsTag'
  BY SettledNext, NextPrev, FlipsNext DEF RollbackInv
<1>2. CASE RunStep
  BY <1>1, <1>2, RunStepRollback DEF RollbackInv
<1>3. CASE Environment /\ UNCHANGED <<runVars, cache>>
  BY <1>1, <1>3, EnvironmentPlanes, RollbackQuiet DEF RollbackInv, runVars, plan
<1>4. CASE StartRun
  BY <1>1, <1>4, NoRollback
  DEF StartRun, RollbackInv, RollbackPlanes, TagInv, PhaseOfStep
<1>5. CASE Exit \/ Crash
  BY <1>1, <1>5, NoRollback DEF Exit, Crash, Forget, RollbackInv
<1>6. CASE Deadline \/ UNCHANGED vars
  BY <1>1, <1>6, RollbackQuiet
  DEF Deadline, RollbackInv, vars, meshVars, aksVars, kubeVars, runVars, plan
<1> QED
  BY <1>2, <1>3, <1>4, <1>5, <1>6 DEF Next

\* The inductive invariant: what the run found keeps its control planes until
\* the completion, and a rollback that goes on has moved the tag back.
THEOREM RollbackInvariant == Spec => []RollbackInv
<1>1. Init => RollbackInv
  BY InitRollback
<1>2. TypeOK /\ TagInv /\ RollbackInv /\ [Next]_vars => RollbackInv'
  BY NextRollback
<1> QED
  BY <1>1, <1>2, TypeCorrect, TagInvariant, PTL DEF Spec

\* Whatever happened, with and without a tag, the revision that a rollback goes
\* back to has a control plane that ARM lists (rollbackAndReturn).
THEOREM RollbackHasPlane ==
  Spec => [](outcome = "rolledback" => dest \in planes \cap revs)
<1>1. RollbackInv => (outcome = "rolledback" => dest \in planes \cap revs)
  BY DEF RollbackInv, RollbackPlanes
<1> QED
  BY <1>1, RollbackInvariant, PTL

-----------------------------------------------------------------------------
(* The namespaces a run knows *)

LEMMA InitKnown == Init => KnownInMesh
BY DEF Init, Fresh, KnownInMesh, Known, EmptyCache

\* Labels change when owners join the mesh and when a run without a tag flips.
LEMMA LabelMoves ==
  ASSUME TypeOK, [Next]_vars
  PROVE  \/ label' = label
         \/ \E ns \in Namespaces :
              \/ /\ label[ns] = NoLabel
                 /\ \E l \in NsLabels : label' = [label EXCEPT ![ns] = l]
              \/ /\ UpdateLabel(ns) /\ dest \in Revisions
                 /\ label' = [label EXCEPT ![ns] = dest]
<1>1. CASE RunStep
  <2>1. CASE \E ns \in Namespaces : UpdateLabel(ns)
    BY <2>1 DEF UpdateLabel, TypeOK, RunTypeOK
  <2>2. CASE ~ \E ns \in Namespaces : UpdateLabel(ns)
    BY <1>1, <2>2
    DEF RunStep, ReadState, Inspect, ArmGet, ArmPut, ArmPoll, CreateConfigMap,
        CheckTags, VerifyPlanes, EnsureRevisionTag, EnsureIngress, HealthCheck,
        ListNamespaces, LabelsUpdated, NamespacesDone, OrphansChecked,
        RestartNamespace, RestartFails, RolloutConverged, RolloutFails,
        CheckNamespace, DeleteConfigMaps, VerifyUpgrade, CallFails, meshVars,
        kubeVars
  <2> QED
    BY <2>1, <2>2
<1>2. CASE Environment
  BY <1>2
  DEF Environment, ArmDone, ArmFails, Repair, ForeignCanary, CpUp, CpDown,
      PodStarts, PodExits, RolloutReady, NamespaceJoins, kubeVars
<1> QED
  BY <1>1, <1>2
  DEF Next, StartRun, Exit, Crash, Forget, Deadline, vars, meshVars, kubeVars

LEMMA MeshKept ==
  ASSUME TypeOK, [Next]_vars, NEW ns \in Namespaces, InMesh(ns)
  PROVE  InMesh(ns)'
<1>1. /\ label \in [Namespaces -> Labels \cup {NoLabel}]
      /\ NoLabel \notin Revisions /\ NoLabel \notin NsLabels
  BY SentinelAssumption, NsLabelsAssumption DEF TypeOK, MeshTypeOK
<1> QED
  BY <1>1, LabelMoves DEF InMesh

LEMMA NextKnown ==
  ASSUME TypeOK, KnownInMesh, [Next]_vars
  PROVE  KnownInMesh'
<1>1. \/ cachedNS' = label /\ label' = label
      \/ cachedNS' = cachedNS
      \/ cachedNS' = EmptyCache
  BY DEF Next, RunStep, StartRun, ReadState, Inspect, ArmGet, ArmPut, ArmPoll,
         CreateConfigMap, CheckTags, VerifyPlanes, EnsureRevisionTag,
         EnsureIngress, HealthCheck, ListNamespaces, LabelsUpdated,
         NamespacesDone, OrphansChecked, UpdateLabel, RestartNamespace,
         RestartFails, RolloutConverged, RolloutFails, CheckNamespace,
         DeleteConfigMaps, VerifyUpgrade, CallFails, Visit, Exit, Crash, Forget,
         Deadline, vars, meshVars, kubeVars, cache
<1>2. ASSUME NEW ns \in Namespaces, InMesh(ns) PROVE InMesh(ns)'
  BY <1>2, MeshKept
<1> QED
  BY <1>1, <1>2 DEF KnownInMesh, Known, InMesh, EmptyCache

LEMMA KnownInvariant == Spec => []KnownInMesh
<1>1. Init => KnownInMesh
  BY InitKnown
<1>2. TypeOK /\ KnownInMesh /\ [Next]_vars => KnownInMesh'
  BY NextKnown
<1> QED
  BY <1>1, <1>2, TypeCorrect, PTL DEF Spec

\* Where namespaces join by the tag, a run with a tag leaves their labels alone.
LEMMA NextTagLabels ==
  ASSUME TagMode, NsLabels \subseteq {TagLabel}, TypeOK, FlipsTag,
         TagLabelsOnly, [Next]_vars
  PROVE  TagLabelsOnly'
<1>1. ASSUME NEW ns \in Namespaces, UpdateLabel(ns) PROVE FALSE
  BY <1>1 DEF FlipsTag, UpdateLabel
<1>2. label \in [Namespaces -> Labels \cup {NoLabel}]
  BY DEF TypeOK, MeshTypeOK
<1> QED
  BY <1>1, <1>2, LabelMoves DEF TagLabelsOnly

LEMMA InitTagLabels ==
  ASSUME NsLabels \subseteq {TagLabel}
  PROVE  Init => TagLabelsOnly
BY DEF Init, MeshInit, TagLabelsOnly

\* A rollback that is reported as done has put every namespace that the run
\* knows back on the previous revision, which still has its control plane, in
\* every run with a tag on a mesh that injects by the tag.  Without a tag it
\* need not: the flip back trusts labels that it cached before the flip out.
THEOREM RollbackRestoresByTag ==
  ASSUME TagMode, NsLabels \subseteq {TagLabel}
  PROVE  Spec => []RollbackRestores
<1>1. Init => TagLabelsOnly
  BY InitTagLabels
<1>2. TypeOK /\ RollbackInv /\ TagLabelsOnly /\ [Next]_vars => TagLabelsOnly'
  BY NextTagLabels DEF RollbackInv
<1>3. RollbackInv /\ KnownInMesh /\ TagLabelsOnly => RollbackRestores
  <2> SUFFICES ASSUME RollbackInv, KnownInMesh, TagLabelsOnly,
                      outcome = "rolledback"
               PROVE  /\ dest \in planes /\ dest \in revs
                      /\ \A ns \in Namespaces : Known(ns) => Inject(ns) = dest
    BY DEF RollbackRestores
  <2>1. tag = dest /\ dest \in planes \cap revs
    BY DEF RollbackInv, RollbackPlanes
  <2> QED
    BY <2>1 DEF KnownInMesh, InMesh, TagLabelsOnly, Inject
<1> QED
  BY <1>1, <1>2, <1>3, TypeCorrect, RollbackInvariant, KnownInvariant, PTL
  DEF Spec

-----------------------------------------------------------------------------
(* What a completion removes: RetireInv *)

LEMMA RevsQuiet ==
  ASSUME RevsAccounted, revs' \subseteq revs \cup ForeignRevs,
         \/ UNCHANGED <<pc, phase, op, dest, prev>>
         \/ /\ UNCHANGED <<phase, op, dest, prev>>
            /\ Running /\ pc' \notin {"delete", "poll"}
            /\ pc' = "verify" => pc = "delete"
         \/ pc' \in {"idle", "read", "exit"}
  PROVE  RevsAccounted'
BY DEF RevsAccounted, Running, Completed

LEMMA MeshStepRevs ==
  ASSUME RevsAccounted, MeshStep
  PROVE  RevsAccounted'
<1>1. revs' = revs
  BY MeshStepMoves DEF aksVars
<1>2. CASE UNCHANGED <<pc, plan, outcome>>
  BY <1>1, <1>2, RevsQuiet DEF plan
<1>3. CASE Proceed
  BY <1>1, <1>3, ProceedPlan, RevsQuiet DEF plan
<1>4. CASE End("failed")
  BY <1>1, <1>4, RevsQuiet DEF End
<1>5. CASE StartsRollback
  BY <1>5 DEF StartsRollback, RevsAccounted, Completed
<1> QED
  BY <1>2, <1>3, <1>4, <1>5, MeshStepMoves

LEMMA ArmPutRevs ==
  ASSUME TypeOK, TagInv, NewestInv, RevsAccounted, ArmPut
  PROVE  RevsAccounted'
<1>1. CASE End("failed")
  <2>1. pc' = "exit"
    BY <1>1 DEF End
  <2> QED
    BY <2>1 DEF RevsAccounted, Running, Completed
<1>2. CASE Goto("poll") /\ ~ArmRefuses /\ revs' = ArmGoal
  <2>1. UNCHANGED <<phase, op, dest, prev>> /\ pc = "put" /\ pc' = "poll"
    BY <1>2 DEF Goto, plan, ArmPut
  <2>2. CASE op = "start"
    <3>1. read = prev
      BY <1>2, <2>1, <2>2, StartsOnFound, RevisionsAssumption
      DEF TypeOK, RunTypeOK
    <3> QED
      BY <1>2, <2>1, <2>2, <3>1 DEF RevsAccounted, Completed, ArmGoal
  <2>3. CASE op # "start"
    BY <1>2, <2>1, <2>3 DEF RevsAccounted, ArmGoal
  <2> QED
    BY <2>2, <2>3
<1> QED
  BY <1>1, <1>2 DEF ArmPut

LEMMA RunStepRevs ==
  ASSUME TypeOK, TagInv, NewestInv, RevsAccounted, RunStep
  PROVE  RevsAccounted'
<1>1. CASE ReadState
  <2>1. revs' = revs /\ (End("skipped") \/ (pc' = "inspect" /\ prev' = revs))
    BY <1>1 DEF ReadState, meshVars, aksVars
  <2> QED
    BY <2>1, RevsQuiet DEF End, RevsAccounted, Completed
<1>2. CASE Inspect
  BY <1>2
  DEF Inspect, Arm, Goto, plan, meshVars, aksVars, RevsAccounted, Running,
      Completed
<1>3. CASE ArmGet
  BY <1>3, RevsQuiet DEF ArmGet, End, meshVars, aksVars, Running
<1>4. CASE ArmPoll
  <2>1. revs' = revs /\ pc = "poll"
    BY <1>4 DEF ArmPoll, meshVars, aksVars
  <2>2. CASE \E o : End(o)
    BY <2>1, <2>2, RevsQuiet DEF End
  <2>3. CASE Goto("cm") \/ (Goto("delete") /\ op = "complete")
    BY <2>1, <2>3 DEF Goto, plan, RevsAccounted, Running, Completed
  <2> QED
    BY <1>4, <2>2, <2>3 DEF ArmPoll
<1>5. CASE OrphansChecked
  <2>1. revs' = revs /\ pc = "orphans"
    BY <1>5 DEF OrphansChecked, meshVars, aksVars
  <2>2. CASE Proceed \/ End("failed") \/ End("stopped")
    BY <2>1, <2>2, RevsQuiet DEF Proceed, End
  <2>3. CASE StartsRollback
    BY <2>3 DEF StartsRollback, RevsAccounted, Completed
  <2>4. CASE /\ pc' = "restart" \/ (pc' = "get" /\ op' = "complete")
             /\ UNCHANGED <<phase, prev, dest>>
    BY <2>1, <2>4 DEF RevsAccounted, Running, Completed
  <2> QED
    BY <1>5, <2>2, <2>3, <2>4, FailMoves DEF OrphansChecked, Arm
<1>6. CASE VerifyUpgrade
  <2>1. revs' = revs /\ pc = "verify"
    BY <1>6 DEF VerifyUpgrade, meshVars, aksVars
  <2>2. CASE \E o : End(o)
    BY <2>1, <2>2, RevsQuiet DEF End
  <2>3. CASE prev' = {dest} /\ pc' = "get"
    BY <2>1, <2>3 DEF RevsAccounted, Completed
  <2> QED
    BY <1>6, <2>2, <2>3 DEF VerifyUpgrade
<1> QED
  BY <1>1, <1>2, <1>3, <1>4, <1>5, <1>6, ArmPutRevs, MeshStepRevs
  DEF RunStep, MeshStep

LEMMA NextRevs ==
  ASSUME TypeOK, TagInv, NewestInv, RevsAccounted, [Next]_vars
  PROVE  RevsAccounted'
<1>1. CASE Environment /\ UNCHANGED <<runVars, cache>>
  <2>1. revs' \subseteq revs \cup ForeignRevs
    BY <1>1, EnvironmentMoves, ForeignGrows
  <2> QED
    BY <1>1, <2>1, RevsQuiet DEF runVars, plan
<1>2. CASE StartRun \/ Exit \/ Crash
  BY <1>2, RevsQuiet DEF StartRun, Exit, Crash, Forget, meshVars, aksVars
<1>3. CASE Deadline \/ UNCHANGED vars
  BY <1>3, RevsQuiet DEF Deadline, vars, meshVars, aksVars, runVars, plan
<1> QED
  BY <1>1, <1>2, <1>3, RunStepRevs DEF Next

\* Of a namespace in the mesh, the environment changes pods, not the injection.
LEMMA PodsFollowInjection ==
  ASSUME TypeOK, Environment, NEW ns \in Namespaces, InMesh(ns)
  PROVE  /\ Inject(ns)' = Inject(ns)
         /\ sidecar'[ns] \subseteq sidecar[ns] \cup {Inject(ns)}
<1>1. /\ label \in [Namespaces -> Labels \cup {NoLabel}]
      /\ sidecar \in [Namespaces -> SUBSET Revisions]
  BY DEF TypeOK, MeshTypeOK
<1>2. tag' = tag /\ label'[ns] = label[ns]
  BY <1>1
  DEF Environment, ArmDone, ArmFails, Repair, ForeignCanary, CpUp, CpDown,
      PodStarts, PodExits, RolloutReady, NamespaceJoins, kubeVars, InMesh
<1>3. sidecar'[ns] \subseteq sidecar[ns] \cup {Inject(ns)}
  BY <1>1
  DEF Environment, ArmDone, ArmFails, Repair, ForeignCanary, CpUp, CpDown,
      PodStarts, PodExits, RolloutReady, NamespaceJoins, kubeVars
<1> QED
  BY <1>2, <1>3 DEF Inject

\* The guard's own steps are the only calls that leave a namespace guarded.
LEMMA GuardMoves ==
  ASSUME MeshStep, NEW ns \in Namespaces, Guarded(ns)'
  PROVE  /\ pc = "orphans"
         /\ ListNamespaces \/ \E m \in Namespaces : CheckNamespace(m)
<1>1. UNCHANGED <<pc, plan, outcome>>
  <2>1. CASE Proceed
    BY <2>1, ProceedMoves DEF Goto, End, NewLoop, Guarded
  <2> QED
    BY <2>1, MeshStepMoves DEF End, StartsRollback, Guarded
<1>2. pc \in {"orphans", "get", "put"}
  BY <1>1 DEF Guarded
<1>3. ~CallFails
  <2>1. ~Proceed
    BY <1>2 DEF Proceed
  <2> QED
    BY <1>1, <1>2, <2>1, FailMoves DEF CallFails, End, StartsRollback
<1> QED
  BY <1>2, <1>3
  DEF MeshStep, CreateConfigMap, CheckTags, VerifyPlanes, EnsureRevisionTag,
      EnsureIngress, HealthCheck, ListNamespaces, LabelsUpdated,
      NamespacesDone, UpdateLabel, RestartNamespace, RestartFails,
      RolloutConverged, RolloutFails, CheckNamespace, DeleteConfigMaps

LEMMA MeshStepGuard ==
  ASSUME TypeOK, OrphanGuard, MeshStep
  PROVE  OrphanGuard'
<1> SUFFICES ASSUME NEW ns \in Namespaces, Guarded(ns)', Known(ns)',
                    (Inject(ns) = dest)'
             PROVE  (sidecar[ns] \cap retiring = {})'
  BY DEF OrphanGuard
<1>1. CASE ListNamespaces
  BY <1>1, GuardMoves DEF ListNamespaces, Guarded, Known
<1>2. ASSUME NEW m \in Namespaces, CheckNamespace(m)
      PROVE  (sidecar[ns] \cap retiring = {})'
  <2>1. /\ UNCHANGED <<pc, plan, listed, cache, meshVars>> /\ pc = "orphans"
        /\ todo' = todo \ {m} /\ failed' = (failed \/ Orphaned(m))
    BY <1>2 DEF CheckNamespace, Visit
  <2>2. CASE m = ns
    <3>1. ~failed' /\ UNCHANGED <<sidecar, retiring>>
      BY <2>1 DEF Guarded, retiring, plan, meshVars, kubeVars
    <3>2. ~Orphaned(ns)
      BY <2>1, <2>2, <3>1, Zenon
    <3> QED
      BY <3>1, <3>2 DEF Orphaned
  <2>3. CASE m # ns
    BY <2>1, <2>3
    DEF OrphanGuard, Guarded, Known, Inject, retiring, plan, cache, meshVars,
        kubeVars
  <2> QED
    BY <2>2, <2>3
<1> QED
  BY <1>1, <1>2, GuardMoves

LEMMA RunStepGuard ==
  ASSUME TypeOK, TagInv, OrphanGuard, RunStep
  PROVE  OrphanGuard'
<1>1. CASE ReadState \/ Inspect \/ ArmPut \/ ArmPoll \/ VerifyUpgrade
  <2>1. ASSUME NEW ns \in Namespaces PROVE ~Guarded(ns)'
    BY <1>1
    DEF ReadState, Inspect, ArmPut, ArmPoll, VerifyUpgrade, Arm, Goto, End,
        Guarded
  <2> QED
    BY <2>1 DEF OrphanGuard
<1>2. CASE ArmGet
  BY <1>2
  DEF ArmGet, End, OrphanGuard, Guarded, Known, Inject, retiring, cache,
      meshVars, kubeVars, plan
<1>3. CASE OrphansChecked
  <2> SUFFICES ASSUME NEW ns \in Namespaces, Guarded(ns)', Known(ns)',
                      (Inject(ns) = dest)'
               PROVE  (sidecar[ns] \cap retiring = {})'
    BY DEF OrphanGuard
  <2>1. /\ UNCHANGED <<meshVars, cache>> /\ pc = "orphans"
        /\ retiring = {} \/ (listed /\ todo = {})
    BY <1>3 DEF OrphansChecked
  <2>2. ~Fail
    <3>1. ~Proceed
      BY <2>1 DEF Proceed
    <3> QED
      BY <3>1, FailMoves DEF End, StartsRollback, Guarded
  <2>3. Arm("complete") /\ phase = "canary" /\ ~failed
    BY <1>3, <2>2 DEF OrphansChecked, ExhaustionIsFatal, Guarded, Arm, End
  <2> QED
    BY <2>1, <2>3
    DEF OrphanGuard, Guarded, Known, Inject, retiring, Arm, cache, meshVars,
        kubeVars
<1> QED
  BY <1>1, <1>2, <1>3, MeshStepGuard DEF RunStep, MeshStep

LEMMA NextGuard ==
  ASSUME TypeOK, TagInv, KnownInMesh, OrphanGuard, [Next]_vars
  PROVE  OrphanGuard'
<1>1. CASE Environment /\ UNCHANGED <<runVars, cache>>
  <2> SUFFICES ASSUME NEW ns \in Namespaces, Guarded(ns)', Known(ns)',
                      (Inject(ns) = dest)'
               PROVE  (sidecar[ns] \cap retiring = {})'
    BY DEF OrphanGuard
  <2>1. Guarded(ns) /\ Known(ns) /\ dest' = dest /\ retiring' = retiring
    BY <1>1 DEF Guarded, Known, retiring, runVars, plan, loop, cache
  <2>2. InMesh(ns)
    BY <2>1 DEF KnownInMesh
  <2>3. Inject(ns) = dest /\ sidecar'[ns] \subseteq sidecar[ns] \cup {dest}
    BY <1>1, <2>1, <2>2, PodsFollowInjection
  <2> QED
    BY <2>1, <2>3 DEF OrphanGuard, retiring
<1>2. CASE StartRun \/ Exit \/ Crash
  BY <1>2 DEF StartRun, Exit, Crash, Forget, OrphanGuard, Guarded
<1>3. CASE Deadline \/ UNCHANGED vars
  BY <1>3
  DEF Deadline, OrphanGuard, Guarded, Known, Inject, retiring, vars, meshVars,
      kubeVars, runVars, plan, loop, cache
<1> QED
  BY <1>1, <1>2, <1>3, RunStepGuard DEF Next

\* The inductive invariant: ARM lists what the run knows of or somebody else's
\* canaries, and what the orphan guard saw of a namespace stays so.
THEOREM RetireInvariant == Spec => []RetireInv
<1>1. Init => RetireInv
  BY DEF Init, MeshInit, Fresh, RetireInv, RevsAccounted, OrphanGuard, Guarded,
         Running, Completed
<1>2. TypeOK /\ TagInv /\ NewestInv /\ KnownInMesh /\ RetireInv /\ [Next]_vars
        => RetireInv'
  BY NextRevs, NextGuard DEF RetireInv
<1> QED
  BY <1>1, <1>2, TypeCorrect, TagInvariant, NewestInvariant, KnownInvariant, PTL
  DEF Spec

LEMMA CompletionSpares ==
  ASSUME TypeOK, TagInv, NewestInv, KnownInMesh, RetireInv, [Next]_vars,
         Completing, phase = "canary", revs' # revs,
         NEW ns \in Namespaces, Known(ns), Inject(ns) = dest
  PROVE  sidecar[ns] \cap (revs \ revs') \subseteq ForeignRevs \ prev
<1>1. sidecar[ns] \cap retiring = {}
  BY DEF RetireInv, OrphanGuard, Guarded, Completing
<1>2. revs \subseteq prev \cup {dest} \cup ForeignRevs
  BY DEF RetireInv, RevsAccounted, Completing, Running
<1>3. ArmPut \/ Environment
  BY AksUnchanged DEF aksVars
<1>4. CASE Environment
  BY <1>4, EnvironmentPlanes
<1>5. CASE ArmPut
  <2>1. dest \in revs'
    BY <1>5 DEF ArmPut, ArmGoal, Completing, meshVars, aksVars
  <2> QED
    BY <1>1, <1>2, <2>1 DEF retiring
<1> QED
  BY <1>3, <1>4, <1>5

\* Only DeleteConfigMaps takes a ConfigMap away, after the completion.
LEMMA ConfigMapsSpared ==
  ASSUME TypeOK, RetireInv, [Next]_vars
  PROVE  (cm \ cm') \cap revs \subseteq ForeignRevs
<1>1. CASE DeleteConfigMaps
  <2>1. revs \subseteq {dest} \cup ForeignRevs
    BY <1>1 DEF DeleteConfigMaps, RetireInv, RevsAccounted, Completed
  <2> QED
    BY <1>1, <2>1 DEF DeleteConfigMaps, OldConfigMaps, retiring
<1>2. CASE ~DeleteConfigMaps
  <2>1. cm \subseteq cm'
    BY <1>2
    DEF Next, RunStep, StartRun, Exit, Crash, Forget, Deadline, ReadState,
        Inspect, ArmGet, ArmPut, ArmPoll, CreateConfigMap, CheckTags,
        VerifyPlanes, EnsureRevisionTag, EnsureIngress, HealthCheck,
        ListNamespaces, LabelsUpdated, NamespacesDone, OrphansChecked,
        UpdateLabel, RestartNamespace, RestartFails, RolloutConverged,
        RolloutFails, CheckNamespace, VerifyUpgrade, CallFails, Environment,
        ArmDone, ArmFails, Repair, ForeignCanary, CpUp, CpDown, PodStarts,
        PodExits, RolloutReady, NamespaceJoins, vars, meshVars, kubeVars
  <2> QED
    BY <2>1
<1> QED
  BY <1>1, <1>2

\* A completion takes no control plane away from a pod of a namespace that the
\* run knows and whose injection it has moved, but for a canary that somebody
\* else has started since the run began; nor does a run delete the ConfigMap of
\* a revision that is listed, with the same exception (retireOrphanedWorkloads,
\* CompleteCanaryUpgrade, DeleteRevisionConfigMap).
THEOREM RetiresOnlyUnused == Spec => RetireOnlyUnused
<1>1. TypeOK /\ TagInv /\ NewestInv /\ KnownInMesh /\ RetireInv /\ [Next]_vars
        => [/\ Completing /\ phase = "canary" /\ revs' # revs =>
                 \A ns \in Namespaces : Known(ns) /\ Inject(ns) = dest =>
                   sidecar[ns] \cap (revs \ revs') \subseteq ForeignRevs \ prev
            /\ (cm \ cm') \cap revs \subseteq ForeignRevs]_vars
  BY CompletionSpares, ConfigMapsSpared
<1> QED
  BY <1>1, TypeCorrect, TagInvariant, NewestInvariant, KnownInvariant,
     RetireInvariant, PTL
  DEF Spec, RetireOnlyUnused
=============================================================================
