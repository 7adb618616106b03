------------------------------ MODULE HelmDeploy ------------------------------
(***************************************************************************)
(* tools/helm: how one rollout step deploys a Helm chart.  Deploy applies  *)
(* the namespaces, looks at the release's history, refuses to go on when   *)
(* its latest revision is a stale lock, rehearses the release to learn its *)
(* objects, takes the field manager "helm" off those, and only then rolls  *)
(* the release out.  A dry run renders and validates, and changes nothing. *)
(*                                                                         *)
(* Beside it act another deployer of the same release, the controllers of  *)
(* the objects, time, and the operator who follows the advice of the error *)
(* for a stale lock.  The step may be killed, and is then run again.       *)
(***************************************************************************)
EXTENDS Naturals, Sequences

CONSTANTS
  NamespaceFiles,   \* namespaces that manifests are given for
  ReleaseNamespace,
  Objects,          \* objects there may be in the cluster
  Manifest,         \* those of them that the chart renders
  HelmAttempts,     \* Steps of transientCredentialErrorBackoff
  MaxRevisions,     \* bound on the history of the release
  MaxFaults         \* bound on errors, kills, and what others do

ASSUME ManifestAssumption == Manifest \subseteq Objects
ASSUME HelmAttemptsAssumption == HelmAttempts \in Nat \ {0}
ASSUME BoundsAssumption == MaxRevisions \in Nat \ {0} /\ MaxFaults \in Nat

VARIABLES
  asked,      \* the DryRun the step was given; never changed
  checking,   \* StaleLockThreshold > 0; never changed
  history,    \* revisions of the release, the latest is last
  live,       \* who has an operation on the latest of them under way
  applied,    \* namespaces that are as their manifests say
  managers,   \* the field managers of each object that is there
  step,       \* where Deploy is
  dryRun,     \* opts.DryRun
  attempt,    \* failed calls in retryOnTransientCredentialError
  todo,       \* namespaces or objects left to the present loop
  read,       \* what Get returned for the object in hand: its managers
  moved,      \* that object has been written since: another resourceVersion
  alone,      \* objects written in this loop that have no manager but "helm"
  failed,     \* validateHelmResources: some object was rejected
  helmOutcome, faults

cluster  == <<history, live, applied, managers>>
settings == <<asked, checking>>
local    == <<dryRun, attempt, todo, read, failed>>
writing  == <<moved, alone>>
helmVars == <<settings, cluster, step, local, helmOutcome, writing, faults>>

\* Complete adds a minimal manifest for the release's own namespace.
Namespaces == NamespaceFiles \cup {ReleaseNamespace}

Managers  == {"helm", "helmdeploy", "controller"}
Absent    == {"absent"}
Deployers == {"us", "other"}

\* age is that of LastDeployed against the threshold, "none" for a zero time; it
\* is of interest while the revision is pending, and "none" otherwise.
Revisions == [status : {"pending", "deployed", "failed", "uninstalled"},
              by : Deployers, age : {"none", "fresh", "old"}]

HelmTypeOK ==
  /\ asked \in BOOLEAN /\ checking \in BOOLEAN
  /\ history \in Seq(Revisions) /\ Len(history) <= MaxRevisions
  /\ live \subseteq Deployers
  /\ applied \subseteq Namespaces
  /\ managers \in [Objects -> (SUBSET Managers) \cup {Absent}]
  /\ step \in {"start", "namespaces", "look", "rehearse", "remove", "put",
               "choose", "install",
               "upgrade", "wait", "validate", "done", "killed"}
  /\ dryRun \in BOOLEAN /\ attempt \in 0..HelmAttempts
  /\ todo \subseteq Namespaces \cup Objects
  /\ DOMAIN read \subseteq Objects
  /\ moved \in BOOLEAN /\ alone \subseteq Objects /\ failed \in BOOLEAN
  /\ helmOutcome \in {"none", "unreachable", "denied", "canceled", "stale", "busy",
                  "error", "invalid", "ok"}
  /\ faults \in 0..MaxFaults

-----------------------------------------------------------------------------
(* The history of the release *)

\* The last of the versions that helm lists, which the code takes for the newest;
\* helm lists them as its storage does, and here that is by their number.
Latest  == history[Len(history)]
Status  == IF history = << >> THEN "none" ELSE Latest.status
Pending == Status = "pending"

\* The driver's ErrReleaseNotFound, or isReleaseUninstalled.
NoRelease == Status \in {"none", "uninstalled"}

\* Mutant: a time that is zero is a long time ago.
AgeSinceZero(revision) == IF revision.age = "none" THEN "old" ELSE revision.age

\* releaseAge: a time that is zero counts as no age at all.
Age(revision) == IF revision.age = "none" THEN "fresh" ELSE revision.age

\* Mutant: no pending revision is ever taken for a stale lock.
NeverStale == FALSE

\* checkForStaleReleaseLock
StaleLock == checking /\ Pending /\ Age(Latest) = "old"

Settled(status) == [history EXCEPT ![Len(history)].status = status,
                                   ![Len(history)].age = "none"]

\* helm's own, once it begins an operation.
Begun(who) ==
  Append(history, [status |-> "pending", by |-> who, age |-> "fresh"])

\* Server-side apply with ownership of the objects taken.
Owned == [o \in Objects |-> IF o \notin Manifest THEN managers[o]
                            ELSE (managers[o] \ Absent) \cup {"helmdeploy"}]

-----------------------------------------------------------------------------
(* Deploy *)

HelmInit ==
  /\ asked \in BOOLEAN /\ checking \in BOOLEAN
  /\ \/ history = << >> /\ live = {}
     \/ \E r \in [status : {"deployed", "failed", "uninstalled", "pending"},
                  by : {"other"}, age : {"none", "fresh", "old"}] :
          /\ history = <<r>> /\ (r.status # "pending" => r.age = "none")
          /\ live \in {{}, IF r.status = "pending" /\ r.age # "old"
                             THEN {"other"} ELSE {}}
  /\ applied = {} /\ moved = FALSE /\ alone = {} /\ faults = 0
  /\ managers \in [Objects -> {Absent, {"helm"}, {"helm", "controller"}}]
  /\ step = "start" /\ dryRun = asked /\ attempt = 0
  /\ todo = {} /\ read = << >> /\ failed = FALSE /\ helmOutcome = "none"

End(o) == /\ step' = "done" /\ helmOutcome' = o
          /\ UNCHANGED <<settings, local, writing>>

Fault == faults < MaxFaults /\ faults' = faults + 1

Others == <<settings, helmOutcome, writing, faults>>

\* Validate and Complete: a flag that is missing, or a file that cannot be read,
\* ends the step before it has touched the cluster.
Complete ==
  /\ step = "start"
  /\ \/ step' = "namespaces" /\ todo' = Namespaces
        /\ UNCHANGED <<dryRun, attempt, read, failed, Others>>
     \/ Fault /\ End("error")
  /\ UNCHANGED cluster

Applied(n) == IF dryRun THEN applied ELSE applied \cup {n}

ApplyNamespace(n) ==
  /\ step = "namespaces" /\ n \in todo
  /\ applied' = Applied(n)
  /\ todo' = todo \ {n} /\ attempt' = 0
  /\ step' = IF todo # {n} THEN step ELSE IF dryRun THEN "choose" ELSE "look"
  /\ UNCHANGED <<history, live, managers, dryRun, read, failed, Others>>

GivesUp == attempt + 1 = HelmAttempts

\* isTransientCredentialError: retryOnTransientCredentialError tries again.
TransientError ==
  /\ step = "namespaces" /\ todo # {} /\ Fault
  /\ attempt' = attempt + 1
  /\ IF GivesUp THEN step' = "done" /\ helmOutcome' = "unreachable"
                ELSE UNCHANGED <<step, helmOutcome>>
  /\ UNCHANGED <<settings, cluster, dryRun, todo, read, failed, writing>>

\* Any other error, or the end of the context, is told as it is at once.
PermanentError ==
  /\ step = "namespaces" /\ todo # {} /\ Fault
  /\ \E o \in {"denied", "canceled"} : End(o)
  /\ UNCHANGED cluster

Look ==
  /\ step = "look" /\ ~StaleLock
  /\ IF NoRelease THEN step' = "choose" /\ UNCHANGED dryRun
                  ELSE step' = "rehearse" /\ dryRun' = TRUE
  /\ UNCHANGED <<cluster, attempt, todo, read, failed, Others>>

StopAtStaleLock ==
  /\ step = "look" /\ StaleLock
  /\ End("stale") /\ UNCHANGED <<cluster, faults>>

\* An error other than ErrReleaseNotFound is passed over: without versions the
\* release is neither uninstalled nor locked.
LookFails ==
  /\ step = "look" /\ Fault
  /\ step' = "rehearse" /\ dryRun' = TRUE
  /\ UNCHANGED <<settings, cluster, attempt, todo, read, failed, helmOutcome, writing>>

\* Mutant: DryRun is not turned off again.
StaysOn == TRUE

\* opts.DryRun after the last object.
AfterRemoval == FALSE

\* The loop of removeOldFieldManager goes on with the objects in rest.
RemoveFrom(rest, solely) ==
  /\ todo' = rest
  /\ IF rest = {} THEN step' = "choose" /\ dryRun' = AfterRemoval /\ alone' = {}
                  ELSE step' = "remove" /\ alone' = solely /\ UNCHANGED dryRun

\* Where RemoveFrom leaves the rest alone.
Loop == <<settings, attempt, failed, helmOutcome, moved, faults>>

\* runHelmUpgrade with DryRun on: helm refuses while the latest revision is
\* pending, and renders the manifest otherwise.
Rehearse ==
  /\ step = "rehearse"
  /\ IF Pending THEN End("busy") /\ UNCHANGED <<cluster, faults>>
     ELSE RemoveFrom(Manifest, {}) /\ UNCHANGED <<cluster, read, Loop>>

SkipAbsent(o) ==
  /\ step = "remove" /\ o \in todo /\ managers[o] = Absent
  /\ RemoveFrom(todo \ {o}, alone)
  /\ UNCHANGED <<cluster, read, Loop>>

ReadObject(o) ==
  /\ step = "remove" /\ o \in todo /\ managers[o] # Absent
  /\ step' = "put" /\ read' = [x \in {o} |-> managers[o]] /\ moved' = FALSE
  /\ UNCHANGED <<settings, cluster, dryRun, attempt, todo, failed, helmOutcome, alone,
                 faults>>

\* toKeep
Kept(fields) == fields \ {"helm"}

\* The API server, of an update: without managed fields in it, which is what an
\* empty toKeep makes of it, those that the object has stay as they are.
Accepted(fields, sent) == IF sent = {} THEN fields ELSE sent

\* The object is written even when there was nothing to take off; the API
\* server takes no write that is based on an older resourceVersion.
PutObject(o) ==
  /\ step = "put" /\ o \in DOMAIN read
  /\ read' = << >>
  /\ IF moved
       THEN /\ step' = "done" /\ helmOutcome' = "error"
            /\ UNCHANGED <<settings, cluster, dryRun, attempt, todo, failed,
                           writing, faults>>
       ELSE /\ managers' = [managers EXCEPT ![o] = Accepted(@, Kept(read[o]))]
            /\ RemoveFrom(todo \ {o},
                          IF Kept(read[o]) = {} THEN alone \cup {o} ELSE alone)
            /\ UNCHANGED <<history, live, applied, Loop>>

\* The second look, that of runHelmUpgrade; an error other than
\* driver.ErrReleaseNotFound leads to an upgrade.
Choose ==
  /\ step = "choose"
  /\ \/ step' = (IF NoRelease THEN "install" ELSE "upgrade") /\ UNCHANGED faults
     \/ step' = "upgrade" /\ Fault
  /\ UNCHANGED <<settings, cluster, local, helmOutcome, writing>>

\* What helm asks of the release before it begins.  Whether it installs over an
\* uninstalled release is its own affair.
Accepts == IF step = "install" THEN NoRelease
           ELSE Status \in {"deployed", "failed"}

Refuses == ~Accepts \/ (step = "install" /\ Status = "uninstalled")

HelmRefuses ==
  /\ step \in {"install", "upgrade"} /\ Refuses
  /\ End("busy") /\ UNCHANGED <<cluster, faults>>

HelmRenders ==
  /\ step \in {"install", "upgrade"} /\ Accepts /\ dryRun
  /\ step' = "validate" /\ todo' = Manifest
  /\ UNCHANGED <<cluster, dryRun, attempt, read, failed, Others>>

HelmBegins ==
  /\ step \in {"install", "upgrade"} /\ Accepts /\ ~dryRun
  /\ Len(history) < MaxRevisions
  /\ step' = "wait" /\ history' = Begun("us") /\ live' = live \cup {"us"}
  /\ UNCHANGED <<applied, managers, local, Others>>

\* The resources are there, or the wait for them fails or times out, and its
\* revision with it unless helm cannot even write that; or else the answer cannot
\* be converted, and the step fails over a release that is deployed.
HelmEnds ==
  /\ step = "wait" /\ live' = live \ {"us"} /\ UNCHANGED applied
  /\ \/ /\ history' = Settled("deployed") /\ managers' = Owned
        /\ End("ok") /\ UNCHANGED faults
     \/ /\ history' \in {history, Settled("failed"), Settled("deployed")}
        /\ managers' \in {managers, Owned}
        /\ End("error") /\ Fault

\* validateHelmResources goes through all objects, whatever becomes of them.
ValidateObject(o) ==
  /\ step = "validate" /\ o \in todo
  /\ todo' = todo \ {o}
  /\ \/ UNCHANGED <<failed, faults>>
     \/ failed' = TRUE /\ Fault
  /\ UNCHANGED <<settings, cluster, step, dryRun, attempt, read, helmOutcome, writing>>

Validated ==
  /\ step = "validate" /\ todo = {}
  /\ End(IF failed THEN "invalid" ELSE "ok")
  /\ UNCHANGED <<cluster, faults>>

\* Any other call to the cluster fails.
HelmCallFails ==
  /\ step \in {"rehearse", "remove", "put", "install", "upgrade", "validate"}
  /\ Fault /\ End("error") /\ UNCHANGED cluster

Deploy ==
  \/ Complete \/ \E n \in NamespaceFiles \cup {ReleaseNamespace} : ApplyNamespace(n)
  \/ TransientError \/ PermanentError
  \/ Look \/ LookFails \/ StopAtStaleLock
  \/ Rehearse
  \/ \E o \in Objects : SkipAbsent(o) \/ ReadObject(o) \/ PutObject(o)
  \/ Choose \/ HelmRefuses \/ HelmRenders \/ HelmBegins \/ HelmEnds
  \/ \E o \in Objects : ValidateObject(o)
  \/ Validated \/ HelmCallFails

-----------------------------------------------------------------------------
(* What else happens *)

Kill ==
  /\ step \notin {"done", "killed"} /\ Fault
  /\ step' = "killed" /\ live' = live \ {"us"}
  /\ UNCHANGED <<settings, history, applied, managers, local, helmOutcome, writing>>

\* The step is run again, by a new process.
RunAgain ==
  /\ step = "killed" \/ (step = "done" /\ helmOutcome # "ok")
  /\ step' = "start" /\ dryRun' = asked /\ attempt' = 0
  /\ todo' = {} /\ read' = << >> /\ failed' = FALSE /\ helmOutcome' = "none"
  /\ moved' = FALSE /\ alone' = {}
  /\ UNCHANGED <<settings, cluster, faults>>

\* The deployer of another rollout, or helm by hand.
OtherBegins ==
  /\ ~Pending /\ Len(history) < MaxRevisions /\ Fault
  /\ history' = Begun("other") /\ live' = live \cup {"other"}
  /\ UNCHANGED <<settings, applied, managers, step, local, helmOutcome, writing>>

OtherEnds ==
  /\ "other" \in live /\ live' = live \ {"other"}
  /\ \E s \in {"deployed", "failed"} : history' = Settled(s)
  /\ UNCHANGED <<settings, applied, managers, step, local, helmOutcome, writing, faults>>

OtherIsKilled ==
  /\ "other" \in live /\ live' = live \ {"other"} /\ Fault
  /\ UNCHANGED <<settings, history, applied, managers, step, local, helmOutcome, writing>>

\* An operation ends within its Timeout, which is below the threshold: only what
\* nobody works on any more becomes old.
TimePasses ==
  /\ Pending /\ Latest.age = "fresh" /\ live = {}
  /\ history' = [history EXCEPT ![Len(history)].age = "old"]
  /\ UNCHANGED <<settings, live, applied, managers, step, local, helmOutcome, writing, faults>>

\* The advice of StaleReleaseLockError: delete the revision's secret after
\* confirming that no operation is still running.
OperatorDeletesLock ==
  /\ helmOutcome = "stale" /\ Pending /\ live = {}
  /\ history' = SubSeq(history, 1, Len(history) - 1)
  /\ UNCHANGED <<settings, live, applied, managers, step, local, helmOutcome, writing, faults>>

\* A controller writes an object of the release.
ControllerWrites(o) ==
  /\ managers[o] # Absent /\ Fault
  /\ managers' = [managers EXCEPT ![o] = @ \cup {"controller"}]
  /\ moved' = (moved \/ o \in DOMAIN read)
  /\ UNCHANGED <<settings, history, live, applied, step, local, helmOutcome, alone>>

HelmNext ==
  \/ Deploy \/ Kill \/ RunAgain
  \/ OtherBegins \/ OtherEnds \/ OtherIsKilled
  \/ TimePasses \/ OperatorDeletesLock
  \/ \E o \in Objects : ControllerWrites(o)

HelmFairness ==
  /\ WF_helmVars(Deploy) /\ WF_helmVars(RunAgain)
  /\ WF_helmVars(OtherEnds) /\ WF_helmVars(TimePasses)
  /\ SF_helmVars(OperatorDeletesLock)

HelmSpec == HelmInit /\ [][HelmNext]_helmVars /\ HelmFairness

-----------------------------------------------------------------------------
(* Properties *)

\* A deployment that reports success has deployed the release, into a namespace
\* that is there whether a file names it or not, unless it was asked for a dry run:
\* the DryRun that Deploy turns on for its rehearsal (options.go:315-331) must not
\* reach the rollout.
SuccessIsReal ==
  helmOutcome = "ok" /\ ~asked =>
    /\ ReleaseNamespace \in applied
    /\ \E i \in DOMAIN history : history[i].by = "us" /\ history[i].status = "deployed"

\* A dry run changes nothing in the cluster, whatever fails in it
\* (options.go:73: "Do not make any changes to the Kubernetes API server").
DryRunSpares == asked /\ Deploy => UNCHANGED cluster

\* A stale lock is only reported when nobody works on the release any more: not
\* while a live operation has yet to write its time, nor in its timeout.
StaleIsDead == helmOutcome' = "stale" /\ helmOutcome # "stale" => live = {}

\* Until helm begins, objects of the manifest lose the manager "helm" and nothing
\* else, and no other object is touched, whoever writes meanwhile; at the end of
\* it none of them has the old manager, but for those that had no other one when
\* they were written: those keep it.
OnlyHelmStripped ==
  /\ \A o \in Objects : PutObject(o) =>
       \/ UNCHANGED managers
       \/ /\ o \in Manifest /\ managers'[o] = managers[o] \ {"helm"}
          /\ \A x \in Objects \ {o} : managers'[x] = managers[x]
  /\ step \in {"remove", "put"} /\ step' = "choose" =>
       \A o \in Manifest :
          "helm" \in managers'[o] => o \in alone \/ managers'[o] = {"helm"}

\* What Deploy does besides the rollout itself harms nobody: not the cluster in a
\* rehearsal, not a live operation, not another manager's fields.
SparesOthers == [][DryRunSpares /\ StaleIsDead /\ OnlyHelmStripped]_helmVars

\* With the check for stale locks on, and run again until it succeeds, the step
\* deploys: no revision that a killed deployer leaves blocks it for ever.
Deploys ==
  <>[](/\ ~asked /\ checking
       /\ \A i \in DOMAIN history :
            /\ history[i].status # "uninstalled"
            /\ history[i].status = "pending" => history[i].age # "none"
       => helmOutcome = "ok")
=============================================================================
