-------------------------- MODULE PipelineDefinition --------------------------
(***************************************************************************)
(* pipelines/types: what a pipeline file declares, which of its steps a    *)
(* step waits for, and what Validate lets through to the graph.            *)
(*                                                                         *)
(* A step waits for the steps it names in dependsOn and for those whose    *)
(* outputs it consumes.  The former are one list; the latter are collected *)
(* by the RequiredInputs that each type of step writes by hand, field by   *)
(* field.  nodesFor turns both into edges; module PipelineGraph goes on    *)
(* from there and takes for granted what Validate has checked.             *)
(*                                                                         *)
(* Names are numbers, which is how they are ordered, and 0 is the empty    *)
(* string.  Documents are those that pass the schema.                      *)
(***************************************************************************)
EXTENDS SequencesExt, Integers, FiniteSets

CONSTANTS Documents,   \* what the pipeline file may say
          MaxBuilds    \* bound: graphs built from one pipeline in one process

Identifiers == Nat \X Nat

IsStep(step) ==
  /\ DOMAIN step = {"name", "action", "dependsOn", "inputs", "identity", "copyFrom",
                    "publicSource"}
  /\ step.name \in Nat
  /\ step.dependsOn \in Seq(Identifiers) /\ step.identity \in Identifiers
  /\ IsFiniteSet(DOMAIN step.inputs)
  /\ \A f \in DOMAIN step.inputs :
       IsFiniteSet(step.inputs[f]) /\ step.inputs[f] \subseteq Identifiers

IsDocument(d) ==
  \A g \in DOMAIN d :
    /\ DOMAIN d[g] = {"name", "subscription", "steps", "validation"}
    /\ \A j \in DOMAIN d[g].steps : IsStep(d[g].steps[j])

ASSUME DocumentsAssumption == \A d \in Documents : IsDocument(d)
ASSUME BuildsAssumption    == MaxBuilds \in Nat

VARIABLES
  pipeline,   \* ResourceGroups, a sequence
  stage,      \* "read", "accepted" or "rejected"
  built,      \* the edges of the graphs built so far
  resolved    \* the shell steps that image mirror steps were resolved to

defVars == <<pipeline, stage, built, resolved>>

-----------------------------------------------------------------------------
(* The types of steps.  fields can carry the output of another step; asked  *)
(* are those that RequiredInputs looks at; identity is IdentityFrom, which  *)
(* is a plain struct: left out, it names step "" of resource group "".      *)

Type(fields, identity) == [fields |-> fields, asked |-> fields, identity |-> identity]

GenericStep == Type({}, "none")
ShellStep   == Type({"variables", "dryRunVariables", "shellIdentity"}, "none")
SafeFlyStep == Type({"shellIdentity"}, "none")
ARMStep      == Type({"variables"}, "none")
ARMStackStep == Type({"variables"}, "none")
DelegateChildZoneStep ==
  Type({"parentZone", "childZone", "deploymentMode", "secretKeyVault", "secretName",
        "dstsHost"}, "none")
SetCertificateIssuerStep ==
  Type({"vaultBaseUrl", "issuer", "secretKeyVault", "secretName", "applicationId"},
       "none")
CreateCertificateStep ==
  Type({"vaultBaseUrl", "certificateName", "contentType", "san", "issuer",
        "secretKeyVault", "secretName", "applicationId", "commonName", "manage"},
       "none")
ResourceProviderRegistrationStep == Type({"resourceProviderNamespaces"}, "none")
\* Mutant: the list forgets the pointer among the values.
LogsForgetful ==
  [Type({"typeName", "database", "mdsdConfigFile"}, "none")
   EXCEPT !.asked = @ \ {"mdsdConfigFile"}]

LogsStep ==
  Type({"typeName", "secretKeyVault", "secretName", "environment", "accountName",
        "metricsAccount", "adminAlias", "adminGroup", "subscriptionId", "namespace",
        "certsan", "certdescription", "configVersion", "monikerDefaultRegion",
        "database", "mdsdConfigFile"}, "none")
FeatureRegistrationStep == Type({"secretKeyVault", "secretName"}, "none")
ProviderFeatureRegistrationStep == Type({}, "plain")
Ev2RegistrationStep == Type({}, "plain")
SecretSyncStep == Type({}, "plain")
KustoStep ==
  Type({"secretKeyVault", "secretName", "applicationId", "connectionString",
        "command"}, "none")
Pav2Step ==
  Type({"secretKeyVault", "secretName", "storageAccount",
        "smeEndpointSuffixParameter", "smeAppidParameter"}, "none")
HelmStep == Type({"kustoEndpoint", "inputVariables"}, "plain")
RunGenevaActionStep ==
  Type({"secretKeyVault", "secretName", "gaExtensionName", "gaEndpoint",
        "gaOperationId", "payloadProperties"}, "none")
PublishGenevaActionStep ==
  Type({"secretKeyVault", "secretName", "gaExtensionName"}, "none")
GenevaHealthStep ==
  Type({"secretKeyVault", "secretName", "monitoringAccountName",
        "additionalScopeBindings"}, "none")
PublishGenevaAutomationStep ==
  Type({"secretKeyVault", "kustoClientSecretName", "genevaAutomationSecretName",
        "icmServiceId", "icmTeamId"}, "none")
ProwJobStep == Type({"dryRun"}, "plain")
GrafanaDashboardsStep == Type({}, "plain")
GrafanaManageStep ==
  Type({"grafanaName", "location", "sku", "majorVersion", "zoneRedundancy",
        "publicNetworkAccess", "crossTenantSecurityGroup"}, "plain")
GrafanaDatasourcesStep == Type({}, "plain")
KustoEntityGroupsStep == Type({}, "plain")
IstioUpgradeStep == Type({"aksCluster"}, "optional")

ImageMirrorStep ==
  Type({"targetACR", "sourceRegistry", "repository", "digest", "imageFilePath",
        "imageTarFileName", "imageMetadataFileName", "pullSecretKeyVault",
        "pullSecretName", "shellIdentity"}, "none")

\* What Steps.UnmarshalJSON makes of an action; of any other, a GenericStep.
Actions ==
  [Shell |-> ShellStep, SafeFly |-> SafeFlyStep, Helm |-> HelmStep, ARM |-> ARMStep,
   ARMStack |-> ARMStackStep, DelegateChildZone |-> DelegateChildZoneStep,
   SetCertificateIssuer |-> SetCertificateIssuerStep,
   CreateCertificate |-> CreateCertificateStep,
   ResourceProviderRegistration |-> ResourceProviderRegistrationStep,
   ImageMirror |-> ImageMirrorStep, RPLogsAccount |-> LogsStep,
   ClusterLogsAccount |-> LogsStep, FeatureRegistration |-> FeatureRegistrationStep,
   ProviderFeatureRegistration |-> ProviderFeatureRegistrationStep,
   Ev2Registration |-> Ev2RegistrationStep, SecretSync |-> SecretSyncStep,
   Kusto |-> KustoStep, Pav2 |-> Pav2Step,
   PublishGenevaAction |-> PublishGenevaActionStep,
   RunGenevaAction |-> RunGenevaActionStep, GenevaHealth |-> GenevaHealthStep,
   PublishGenevaAutomation |-> PublishGenevaAutomationStep, ProwJob |-> ProwJobStep,
   GrafanaDashboards |-> GrafanaDashboardsStep, GrafanaManage |-> GrafanaManageStep,
   GrafanaDatasources |-> GrafanaDatasourcesStep,
   KustoEntityGroups |-> KustoEntityGroupsStep, IstioUpgrade |-> IstioUpgradeStep]

TypeOf(step) ==
  IF step.action \in DOMAIN Actions THEN Actions[step.action] ELSE GenericStep

-----------------------------------------------------------------------------
(* Steps.  dependsOn is a sequence of identifiers, inputs gives for a field *)
(* the steps it consumes outputs of (one for a Value, several for the maps  *)
(* and lists of them) and identity the one IdentityFrom names.              *)

NoStep == <<0, 0>>

\* CompareStepDependencies, and a set of them in that order: the i-th is the one
\* that i - 1 others come before.
Before(a, b) == a[1] < b[1] \/ (a[1] = b[1] /\ a[2] < b[2])
Earlier(d, deps) == {e \in deps : Before(e, d)}
InOrder(deps) ==
  [i \in 1 .. Cardinality(deps) |->
     CHOOSE d \in deps : Cardinality(Earlier(d, deps)) = i - 1]

AskedFor(step) ==
  UNION {step.inputs[f] : f \in TypeOf(step).asked \cap DOMAIN step.inputs}

RequiredInputs(step) ==
  AskedFor(step) \cup CASE TypeOf(step).identity = "none" -> {}
                     [] TypeOf(step).identity = "plain" -> {step.identity}
                     [] TypeOf(step).identity = "optional" -> {step.identity} \ {NoStep}

\* What Validate looks up and nodesFor makes edges of.
DependsOn(step) == ToSet(step.dependsOn) \cup RequiredInputs(step)

Id(g, j)     == <<pipeline[g].name, pipeline[g].steps[j].name>>
Places       == UNION {{g} \X DOMAIN pipeline[g].steps : g \in DOMAIN pipeline}
StepAt(p)    == pipeline[p[1]].steps[p[2]]
IdAt(p)      == Id(p[1], p[2])
StepIds      == {IdAt(p) : p \in Places}

-----------------------------------------------------------------------------
(* Validate *)

AreDistinct(steps) ==
  \A i, j \in DOMAIN steps : steps[i].name = steps[j].name => i = j

\* Duplicates among the validation steps are looked for in the names of the
\* others, so only those are found.
ValidationApart(group) ==
  \A v \in DOMAIN group.validation : \A s \in DOMAIN group.steps :
    group.validation[v].name # group.steps[s].name

ReferencesExist == \A p \in Places : DependsOn(StepAt(p)) \subseteq StepIds

GroupIsValid(group) == group.name # 0 /\ group.subscription

Validates ==
  /\ AreDistinct(pipeline)
  /\ \A g \in DOMAIN pipeline : /\ AreDistinct(pipeline[g].steps)
                                /\ ValidationApart(pipeline[g])
                                /\ GroupIsValid(pipeline[g])
  /\ ReferencesExist

Validate ==
  /\ stage = "read"
  /\ stage' = IF Validates THEN "accepted" ELSE "rejected"
  /\ UNCHANGED <<pipeline, built, resolved>>

-----------------------------------------------------------------------------
(* nodesFor.  append extends dependsOn in place when its array has room for *)
(* what is added, and SortFunc and Compact then rearrange that array: the   *)
(* step's own dependsOn changes under it.                                   *)

\* The room of an array that encoding/json has grown to n elements: 1, 2, 4, 8.
Capacity(n) == CHOOSE c \in {0, 1, 2, 4, 8} :
                 n <= c /\ \A d \in {0, 1, 2, 4, 8} : n <= d => c <= d

\* The step's dependsOn after nodesFor has appended to it, sorted it and
\* compacted it; what Compact leaves over is cleared.
Rearranged(step) ==
  LET n == Len(step.dependsOn)
      r == Cardinality(RequiredInputs(step))
      s == InOrder(DependsOn(step))
  IN  IF n + r <= Capacity(n)
      THEN [i \in 1 .. n |-> IF i <= Len(s) THEN s[i] ELSE NoStep]
      ELSE step.dependsOn

Edges == UNION {DependsOn(StepAt(p)) \X {IdAt(p)} : p \in Places}

Build ==
  /\ stage = "accepted" /\ Len(built) < MaxBuilds
  /\ built' = Append(built, Edges)
  /\ pipeline' = [g \in DOMAIN pipeline |->
       [pipeline[g] EXCEPT !.steps = [j \in DOMAIN @ |->
          [@[j] EXCEPT !.dependsOn = Rearranged(pipeline[g].steps[j])]]]]
  /\ UNCHANGED <<stage, resolved>>

-----------------------------------------------------------------------------
(* ResolveImageMirrorStep *)

MirrorVariables(step) ==
  {"targetACR", "repository"} \cup
  IF step.copyFrom = "oci-layout"
  THEN {"imageFilePath", "imageTarFileName", "imageMetadataFileName"}
  ELSE {"sourceRegistry", "digest"} \cup
       IF step.publicSource THEN {} ELSE {"pullSecretKeyVault", "pullSecretName"}

\* External dependencies, automated retries and the omission from completion
\* are not taken over; none of them is part of this module's steps.
AsShell(step) ==
  LET given(fs) == UNION {step.inputs[f] : f \in fs \cap DOMAIN step.inputs}
  IN  [step EXCEPT !.action = "Shell",
                   !.inputs = [variables |-> given(MirrorVariables(step)),
                               shellIdentity |-> given({"shellIdentity"})]]

Resolve(p) ==
  /\ stage = "accepted" /\ StepAt(p).action = "ImageMirror" /\ Len(built) > 0
  /\ resolved' = resolved \cup {<<IdAt(p), AsShell(StepAt(p))>>}
  /\ resolved' # resolved
  /\ UNCHANGED <<pipeline, stage, built>>

-----------------------------------------------------------------------------
DefInit == pipeline \in Documents /\ stage = "read" /\ built = << >> /\ resolved = {}

DefNext == Validate \/ Build \/ \E p \in Places : Resolve(p)

DefSpec == DefInit /\ [][DefNext]_defVars

DefTypeOK ==
  /\ stage \in {"read", "accepted", "rejected"}
  /\ \A p \in Places : \A i \in DOMAIN StepAt(p).dependsOn :
       StepAt(p).dependsOn[i] \in Identifiers
  /\ Len(built) <= MaxBuilds

(***************************************************************************)
(* What the graph presumes of a pipeline that was accepted: every edge     *)
(* joins two steps of the pipeline (nodesFor creates no node for others,   *)
(* and a step would wait for one that never runs).  It says so of the      *)
(* first graph only: a dependency that is named twice leaves NoStep behind *)
(* when the array is rearranged, and the next graph has an edge from it.   *)
(***************************************************************************)
EdgesResolve == Len(built) > 0 => built[1] \subseteq StepIds \X StepIds

(***************************************************************************)
(* However many graphs are built of a pipeline, and whatever that does to  *)
(* its lists, nothing else gets into them: an edge leads from a step of    *)
(* the pipeline, or from NoStep.                                           *)
(***************************************************************************)
OnlyNoStepStrays ==
  \A k \in DOMAIN built : built[k] \subseteq (StepIds \cup {NoStep}) \X StepIds

(***************************************************************************)
(* No step runs before one whose output it consumes, whatever the field    *)
(* that consumes it, in the graph built last: RequiredInputs of its type   *)
(* forgets none, and what an earlier graph did to dependsOn costs none.    *)
(***************************************************************************)
InputsAwaited ==
  Len(built) > 0 =>
    \A p \in Places :
      \A f \in TypeOf(StepAt(p)).fields \cap DOMAIN StepAt(p).inputs :
        \A d \in StepAt(p).inputs[f] : <<d, IdAt(p)>> \in Last(built)

(***************************************************************************)
(* A shell step that stands for an image mirror step consumes no output    *)
(* that the graph, which was built with the image mirror step, does not    *)
(* make it wait for.                                                       *)
(***************************************************************************)
ResolvedAwaitsNoMore ==
  \A r \in resolved : \A d \in RequiredInputs(r[2]) : <<d, r[1]>> \in built[1]

(***************************************************************************)
(* A pipeline that was validated is a graph in which each step waits for   *)
(* all it reads, and for nothing that is not there: three lists of inputs  *)
(* that are written by hand, in Validate, nodesFor and the resolution of   *)
(* image mirrors, agree.                                                   *)
(***************************************************************************)
GraphServesSteps ==
  EdgesResolve /\ OnlyNoStepStrays /\ InputsAwaited /\ ResolvedAwaitsNoMore
=============================================================================
