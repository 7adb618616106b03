# ARO-Tools in TLA+

ARO-Tools is a monorepo of Go libraries and command-line tools that the ARO HCP
service teams run in their delivery pipelines.  The libraries turn configuration,
service topologies and pipeline definitions into an execution graph; the tools are
the steps such a graph executes against live systems: they upgrade the mesh of a
cluster, deploy Helm releases, wait for Prow jobs, synchronise Grafana, rotate secrets.
This directory holds the TLA+ specifications of that code, the TLC configurations
that check them on small instances, and theorems with proofs for TLAPS.

    tlc -config MCIstioTag.cfg MCIstio        # one run
    tlapm IstioUpgrade_proofs.tla             # the proofs of one module

`PROJECT.json` maps every definition to the lines of the code it stands for, lists
the hazards of the code with the properties that watch them, and for each property
a plausible bug (a *mutant* of one definition) that makes TLC find it violated.

## Inventory

| component | state it keeps | operations | what makes it hard | what makes it correct |
|---|---|---|---|---|
| mesh upgrade (`tools/istio-upgrade`) | none of its own: ARM's list of revisions, the tag webhook, namespace labels, sidecars, ConfigMaps; in a run, a cache of namespaces | reconcile, install, canary, resume, clean up and upgrade, roll back | a run may die after any call and is run again, with another target perhaps; pods, namespaces and other people's canaries move meanwhile; ARM complete cannot be undone | injection never points at a removed control plane; nothing in use is retired; a rollback restores; repeated runs arrive |
| configuration (`config`, `config/types`) | layered documents | merge, look up, truncate, provenance, merge of files with schemas | precedence at every depth; three walks through the same layers | the last layer that names a key wins, nothing else is lost, provenance agrees |
| pipeline definitions (`pipelines/types`) | documents | validate, the edges of a pipeline, resolution of image mirrors | each type of step lists its inputs by hand; slices are rearranged in place | every reference leads to a step; no step starts before its inputs |
| topology (`pipelines/topology`) | a forest of services | `Load`, `Validate`, `LoadCombined`, `Lookup` | files name each other's services as parents, in any order; marks are handed down | accepted exactly when in order; nothing is lost, misplaced or refused for the order of reading |
| execution graph (`pipelines/graph`) | nodes, edges, leaves, resource groups | `ForPipeline`, `ForEntrypoint(s)` | expansion by stamps, shared groups, external dependencies, cycles | edges agree; stamps do not wait for each other; a parent completes first; cycles are found, and no others |
| Prow gate (`tools/prow-job-executor`) | one job id | submit, poll, time out, decide, mark for a rerun | lost answers, a deadline beside a late answer, retries at three levels | a gate opens for this run's success only; an open one never blocks; the step ends |
| Grafana synchronisation (`tools/grafanactl` sync) | none of its own: folders and dashboards of the instance | sync folders, upload, delete stale, expire scratch, prune | decides from listings while users work; failed calls are logged and passed over | deletes only what is stale or expired; repeated syncs agree with git |
| Grafana maintenance (`clean`, `manage`, `modify`) | the integrations of the Azure resource, the datasources of the instance | read, discover, wait, write | each command writes what it made of old answers, beside the others | nothing live is taken off; the integrations come to be those there are |
| Helm step (`tools/helm`) | a release's history, managed fields | apply namespaces, look, rehearse, take off the old field manager, deploy | another deployer, controllers, a rehearsal that fails half-way, pending revisions | success means deployed; a dry run changes nothing; a live operation is left alone |
| Helm diagnostics (`tools/helm/diagnostics.go`) | the resources of a release | sort resources and owners, offer queries | names that are prefixes of others | each owner is matched with its pods |
| secret synchronisation (`tools/secret-sync`) | a file of encrypted secrets, key vaults | register, populate | read, change, write of a shared file; partial failure | one key per vault; only a stale write loses; vaults converge |
| resource provider registration (`tools/registration`) | registrations of a subscription | register, wait | polls beside a deadline, partial failure | what was to be waited for is registered or reported; features after their provider |
| Kusto entity groups (`tools/kustoctl`) | entity groups on each cluster | discover, select, alter | paging while the fleet changes; syncs of several environments; one cluster fails | groups stay within an environment; no known cluster is dropped; repeated syncs arrive |
| EV2 configuration, sanitizer, `yamlwrap`, release report, Grafana list and verify, `cmdutils`, `testutil` | none | conversions, tables, reports | little: they read, or rewrite text | left to their tests |

**How they interact.**  `config` resolves the values of a region; `topology` tells which
services there are and below which others they hang; `types` holds each service's
pipeline; `graph` expands all of it into steps with dependencies, for each stamp.  EV2
executes the graph; its steps call the tools, one process per step.  Tools share no
memory: they interact through ARM, Kubernetes, Prow, Grafana, key vaults, Kusto and
EV2's retries.  That is why the environment of each model is as important as the
tool in it.

## Modules

| module | what it is |
|---|---|
| `IstioDecide` | `decide.go`: `classify` and `Decide` as a pure function |
| `IstioMesh` | the cluster, as far as the tool can tell two clusters apart, and everybody but the tool: ARM, istiods, pods, rollouts, namespace owners, a foreign canary |
| `IstioUpgrade` | one run of the tool, call by call, and the pipeline that runs it again; EXTENDS the other two |
| `MeshLifecycle` | the abstract specification: a control plane is installed, the tag switched, the others retired; an installation that was overtaken may lose the latest that others brought, and nothing else |
| `IstioInvariant` | the inductive invariant `TagInv` |
| `IstioUpgrade_proofs` | type correctness; the tag |
| `IstioCanary_proofs` | the order of canaries, the refinement of `MeshLifecycle`, rollback, the orphan guard |
| `ConfigLayers` | layers of configuration as trees: merge, lookup, truncation, provenance, the three walks; the merge of files |
| `ConfigPaths` | what a merge of any number of layers promises, path by path: non-recursive, and what `ConfigLayers` refers to |
| `SchemaPaths` | the reference to the schema, rewritten file by file; `ConfigLayers` EXTENDS it |
| `PipelineDefinition` | the types of steps and their inputs, `Validate`, what `nodesFor` makes of a pipeline, and does to it |
| `TopologyValidation` | `Load` and `Validate` of one file, each service by service |
| `CombinedTopology` | `LoadCombined`: files, deferred services, attachment, inheritance of the stamped mark |
| `Acyclicity` | cycles of a graph, the vocabulary of the next modules |
| `CycleDetection` | `detectCycles`: the three-coloured search, visit by visit |
| `Definitions` | the four modules above side by side, as one specification |
| `Definitions_proofs` | theorems about `Definitions` and its parts, `ConfigPaths` and `SchemaPaths` |
| `PipelineGraph`, `PipelineGraph_proofs` | the graph builder: `accumulate` over the tree of services, iterations, wiring, external dependencies, detection |
| `ProwGate`, `ProwGate_proofs` | the gating step: submission with retries, the poll loop, the gate, the rerun marker, EV2's rerun |
| `GrafanaSync`, `GrafanaSync_proofs` | a sync of dashboards and scratch folders, call by call, beside users and commits |
| `GrafanaIntegrations` | the four commands that change integrations and datasources, beside each other, the service, and workspaces that come and go |
| `HelmDeploy` | one deployment call by call, beside another deployer, controllers, time, kills and the operator of a stale lock |
| `HelmDiagnostics` | what is reported after a rollout, object by object |
| `SecretSync` | several registers, whose writes may overlap or be cut short, and a populate, beside the owners of the vaults |
| `Registration` | the registration of providers and their features, beside the service |
| `RolloutTools` | the last four modules and `ProwGate` side by side |
| `Rollout_proofs` | theorems about `RolloutTools`: `HelmDeploy`, `HelmDiagnostics`, `SecretSync` and `Registration`, and, from `ProwGate_proofs`, the types of all five |
| `EntityGroups` | overlapping syncs of several environments, beside a fleet that is being provisioned and tagged |
| `FleetTools` | `EntityGroups`, `GrafanaIntegrations` and `GrafanaSync` side by side |
| `Fleet_proofs` | theorems about `FleetTools` and its parts |
| `MCIstio`, `MCPipelineGraph`, `MCProwGate` | instances of one module each |
| `MCDefinitions` | instances of `Definitions` and, beside it, `ConfigLayers`: all that is read before a rollout |
| `MCRollout`, `MCFleet` | instances of `RolloutTools` and `FleetTools` |

`IstioUpgrade` composes the cluster, the decision and the run, and implements
`MeshLifecycle` with `installed <- revs, serving <- tag, Others <- ForeignRevs`.
`PipelineGraph` takes the search as one step with the answer that `DetectionCorrect` of
`Definitions_proofs` establishes for every graph.

*Side by side* means that the components share no variable and that the code gives them
nothing to share: `active` says which of them is checked, the others stay in a state in
which their properties hold.  The run is then the union of the components' behaviours,
not their product, and a property of one of them is checked on the states of that one.
As one component acts, one fairness condition can hold a step of each of them; every
condition of `MCSpec` follows from those that the components state (`HelmFairness`,
`SyncFairness` and so on), so nothing more is assumed than they say.
The composed specifications (`Definitions`, `RolloutTools`, `FleetTools`) let all
components act at once, so what is proved of them holds of the product.

### State and actions beside the code

*Mesh upgrade.*  `revs`, `prov` are ARM's answer; `planes`, `ready` the istiod
deployments and their readiness; `tag` the revision of the tag webhook; `label`,
`sidecar`, `rolling` per namespace; `cm` the ConfigMaps.  `pc` is the call the run makes
next and `phase` the function it is in, so that one action per remote call serves all
flows as the shared functions do in the code.  `prev` is `previousRevisions`,
`cachedNS` the cache of `kubeclient.go`, `read` the body between the Get and the PUT of
`modifyClusterProperties`.  A call may fail, or take effect and be reported as failed;
`Crash` ends a run anywhere; after `Deadline` every call fails, the rollback's included.

*Configuration.*  A document is a tree of maps with marked values, so that each value
tells which layer it is from.  `level` is the layer reached, `cfg` the merge so far;
`files`, `merged`, `reached`, `schema` are the loop over files and its references to
schemas, which are rewritten relative to the target.

*Pipelines.*  `pipeline` is the document, `built` the edges of the graphs built of it so
far.  `Build` also leaves `dependsOn` as Go's `append`, `SortFunc` and `Compact` leave the
array under it.  `Actions` holds, for each type of step, the fields that may consume an
output, beside the fields its `RequiredInputs` names.

*Topology.*  `marked` is how far `propagateStamped` has handed marks down, `place` the
walk of `Validate` in preorder, `below` which services have a
stamped one above, `seenNames` the set that all roots share.  In the combination,
`parent` is the forest so far, `deferred` the list of services with external parents,
`next` the loop over it; files are read in any order.

*Graph.*  `stack` is the recursion of `accumulate`, with the iterations a service has left
and the leaves it has collected; `nodes`, `children`, `parents`, `groups` are the
builder's maps.  An input is a record (tree, stamps, pipelines, dependencies, omitted
steps) chosen in `Init` from `Inputs`.

*Prow.*  `jobs` is Prow's state, `listed` what its status API shows, `id` and `job` the
tool's view; `tries` counts the calls of `retry.WithValue`; `gate` and `allowRetry` are
the flags; `expired` is the context of `waitForCompletion`.

*Grafana.*  `folders`, `at`, `content`, `old` are the instance; `listed`, `listedAt`,
`found` the three listings a sync decides from, each one search that is taken to be
complete; `visited`, `gone`, `pruned` its
`dashboardsVisited`, `deletedDashboards` and deleted subfolders.  Of the integrations,
`cmd` holds for each command what it has read, found and wants; `update` is the one
update the service has under way; `dangling` and `orphaned` are history, and guard
nothing: what `clean` still holds and was not to be seen at some time since it read it,
and the datasources that were without a workspace at some time since they came.

*Diagnostics.*  `reported` are the resources left to look at; the objects of a list are
put in its place (`Extract`) and then sorted one at a time (`Process`).

*Helm.*  `history` are the revisions of the release, with who made the latest and how old
it is against the threshold; `step`, `dryRun`, `attempt` are where `Deploy` is, its
`DryRun`, which it turns on and off, and the count of the backoff; `managers` the field
managers of each object, `read` and `moved` the object in hand and whether its
resourceVersion has changed since.  `removeOldFieldManager` sends back the managed fields
without those of "helm"; when nothing is left, the update carries none, and the API
server then keeps those that the object has (`Accepted`).  `alone` is history, and guards
nothing: the objects of which that was so.  An operation may also end in an error with
its revision still pending, or deployed.

*Secrets.*  `file` is the config on disk.  `os.WriteFile` truncates it and then writes from
its beginning, two steps of which others may come in between: so the file may be read
blank, one process may write behind another, and one that is interrupted may leave part
of a text.  A write into a blank file, to its end, leaves what was to be written; any
other leaves a member of `Torn`, a config that may mix both texts or none at all
(`Unreadable`), and `whole`, which guards nothing, is false until somebody truncates the
file again, and writes what was read whole.  Nobody restores the file.  `form[p]`
is what person p's process has loaded; `sync` the populate in progress, with the secrets
left in the order of a map.  An encrypted secret is the key and the plaintext.

*Registration.*  `standing` is the service's view; `at`, `left`, `features`, `thing` the
loops; `errs` what will be reported.

*Entity groups.*  `tag` and `ready` are what Resource Graph shows; `syncing[s]` is a
sync with the pages found, the membership it made, the clusters left and failed.

## Runs

| run | question | result |
|---|---|---|
| `istio_tag` | Tag mode, two namespaces, three revisions, targets that change between runs, other people's canaries, two faults: do tag, rollback, orphan guard and the order of canaries hold? | `TagTargetsInstalled`, `RollbackRestores`, `RetireOnlyUnused`, `CanaryIsNewest` hold |
| `istio_labels` | The same without a tag, where namespaces are relabelled one by one: does the orphan guard still hold at the PUT? | `RetireOnlyUnused` holds |
| `istio_converge` | With one target, after two faults anywhere and from leftovers of an earlier target: and with canaries that somebody else starts, do repeated runs arrive, and is the history one of install, switch, retire? | `Converges`, `ImplementsLifecycle` hold |
| `istio_unseen` | Does ARM complete leave no pod on an old sidecar, as `upgrade.go:481-484` says? | `NoPodOrphaned` violated: a namespace that joined after the cache was filled |
| `istio_rollback` | Without a tag, does a rollback that reports success restore every label? | `RollbackRestores` violated: after a partial relabelling the cache is stale |
| `definitions` | Are configuration, pipelines and topologies read for what they say? | `SaysWhatLayersSay` (configuration), `GraphServesSteps` (pipelines), `ValidatesRightly` (one topology), `LoadsRightly` (many), `DetectsExactly` (cycles), `TypesOK` hold |
| `graph` | Three services in a chain, a fork or alone; stamps, omitted steps, external dependencies, conflicting groups | `EdgesInv`, `CompletionFirst`, `CyclesAreReal`, `SharedGroupsAgree` hold |
| `graph_self` | Is a graph whose steps wait for each other never let through (`graph.go:804`)? | `CyclesAreDetected` violated: a step that is its own external dependency |
| `prow_masked` | Is a permanent failure propagated unchanged (`retry.go:34-36`)? | `PermanentUnchanged` violated: masked by an earlier transient one |
| `rollout` | Do the steps of a rollout and the tools beside it do what they report, whatever fails and whoever interferes? | `SuccessIsReal`, `SparesOthers`, `Deploys` (Helm), `OwnersFindTheirPods` (diagnostics), `OneKeyPerVault`, `PopulatedMeansThere`, `OnlyStaleWritesLose`, `GoodOnesArrive` (secrets), `TriedOrReported`, `AllRegistered` (registration), `GateDecides`, `RerunsKnownIssues`, `ComesToAnEnd` (Prow), `TypesOK` hold |
| `secret_key` | Is a public key that `register` is given the vault's key afterwards, as the flag's help says (`register/options.go:35`)? | `GivenKeyIsRecorded` violated: with a key on record the file is not read |
| `fleet` | Do entity groups and Grafana's integrations come to be the fleet's, and its dashboards those in git, and is nothing dropped or deleted on the way? | `WritesWholeEnvironment`, `OthersReconciled`, `GroupsConverge` (entity groups), `SparesWhatIsLive`, `IntegrationsConverge` (integrations), `OnlyDoomedGo`, `Converges` (dashboards), `TypesOK` hold |

A property of several parts is a conjunction of named ones, each with its comment:
`SaysWhatLayersSay` is that a merge of trees is an `Overlay` of paths, the last layer wins,
provenance explains, regions refine environments, truncation is exact and a schema stays
the same; `GraphServesSteps` that edges lead to steps, later graphs add none but from
`NoStep`, inputs are awaited, and resolution adds no waiting;
`ValidatesRightly` that the verdict is right and stamps reach down; `LoadsRightly` that
nothing is lost, refused without need, or misses a stamp; `GateDecides` that the gate
holds and that an open one never blocks.  The type invariants of `IstioUpgrade`
and `PipelineGraph` are proved, and not run once more.

**Bounds, and why they are enough.**

- *Mesh.*  AKS allows two revisions at a time; three numbered ones let a target change
  while a canary is under way, and let the canary be older or newer than both.  Two
  namespaces are the fewest that a loop can leave half done; they are interchangeable
  (symmetry) where the property is about safety.  Two faults are a failure and a failure
  of what is done about it.  `MaxOrphanRetries = 1`: a check, a restart and the last check.
  Where repeated runs are to arrive with a tag (`istio_converge`), the canaries that others
  start are of revisions 2 and 3: one below the target, and the target itself.
- *Configuration.*  Trees of depth three with a key that is a value in one layer and a map
  in another, in each of four layers, the last three of which may be missing.
- *Pipelines.*  Each field of each type of step, alone and in pairs, with `dependsOn` lists
  of zero to three entries: three is the least length at which a Go array has spare room.
  `MaxBuilds = 2`: the second graph is the first that a rearranged list can harm.
- *One topology.*  All shapes of up to three services, names that may be the same or bad.
- *Many.*  Four services are a parent that is itself attached late to one that is.
- *Cycles.*  Three nodes hold a diamond's shortcut, a cycle that is met late, and a
  dangling edge; larger graphs are covered by the theorem.
- *Graph.*  Three services give grandparents, siblings and unrelated services; two groups
  shared by two of them every way of sharing; two stamps one that is another's.
  The stamps are interchangeable.
- *Prow.*  Three jobs, two attempts, one rerun: a duplicate, its run's job, and a job of
  another run.  Jobs are alike, so they get their names in one order.
- *Dashboards.*  One managed folder, one foreign, a scratch folder with two nested
  subfolders: leaf first matters from depth two.  A history starts with one of three
  sets of folders, with and without the managed and the scratch folder.  One edit and
  one fault, at any time; git has one unreadable file, or a valid and an invalid one.
- *Helm.*  Two objects of the chart and one of another release; four revisions, which are
  one found, and one for each of two deployers, and one more; two faults (an error, and a
  kill or another deployer on top of it).  Two attempts: one that fails, and the last.
- *Diagnostics.*  Names of which some are prefixes of others, in lists and alone.
- *Secrets.*  Two secrets of one vault, two keys, two people with one registration each:
  they overlap in every order.  One event, which may be an interrupted write.  `Torn` is a
  text that cannot be loaded, a vault without a key, and two that mix keys; the theorems
  hold for any set of texts.  Vaults share nothing but the file, of which
  `OnlyStaleWritesLose` speaks; safety alone also passes with three registrations.
- *Registration.*  Two providers, with two features and one, of which some are waited for.
- *Entity groups.*  Two environments, with two clusters and one; pages of two, so that
  three clusters need a second; two syncs at a time.  One group on each cluster: that a
  failure at one group does not hide the cluster's others is `NobodyWaits`, for any number.
- *Integrations.*  Two workspaces, one in another subscription, pages of one; two of the
  four commands at a time, any two.

**Fairness.**  Only where a run has a liveness property.

- *Mesh*: EV2 retries the step, so the tool runs again and its steps are taken; ARM
  finishes an operation it accepted; an istiod and a rollout that can come up do.
  `Repair` of a failed cluster is an operator's act and has no fairness, so `Converges`
  allows for a cluster ARM left failed.
- *Prow*: the tool's steps and its timer are weakly fair; the timeout is strongly fair
  because Go's `select` picks at random between a ready ticker and a ready deadline, so it
  cannot be passed over for ever.  Jobs need not end.
- *Dashboards*: every rollout syncs again; nothing is assumed of users.
- *Helm*: the step goes on and is run again; another's operation ends, and a revision
  nobody works on grows old.  The operator who is told of a stale lock deletes it: strongly
  fair, as the report comes and goes with each run.
- *Secrets*: a write that has begun ends; populate is run for each vault again and again,
  strongly fair as another vault may be in progress.  Go ranges over a map in a random
  order, so each secret comes first at some time (strongly fair as well).
- *Registration*: the loop goes on, the context of a wait expires in the end, the service
  ends what it began.
- *Entity groups, integrations*: a command that runs goes on; pages, updates and tags come
  to be seen; a rollout runs the sync, and `manage reconcile`, again and again.

`CHECK_DEADLOCK FALSE` stands where programs end or rest: loads, searches and
registrations that are over, the gate, and histories whose bound on events is used up.

## What the runs found

Five disagreements between code and comment have a run each, listed under `findings`:

1. With a tag, nothing invalidates the cache of namespaces; the orphan guard does not
   look at a namespace that was labelled later (`kubeclient.go:51`).
2. Without one, a relabelling that fails half-way leaves the cache as it was, and the
   rollback skips the namespaces it should restore (`workloads.go:62`).
3. A step that names itself as external dependency overwrites its own edge
   (`graph.go:629`), so `detectCycles` misses that cycle.
4. `retry.WithValue` reports an exhausted budget for a permanent failure that follows a
   transient one (`retry.go:87`).
5. `register` ignores the public key it is given when the vault has one on record
   (`register/options.go:188-195`); the help of the flag says that it is for a key that
   needs to be updated (`register/options.go:35`).  So a key that was rotated stays on
   record until somebody edits the file.  That the code does not mix the two keys is
   `OneKeyPerVault`, whose mutant encrypts with the given key without recording it.

Observations that have no run, each visible in a model or read from the code:

*Mesh*
- A cleanup starts with `verifyControlPlaneAndTag` and `HealthCheck`, which want *every*
  istiod ready; the bad canary it is meant to skip (`upgrade.go:188-190`) is one of them.
- With two revisions installed and a target between or below them, reconcile flips the
  tag to the highest, be it an unfinished canary.
- The rollback runs under the deadline of the run (`upgrade.go:93`), so it cannot run
  when the deadline is what failed.
- A ConfigMap whose deletion failed, or came after a crash, is never deleted: the next
  run reconciles.

*Definitions and graph*
- `nodesFor` appends to, sorts and compacts `dependsOn` in place (`graph.go:680-682`).
  When the array has room (three entries, or five to seven) or an entry twice, the
  pipeline is another one afterwards, and a second graph of it can lose a dependency
  that is only declared, or have an edge from an empty step.  `EdgesResolve` therefore
  speaks of the first graph; `InputsAwaited` holds of every one, and by `OnlyNoStepStrays`
  nothing but the empty step ever gets in.
- `pipeline.go:115-118` looks for duplicate validation steps among the other steps only;
  in the graph the later one replaces the earlier.
- `walk` takes services by value (`topology/types.go:271`): the defaults it takes from
  metadata are lost when `Validate` returns, although `types_test.go:157` expects them.
- A service whose leaves are all omitted from completion hides its parent from its
  children: `CompletionFirst` speaks of chains without such a gap.

*Prow and dashboards*
- A submission whose answer is lost starts a job nobody watches (`client.go:89`).
- A dashboard whose file in git cannot be parsed, or is invalid, is deleted from the
  instance as stale, though `grafanactl/README.md:132` speaks of those no longer in git.
- The listings of dashboards and folders are one search without paging each
  (`client.go:274-296`): beyond the server's limit a dashboard would not be seen, neither
  updated where it is nor deleted.  The model takes them as complete.

*Rollout and fleet*
- A pending revision without a time of deployment is never reported as stale
  (`stale_lock.go`), so it blocks the release for good; `Deploys` leaves it out.
- An object whose managed fields are all of "helm" keeps them: without any to keep, the
  update carries none, and the API server does not take that for a request to empty them
  (`options.go:821-832`), though `options.go:294-295` has the old owners cleared out.
  `OnlyHelmStripped`, a part of `SparesOthers`, allows for it and for nothing else.
- The check for a stale lock takes the last revision that helm lists for the newest
  (`options.go:550`, `stale_lock.go:66`).  A storage that lists them by the name of their
  secret has v10 before v2, so from ten revisions on the last need not be the newest.  The
  model has them in order.
- The diagnostics run after a rollout that succeeded only (`options.go:340-361`), so they
  do not report on one that failed.
- Two registrations that write at once, or one that is interrupted, can leave a file that
  mixes their texts, as `os.WriteFile` truncates and writes in two steps and there is no
  lock (`register/options.go:259`).  A text that can be loaded all the same would be used;
  `OneKeyPerVault` speaks of files that were written whole.
- A feature that is answered without `Properties` makes the wait for it panic
  (`registration/options.go:312`).
- `DryRun` stays on after an error in the rehearsal.  One process calls `Deploy` once,
  so nothing comes of it.
- `addOwnerNoDuplicates` replaces only the first owner whose name is a prefix.
- Reading a secret that fails without a status is taken for a missing one
  (`populate/options.go:229`).  One bad secret ends the run, and with it those that the
  map happened to order later.
- `kusto.go:155-156` says that membership is never rebuilt from a partial set; the
  query lists clusters in state Succeeded only, so one that is just being updated is
  dropped until the next sync.  `WritesWholeEnvironment`
  speaks of discovered clusters.
- `clean` (`clean/cmd.go:49`) is about workspaces that do not exist any more, but also
  takes off those that are just being updated, or not tagged.
- `clean fixup-datasources` lists the workspaces of its own subscription, and deletes the
  managed datasources of all others; a Prometheus datasource made by hand whose name is
  no workspace would go as well (`clean/cmd.go:204-208`).
- `manage reconcile` reads the existing integrations for a log line only, and replaces
  them.

## Proofs

The theorems hold for every value of the constants that the named `ASSUME`s allow: any
number of revisions, namespaces, clusters, vaults or people, any finite graph, any tree of
folders, any set of files, any topology, and bounds of any size.  Each module proves an
inductive invariant first, one lemma per action or group of like actions, and reads the
properties off it.  Of the safety properties that the passing runs check, all but
`SaysWhatLayersSay` are proved, one of them (`RollbackRestores`) under a hypothesis that is
stated below; of `SaysWhatLayersSay` the parts that need no recursion are.

**The mesh.**

- `IstioUpgrade_proofs!TypeCorrect`: one lemma per action; `Proceed`, `Fail` and the
  faults, which all actions share, have their own.
- `TagInvariant`, `TagSafe`: the tag is only ever safe because of what a run knows.
  `TagTargetsInstalled` alone is not inductive: a flip to `dest` is safe as `dest` is
  installed (`DestInstalled`), a rollback as `prev` still is (`PrevInstalled`), a complete
  as the tag has moved (`TagMoved`), and a PUT as the Get before it saw all of these
  (`ReadInstalled`).  `PhaseOfStep` says which call belongs to which function.  Environment
  steps keep all of it because others only add revisions.
- `IstioCanary_proofs!NewestInvariant`, `CanariesAreNewest`: a PUT starts only a revision
  that is newer than all that the Get before it read.  It needs that a canary is newer than
  all that the run found when it decided on it (`NewerThanFound`), that nobody else takes a
  revision away between Get and PUT (`ReadStillInstalled`), and that a Get which finds the
  canary there already ends the step (`StartsAbsent`).
- `RunsImplementLifecycle` is the refinement `ImplementsLifecycle`, whoever else starts
  canaries: every step of a run, of its crashes and of the cluster is a step of
  `MeshLifecycle` or a stutter.  A start writes what was read a step before, as there is no
  ETag.  `MissesOnlyForeign`, a part of the invariant, says what such a PUT can have missed:
  canaries of somebody else, newer than all that was read, and never what the tag points at.
- `RollbackInvariant`, `RollbackHasPlane`: ARM is settled only on istiods that it lists
  (`SettledPlanes`), so what a run has found keeps its control planes while there is a way
  back (`PrevPlanes`), and the rollback has somewhere to lead to (`RollbackPlanes`).
  `RollbackRestoresByTag` is `RollbackRestores` in tag mode, when namespaces carry the tag's
  label or none.  Without a tag it is false: run `istio_rollback`.
- `RetireInvariant`, `RetiresOnlyUnused`: what ARM lists is what the run found or installed,
  or somebody else's (`RevsAccounted`); once the orphan guard has passed a namespace whose
  injection has moved, no sidecar of a retiring revision comes back to it (`OrphanGuard`).
  The invariant showed that a canary that somebody else has started since goes with the
  PUT, which reads it but does not keep it; `RetireOnlyUnused` says so (`ForeignRevs \ prev`).

**What is read before a rollout** (`Definitions_proofs`).

- `SearchInvariant`, `DetectionCorrect`: the stack is a path; a finished child is black;
  the black nodes are acyclic and closed under edges.  Blackening a node whose children are
  all black keeps them so (`AcyclicExtends`).
- `LoadInvariant`, `LoadComplete`, `LoadSound`, `StampsHandedDown`, `LoadCorrect`: every
  service hangs under a root, a deferred service still to attach, or a file still to read;
  attaching a tree to one outside it keeps a forest.
- `FileInvariant`, `FilesAreJudged`: services that were passed have inherited their stamp
  (`MarkedInv`); for those that were walked the names, purposes and pipelines are in order,
  and what has been seen of names and duplicates is what there is among them (`WalkedInv`);
  a rejection has its reason in the file (`VerdictInv`).
- `DefinitionInvariant`, `StepsAreServed`: a rearranged `dependsOn` may lose declared
  dependencies, but the inputs are collected afresh for each graph, so all of them are
  awaited in the first and the last (`AwaitedIn`); edges resolve in the first, as nothing
  has been rearranged before it.  In later ones nothing but `NoStep` is new (`AwaitsKnown`):
  sorting gives back what it is given (`InOrderHolds`), as counting the predecessors of each
  dependency is an injection into as many places, so no place stays empty.
- `LayersAccount`: with one more layer, what it says stands, and what was there stays where
  the layer does not end the way to it; `LastLayerWins` and `LayersExplain` are inductive
  together, and a merge of configurations is one again (`OverlayConfigures`).  That the
  recursion over trees is this `Overlay` is `MergesByPath`, which TLC checks.
- `SchemaIsFound`: the longest common prefix exists and is one of both (`SharedBeginning`),
  so a relative path leads where it was made for (`RelToLeadsThere`), and each rewritten
  reference means what it meant (`ResolvedMeansTheSame`).
- `DefinitionTypes`: the type invariants of the four parts, side by side.

**The graph** (`PipelineGraph_proofs`).

- `BuildInvariant`, `TypeCorrect`, `WellFormed`, `HonestCycles`: `Children` and `Parents`
  agree, edges lead to nodes and respect stamps and the declared dependencies, throughout
  the recursion, whose stack is a path of the tree of services.
- `GroupsAgree`: a declaration is kept with the first service that makes it, and each later
  one is compared with it, iteration by iteration.
- `OrderInvariant`, `CompletesFirst`: each service is on the stack once, and those below it
  are not wired before it is left (`WalkInv`); its nodes are the steps of its pipeline for
  its stamps (`OwnInv`); a service that is wired has its first steps behind all leaves of
  the one above (`WiredInv`).  That *no* step starts before the steps of *all* services
  above are done is then a statement about any set of steps that is closed under parents,
  so no induction along the path is needed.

**Prow and dashboards.**

- `ProwGate_proofs!StepInvariant`, `GateSafe`, `OpenNeverBlocks`, `GateCorrect`,
  `RerunsSafe`: what the tool believes of its job is a state the job was in, and an ended
  job does not change.
- `GrafanaSync_proofs!BoardsInvariant`, `DoomedGo`: a valid file has been remembered, or is
  in a folder or among files that are still to come (`FilesSeen`), so what is stale in the
  end has none; no dashboard was listed anywhere under a pruned folder, or it has been
  deleted (`PrunedEmpty`), which for a tree of any depth needs that a set of folders closed
  under `Parent` has all that is above each (`Under`).  `Arrived` counts a dashboard whose
  folder appeared after the search: without that the step is not provable, and TLC shows
  why with three edits.
- `BoardTypes`: each dashboard is in a folder
  that exists, as what is under a folder goes with it; a run holds files of the present
  checkout, as commits wait for its end.

**Rollout** (`Rollout_proofs`).

- `RegisterInvariant`, `NeverTwoKeys`, `FreshWritesKeep`: the file is only safe because
  everything that was read of a whole one, by whoever registers, has one key per vault, and
  because each registration has a key, on record or given, when it begins (`HasKey`): a
  vault without a key has no secrets that a new key could disagree with.  What was read of
  a torn file is not vouched for, whatever it may read as, and neither is what is made of
  it.  For any set `Torn`.
- `PopulateInvariant`, `SuccessMeansThere`: a secret that is done is in the vault with its
  value, or somebody has touched it since (`DoneIsThere`); a deleted name has no value.
- `RegistrationInvariant`, `NoneIsForgotten`: a provider that is no longer left has been
  tried or reported (`SeenTo`), and so have the features of one that was waited for and
  did not fail, but for those still ahead (`FeaturesSeenTo`).
- `HelmInvariant`, `SuccessDeployed`, `OthersAreSpared`: whoever works on the release works
  on its latest revision, which is pending and not old (`Locks`), so only the dead are
  reported stale; the rehearsal's `DryRun` is off before the rollout and never on but in a
  rehearsal (`DryRunAsAsked`); the namespace comes before the release (`NamespaceFirst`);
  the objects behind the loop have lost the manager unless they had no other (`alone`),
  and the one in hand is as it was read or has another resourceVersion (`Stripping`).
- `DiagInvariant`, `OwnersAreFound`: for each owner looked at so far a name is kept that is
  a prefix of its own (`Reached`); a name that takes the place of a kept one is a prefix of
  it, so what finds the pods of the old one is still there, and removal by index keeps all
  other names.
- `HelmTypes`, `SyncTypes`, `RegisterTypes`, and `ToolTypes` of all side by side: type
  correctness.  For Helm it needs that a
  namespace is given up before its calls exceed the backoff, that only helm makes a history
  longer, and that a lock that is deleted was there.

**The fleet** (`Fleet_proofs`).

- `GroupInvariant`, `GroupsAreWhole`, `NobodyWaits`: what a sync has found, tag by tag, was
  so once, and a cluster never changes its environment; what it writes was selected once,
  of a discovery without untagged clusters (`Membership`).  That nobody is passed over needs
  to know that at most one cluster is in hand at a time, and that it has all its groups but
  those still to do (`OneInHand`).
- `FleetInvariant`, `LiveIsSpared`: what `clean` is about to take off was not to be seen at
  some time since it read the integrations (`CleanKnows`), and so it is with what the
  service takes off for it (`UpdateKnows`); what `fixup` is about to delete has been without
  a workspace, or belongs to another subscription (`FixupKnows`).  `dangling` is about what
  `clean` holds, not about what is integrated at the moment: the two differ once somebody
  else takes an integration off meanwhile, as TLC shows with two troubles.
- `GroupTypes`, `IntegrationTypes`, and `FleetTypes` of both and `BoardTypes`: type correctness; for the
  first that no cluster is both to come and failed, for the second that the instance is
  updating exactly while an update is under way.

**Assumptions.**  Each `ASSUME` says what the schema, the language or the caller grants,
and TLC evaluates it in the runs of its module.

- Documents, topologies and files are those that pass their schema, with trees that are
  trees (`DocumentsAssumption`, `TopologiesAssumption`, `FilesAssumption`); sets of nodes,
  services and steps are finite.
- `FoldersAssumption` defines `Under` from `Parent`: g is under f if every set that has g
  and the parents of its members has f.
- `FeaturesAssumption`: the features of a provider are a list, and none is a provider.
  `RegisterTypes` and `ToolTypes` have the hypothesis `Providers # {}`: with none, no
  provider is in hand to speak of.
- `LayersAccount` is about paths that are sequences of any keys, the empty one among them;
  `SchemaIsFound` about directories that are sequences of any names.
- `NamesAssumption` and `ReleasesAssumption`: names are sequences of characters, a release
  is a sequence of objects and lists.
- `TornAssumption`: what a torn file reads as is a config, or cannot be loaded; nothing
  else is assumed of it.
- `CommandsAssumption`: the commands that run are among the four there are.
- Bounds are numbers; a history that may be found with one revision has room for one.

*Only model-checked*, and why:

- The eight liveness properties (`Converges` of the mesh and of dashboards, `ComesToAnEnd`,
  `Deploys`, `GoodOnesArrive`, `AllRegistered`, `GroupsConverge`, `IntegrationsConverge`):
  liveness under fairness is out of the prover's reach.
- `SaysWhatLayersSay`: trees of configuration are merged, truncated and looked up by
  recursion, and a statement about every depth of a tree needs induction over data.  What
  follows once `MergesByPath` is granted is `LayersAccount`.
- `RollbackRestores` without a tag is false as it stands, see above.

## What is not modelled

- Dry runs other than Helm's, parsing of flags, credentials, logs and reports.
- Two runs of `istio-upgrade` at once on one cluster (EV2 does not start them), a tag
  webhook that an earlier run with a tag left behind, and a writer of other properties of
  the cluster between the Get and the PUT of `modifyClusterProperties`.
- Pipelines that differ from stamp to stamp; `ForPipeline` is a single service.
- Of configuration: templates, the JSON schemas themselves, CEL rules, setters.  Of graphs:
  their drawing and JSON.
- Cancellation of the Prow step from outside, and the retries inside one poll.
- Dashboards: reading one and then writing or deleting it is one step; UIDs and
  titles of folders are one; two files with the same UID are left out of the instance,
  as with them a sync moves the dashboard to and fro.  A dashboard without metadata
  counts as expired in the code.
- Integrations: the other properties of the Azure resource, which `manage` writes as they
  are configured; datasources that no workspace is behind.
- Helm's own behaviour: `RollbackOnFailure`, an install over an uninstalled release,
  `Replace`, and the order in which its storage lists revisions.  The threshold of a stale
  lock is taken to be longer than an operation may last.
- A panic of the registration at a feature without properties (see above).
- Cryptography: a secret is decrypted by the key it was encrypted with, and by no other.
- Entity groups of all environments together (syncs without an environment, the legacy
  mode), and the form of names and endpoints.
- EV2 configuration and its sanitizer, `yamlwrap`, the release report, Grafana's list and
  verify, `cmdutils`, `testutil`: conversions of text, and programs that only read.

## Plan

What would add most next:

1. Lost updates of `modifyClusterProperties` (`aks.go:149`), with a writer of other
   properties of the cluster between the Get and the PUT.
2. Pipelines that differ from stamp to stamp, and steps of `OrderInvariant` for them.
3. Termination and precedence of `MergeRawConfigurationFiles` for files whose templates
   are not resolved yet.
