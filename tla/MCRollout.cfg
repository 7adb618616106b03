SPECIFICATION MCSpec
CONSTANTS
  n1 = n1
  n2 = n2
  ReleaseNamespace = n2
  a = a
  b = b
  c = c
  Spaces = {n1, n2}
  Names <- MCNames
  Releases <- MCReleases
  NamespaceFiles <- MCNamespaceFiles
  Objects <- MCObjects
  Manifest <- MCManifest
  HelmAttempts = 2
  MaxRevisions = 4
  MaxFaults = 2
  vault = vault
  s1 = s1
  s2 = s2
  k1 = k1
  k2 = k2
  Vaults = {vault}
  Secrets = {s1, s2}
  Keys = {k1, k2}
  People = {p, q}
  NoKey = NoKey
  NoValue = NoValue
  Unreadable = Unreadable
  Torn <- MCTorn
  MaxRegistrations = 2
  MaxEvents = 1
  rp = rp
  rq = rq
  f = f
  g = g
  Providers = {rp, rq}
  Features <- MCFeatures
  Polled <- MCPolled
  MaxCallFaults = 2
  j1 = j1
  j2 = j2
  j3 = j3
  t1 = t1
  t2 = t2
  NoJob = NoJob
  Jobs <- MCJobs
  Tests <- MCTests
  Reports <- MCReports
  Attempts = 2
  MaxFailures = 2
  MaxReruns = 1
CHECK_DEADLOCK FALSE
INVARIANT TypesOK
INVARIANT OwnersFindTheirPods
INVARIANT SuccessIsReal
INVARIANT OneKeyPerVault
INVARIANT PopulatedMeansThere
INVARIANT TriedOrReported
INVARIANT GateDecides
PROPERTY SparesOthers
PROPERTY Deploys
PROPERTY OnlyStaleWritesLose
PROPERTY GoodOnesArrive
PROPERTY AllRegistered
PROPERTY RerunsKnownIssues
PROPERTY ComesToAnEnd
