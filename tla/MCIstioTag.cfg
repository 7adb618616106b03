SPECIFICATION Spec
CONSTANTS
  n1 = n1
  n2 = n2
  NoLabel = NoLabel
  TagLabel = TagLabel
  NoRevision = NoRevision
  Revisions = {1, 2, 3}
  Namespaces <- MCNamespaces
  TagMode = TRUE
  InitialRevs = {{}, {1}}
  NsLabels = {TagLabel}
  ForeignRevs = {2, 3}
  MaxFaults = 2
  Targets = {2, 3}
  Offered = {2, 3}
  StopAfters = {"", "orphan-check"}
  MaxOrphanRetries = 1
INVARIANT TagTargetsInstalled
INVARIANT RollbackRestores
PROPERTY RetireOnlyUnused
PROPERTY CanaryIsNewest
SYMMETRY MCSymmetry
