SPECIFICATION FairSpec
CONSTANTS
  n1 = n1
  n2 = n2
  NoLabel = NoLabel
  TagLabel = TagLabel
  NoRevision = NoRevision
  Revisions = {1, 2, 3}
  Namespaces <- MCNamespaces
  TagMode = TRUE
  InitialRevs = {{}, {1}, {1, 2}}
  NsLabels = {TagLabel}
  ForeignRevs = {2, 3}
  MaxFaults = 2
  Targets = {3}
  Offered = {3}
  StopAfters = {""}
  MaxOrphanRetries = 1
PROPERTY ImplementsLifecycle
PROPERTY Converges
