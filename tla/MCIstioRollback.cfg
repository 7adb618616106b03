SPECIFICATION Spec
CONSTANTS
  n1 = n1
  n2 = n2
  NoLabel = NoLabel
  TagLabel = TagLabel
  NoRevision = NoRevision
  Revisions = {1, 2}
  Namespaces <- MCNamespaces
  TagMode = FALSE
  InitialRevs = {{}, {1}}
  NsLabels = {1}
  ForeignRevs = {}
  MaxFaults = 1
  Targets = {2}
  Offered = {2}
  StopAfters = {"", "canary-start", "orphan-check"}
  MaxOrphanRetries = 1
INVARIANT RollbackRestores
