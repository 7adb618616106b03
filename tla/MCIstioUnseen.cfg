SPECIFICATION Spec
CONSTANTS
  n1 = n1
  n2 = n2
  NoLabel = NoLabel
  TagLabel = TagLabel
  NoRevision = NoRevision
  Revisions = {1, 2}
  Namespaces <- MCNamespaces
  TagMode = TRUE
  InitialRevs = {{}, {1}}
  NsLabels = {TagLabel}
  ForeignRevs = {}
  MaxFaults = 0
  Targets = {2}
  Offered = {2}
  StopAfters = {"", "canary-start", "orphan-check"}
  MaxOrphanRetries = 1
PROPERTY NoPodOrphaned
