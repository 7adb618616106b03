SPECIFICATION MCSpec
CONSTANTS
  MaxTroubles = 1
  Workspaces = {w, x}
  Elsewhere = {x}
  Commands = {"manage", "modify", "clean", "fixup"}
  PageSize = 1
  MaxRunning = 2
  ka = ka
  kb = kb
  kc = kc
  Clusters = {ka, kb, kc}
  Home <- MCHome
  GroupNames = {g}
  s1 = s1
  s2 = s2
  Syncs = {s1, s2}
  Untagged = "untagged"
  None = None
  ClustersPerPage = 2
  MaxTurns = 1
  b1 = b1
  b2 = b2
  M = M
  A = A
  S = S
  S1 = S1
  S2 = S2
  c1 = c1
  c2 = c2
  NoFolder = NoFolder
  Boards <- MCBoards
  Folders <- MCFolders
  Parent <- MCParent
  Under <- MCUnder
  DashboardFolders <- MCManaged
  AzureManaged <- MCAzure
  ScratchFolders <- MCScratch
  Contents <- MCContents
  FirstDraft = c1
  FirstFolders <- MCFirstFolders
  Gits <- MCGits
  MaxEdits = 1
  MaxFaults = 1
CHECK_DEADLOCK FALSE
INVARIANT TypesOK
INVARIANT OthersReconciled
PROPERTY WritesWholeEnvironment
PROPERTY GroupsConverge
PROPERTY SparesWhatIsLive
PROPERTY IntegrationsConverge
PROPERTY OnlyDoomedGo
PROPERTY Converges
