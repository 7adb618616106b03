------------------------- MODULE GrafanaSync_proofs ---------------------------
(* What a synchronisation of dashboards deletes: for any tree of folders,    *)
(* any dashboards and files, and users who never pause.                      *)
EXTENDS GrafanaSync, FiniteSetTheorems, TLAPS

-----------------------------------------------------------------------------
(* The inductive invariant *)

LiveTypes ==
  /\ folders \subseteq Folders /\ WithParents(folders)
  /\ at \in [Boards -> Folders \cup {NoFolder}]
  /\ git \subseteq Files /\ edits \in Nat

Valid(g) == g \in git /\ g.kind = "valid"

\* A valid file is remembered, or will be: it is in a folder that is to come, or is
\* among the files that are left of this one.
FilesSeen ==
  /\ stage = "folders" => \A g : Valid(g) => g.uid \in visited \/ g.folder \in left
  /\ stage = "files" =>
       \A g : Valid(g) => g.uid \in visited \/ g.folder \in left \/ g \in files
  /\ stage = "stale" => \A b \in boards : InScope(b) /\ ~ValidIn(b)

\* No dashboard was listed in a folder that is found under a pruned one, or else it
\* has been deleted.
PrunedEmpty ==
  /\ stage \in {"scratch", "expire", "prune"} => found \subseteq Folders /\ WithParents(found)
  /\ stage = "expire" => pruned = {}
  /\ stage \in {"expire", "prune"} => folder \in Folders
  /\ stage = "prune" =>
       /\ subs \subseteq Under[folder] \cap found
       /\ \A p \in pruned : \A h \in Under[p] \cap found : Count(h) = {}

ConfigLeft == left \subseteq DashboardFolders \cup ScratchFolders

BInv == LiveTypes /\ ConfigLeft /\ FilesSeen /\ PrunedEmpty

-----------------------------------------------------------------------------
(* Trees of folders *)

LEMMA UnderIs ==
  ASSUME NEW f \in Folders
  PROVE  Under[f] = {g \in Folders : \A fs \in SUBSET Folders :
                                      g \in fs /\ WithParents(fs) => f \in fs}
BY FoldersAssumption

LEMMA UnderFolders ==
  ASSUME NEW f \in Folders
  PROVE  Under[f] \subseteq Folders /\ f \in Under[f]
BY UnderIs

\* A set that has the parents has all that is above.
LEMMA AboveIsIn ==
  ASSUME NEW fs \in SUBSET Folders, WithParents(fs), NEW h \in fs,
         NEW f \in Folders, h \in Under[f]
  PROVE  f \in fs
BY UnderIs

\* What is under a folder is also under the one that it is in.
LEMMA UnderGrandparent ==
  ASSUME NEW f \in Folders, NEW g \in Folders, Parent[g] = f
  PROVE  Under[g] \subseteq Under[f]
<1> SUFFICES ASSUME NEW h \in Under[g], NEW fs \in SUBSET Folders,
                    h \in fs, WithParents(fs)
             PROVE  f \in fs
  BY UnderIs
<1>1. g \in fs
  BY UnderIs
<1> QED
  BY <1>1, FoldersAssumption DEF WithParents

\* A folder is under whatever the one that it is in is under.
LEMMA UnderByParent ==
  ASSUME NEW f \in Folders, NEW g \in Folders, Parent[g] \in Under[f]
  PROVE  g \in Under[f]
<1> SUFFICES ASSUME NEW fs \in SUBSET Folders, g \in fs, WithParents(fs)
             PROVE  f \in fs
  BY UnderIs
<1>1. Parent[g] \in Folders
  BY UnderFolders
<1>2. Parent[g] \in fs
  BY <1>1, FoldersAssumption DEF WithParents
<1> QED
  BY <1>2, UnderIs

\* The way up to a folder leads through one that is in it.
LEMMA UnderByChild ==
  ASSUME NEW f \in Folders, NEW h \in Under[f], h # f
  PROVE  \E g \in Folders : Parent[g] = f /\ h \in Under[g]
<1> SUFFICES ASSUME \A g \in Folders : Parent[g] = f => h \notin Under[g]
             PROVE  FALSE
  OBVIOUS
<1> DEFINE above == {g \in Folders : h \in Under[g]} \ {f}
<1>1. h \in above /\ above \in SUBSET Folders
  BY UnderFolders
<1>2. ASSUME NEW x \in above PROVE Parent[x] \in above \cup {NoFolder}
  <2>1. x \in Folders /\ h \in Under[x] /\ Parent[x] # f
    BY <1>2
  <2>2. CASE Parent[x] \in Folders
    BY <2>1, <2>2, UnderGrandparent
  <2> QED
    BY <2>1, <2>2, FoldersAssumption
<1>3. WithParents(above)
  BY <1>2 DEF WithParents
<1> HIDE DEF above
<1>4. f \in above
  BY <1>1, <1>3, AboveIsIn
<1> QED
  BY <1>4 DEF above

-----------------------------------------------------------------------------
(* Grafana *)

\* What calls may do to the folders and dashboards.
GoodLive == folders \subseteq Folders /\ WithParents(folders)
            /\ at \in [Boards -> Folders \cup {NoFolder}]

\* A step that takes no dashboard away.
Spares == GoodLive' /\ \A x \in Boards : at[x] # NoFolder => at'[x] # NoFolder

LEMMA PutSpares ==
  ASSUME GoodLive, NEW b, NEW f, NEW c, Put(b, f, c)
  PROVE  Spares
<1>1. f \in Folders /\ at' = [at EXCEPT ![b] = f] /\ UNCHANGED folders
  BY DEF Put, GoodLive
<1> QED
  BY <1>1, FoldersAssumption DEF GoodLive, Spares

LEMMA TakeGood ==
  ASSUME GoodLive, NEW bs, Take(bs)
  PROVE  /\ at' \in [Boards -> Folders \cup {NoFolder}]
         /\ \A x \in Boards \ bs : at'[x] = at[x]
BY DEF Take, GoodLive

LEMMA RemoveGood ==
  ASSUME GoodLive, NEW b \in Boards, Remove(b)
  PROVE  GoodLive' /\ \A x \in Boards \ {b} : at'[x] = at[x]
<1>1. Take({b}) /\ UNCHANGED folders
  BY DEF Remove
<1> QED
  BY <1>1, TakeGood DEF GoodLive

LEMMA RemoveFolderGood ==
  ASSUME GoodLive, NEW f \in Folders, RemoveFolder(f)
  PROVE  GoodLive' /\ \A x \in Boards : at[x] \notin Under[f] => at'[x] = at[x]
<1>1. folders' = folders \ Under[f] /\ Take({b \in Boards : at[b] \in Under[f]})
  BY DEF RemoveFolder
<1>2. ASSUME NEW x \in folders \ Under[f] PROVE Parent[x] \in (folders \ Under[f]) \cup {NoFolder}
  BY <1>2, UnderByParent DEF GoodLive, WithParents
<1>3. WithParents(folders')
  BY <1>1, <1>2 DEF WithParents
<1>4. /\ at' \in [Boards -> Folders \cup {NoFolder}]
      /\ \A x \in Boards : at[x] \notin Under[f] => at'[x] = at[x]
  BY <1>1, TakeGood
<1> QED
  BY <1>1, <1>3, <1>4 DEF GoodLive

LEMMA AddSpares ==
  ASSUME GoodLive, NEW f \in Folders, Parent[f] \in folders \cup {NoFolder},
         folders' = folders \cup {f}, UNCHANGED at
  PROVE  Spares
BY DEF GoodLive, WithParents, Spares

LEMMA RootSpares ==
  ASSUME GoodLive, NEW f \in DashboardFolders \cup ScratchFolders,
         folders' = folders \cup {f}, UNCHANGED at
  PROVE  Spares
<1>1. f \in Folders /\ Parent[f] = NoFolder
  BY ConfigAssumption DEF Roots
<1> QED
  BY <1>1, AddSpares

LEMMA StillSpares == GoodLive /\ UNCHANGED <<folders, at>> => Spares
BY DEF GoodLive, Spares

LEMMA FolderSpares ==
  ASSUME GoodLive, NEW f \in DashboardFolders \cup ScratchFolders,
         GetOrCreate(f) \/ FolderFails(f)
  PROVE  Spares
BY RootSpares, StillSpares DEF GetOrCreate, FolderFails, Fails, live

-----------------------------------------------------------------------------
(* What a step takes away *)

\* What a step takes, if it is not a user's: a dashboard that is stale, one that is
\* old, or what is in a folder that is pruned.
TakesDoomed ==
  \A b \in Boards : Loses(b) =>
    \/ stage = "stale" /\ b \in boards
    \/ stage = "expire" /\ b \in old
    \/ /\ stage = "prune"
       /\ \E f \in subs : at[b] \in Under[f] /\ AllPruned(f) /\ Count(f) = {}

LEMMA SparesNone == Spares => GoodLive' /\ TakesDoomed
BY DEF Spares, TakesDoomed, Loses

\* The calls of the tool.
LEMMA ToolLive ==
  ASSUME GoodLive, ConfigLeft, SyncTool \/ Crash
  PROVE  GoodLive' /\ TakesDoomed
<1>1. CASE \/ StartSync \/ ListFolders \/ ListDashboards \/ SearchFolders \/ Abort
           \/ FolderSynced \/ StaleDeleted \/ Expired \/ Pruned \/ Crash
  <2>1. UNCHANGED <<folders, at>>
    BY <1>1 DEF StartSync, ListFolders, ListDashboards, SearchFolders, Abort,
       FolderSynced, StaleDeleted, Expired, Pruned, Crash, live
  <2> QED
    BY <2>1, StillSpares, SparesNone
<1>2. ASSUME NEW f \in Folders, SyncFolder(f) \/ SyncScratchFolder(f)
      PROVE  GoodLive' /\ TakesDoomed
  <2>1. f \in left /\ (GetOrCreate(f) \/ FolderFails(f))
    BY <1>2 DEF SyncFolder, SyncScratchFolder
  <2> QED
    BY <2>1, FolderSpares, SparesNone DEF ConfigLeft
<1>3. ASSUME NEW g \in files, SyncDashboard(g) PROVE GoodLive' /\ TakesDoomed
  <2>1. UNCHANGED live \/ Upload(g)
    BY <1>3 DEF SyncDashboard, Fails
  <2>2. CASE UNCHANGED live
    BY <2>2, StillSpares, SparesNone DEF live
  <2>3. CASE Upload(g)
    BY <2>3, PutSpares, SparesNone DEF Upload
  <2> QED
    BY <2>1, <2>2, <2>3
<1>4. ASSUME NEW g \in files, SkipFile(g) PROVE GoodLive' /\ TakesDoomed
  BY <1>4, StillSpares, SparesNone DEF SkipFile, live
<1>5. ASSUME NEW b \in Boards, DeleteStale(b) PROVE GoodLive' /\ TakesDoomed
  <2>1. /\ stage = "stale" /\ b \in boards
        /\ Remove(b) \/ UNCHANGED live
    BY <1>5 DEF DeleteStale, Fails
  <2>2. CASE UNCHANGED live
    BY <2>2, StillSpares, SparesNone DEF live
  <2>3. CASE Remove(b)
    BY <2>1, <2>3, RemoveGood DEF TakesDoomed, Loses
  <2> QED
    BY <2>1, <2>2, <2>3
<1>6. ASSUME NEW b \in Boards, ExpireDashboard(b) PROVE GoodLive' /\ TakesDoomed
  <2>1. /\ stage = "expire"
        /\ (b \in old /\ Remove(b)) \/ UNCHANGED live
    BY <1>6 DEF ExpireDashboard, Fails
  <2>2. CASE UNCHANGED live
    BY <2>2, StillSpares, SparesNone DEF live
  <2>3. CASE b \in old /\ Remove(b)
    BY <2>1, <2>3, RemoveGood DEF TakesDoomed, Loses
  <2> QED
    BY <2>1, <2>2, <2>3
<1>7. ASSUME NEW f \in Folders, PruneFolder(f) PROVE GoodLive' /\ TakesDoomed
  <2>1. /\ stage = "prune" /\ f \in subs
        /\ \/ RemoveFolder(f) /\ AllPruned(f) /\ Count(f) = {}
           \/ UNCHANGED live
    BY <1>7 DEF PruneFolder, Fails
  <2>2. CASE UNCHANGED live
    BY <2>2, StillSpares, SparesNone DEF live
  <2>3. CASE RemoveFolder(f) /\ AllPruned(f) /\ Count(f) = {}
    BY <2>1, <2>3, RemoveFolderGood DEF TakesDoomed, Loses
  <2> QED
    BY <2>1, <2>2, <2>3
<1> QED
  BY <1>1, <1>2, <1>3, <1>4, <1>5, <1>6, <1>7 DEF SyncTool

\* A user's step is no step of the tool.
LEMMA EditIsSeen ==
  ASSUME edits \in Nat, Edit
  PROVE  edits' \in Nat /\ edits' # edits
BY DEF Edit

LEMMA UsersLive ==
  ASSUME GoodLive, edits \in Nat,
         UserSaves \/ UserRemoves \/ UserAddsFolder \/ Ages \/ Commit
  PROVE  GoodLive' /\ TakesDoomed /\ edits' \in Nat
<1>1. CASE UserSaves
  <2>1. Edit /\ Spares
    BY <1>1, PutSpares DEF UserSaves
  <2> QED
    BY <2>1, EditIsSeen, SparesNone
<1>2. CASE UserRemoves
  <2>1. Edit /\ GoodLive'
    BY <1>2, RemoveGood, RemoveFolderGood DEF UserRemoves
  <2> QED
    BY <2>1, EditIsSeen DEF TakesDoomed, Loses
<1>3. CASE UserAddsFolder
  <2>1. Edit /\ Spares
    BY <1>3, AddSpares DEF UserAddsFolder
  <2> QED
    BY <2>1, EditIsSeen, SparesNone
<1>4. CASE Ages
  BY <1>4, StillSpares, SparesNone DEF Ages
<1>5. CASE Commit
  BY <1>5, EditIsSeen, StillSpares, SparesNone DEF Commit, live
<1> QED
  BY <1>1, <1>2, <1>3, <1>4, <1>5

\* The tool reads the files as they were checked out, and uses up no edits.
LEMMA ToolLeaves ==
  ASSUME SyncTool \/ Crash
  PROVE  UNCHANGED <<git, edits>>
<1>1. CASE \/ StartSync \/ ListFolders \/ ListDashboards \/ SearchFolders \/ Abort
           \/ FolderSynced \/ StaleDeleted \/ Expired \/ Pruned \/ Crash
  BY <1>1 DEF StartSync, ListFolders, ListDashboards, SearchFolders, Abort,
     FolderSynced, StaleDeleted, Expired, Pruned, Crash
<1>2. ASSUME NEW f \in Folders, SyncFolder(f) \/ SyncScratchFolder(f) \/ PruneFolder(f)
      PROVE  UNCHANGED <<git, edits>>
  BY <1>2 DEF SyncFolder, SyncScratchFolder, PruneFolder
<1>3. ASSUME NEW g \in files, SyncDashboard(g) \/ SkipFile(g)
      PROVE  UNCHANGED <<git, edits>>
  BY <1>3 DEF SyncDashboard, SkipFile
<1>4. ASSUME NEW b \in Boards, DeleteStale(b) \/ ExpireDashboard(b)
      PROVE  UNCHANGED <<git, edits>>
  BY <1>4 DEF DeleteStale, ExpireDashboard
<1> QED
  BY <1>1, <1>2, <1>3, <1>4 DEF SyncTool

\* Whatever anybody does.
LEMMA LiveStep ==
  ASSUME BInv, [BoardsNext]_boardVars
  PROVE  LiveTypes' /\ TakesDoomed
<1>0. GoodLive /\ git \subseteq Files /\ edits \in Nat /\ ConfigLeft
  BY DEF BInv, LiveTypes, GoodLive
<1>1. CASE SyncTool \/ Crash
  BY <1>0, <1>1, ToolLive, ToolLeaves DEF LiveTypes, GoodLive
<1>2. CASE UserSaves \/ UserRemoves \/ UserAddsFolder \/ Ages \/ Commit
  <2>1. GoodLive' /\ TakesDoomed /\ edits' \in Nat
    BY <1>0, <1>2, UsersLive
  <2>2. git' \subseteq Files
    BY <1>0, <1>2, GitsAssumption
       DEF UserSaves, UserRemoves, UserAddsFolder, Ages, Commit
  <2> QED
    BY <2>1, <2>2 DEF LiveTypes, GoodLive
<1>3. CASE UNCHANGED boardVars
  <2>1. UNCHANGED <<folders, at, git, edits>>
    BY <1>3 DEF boardVars, live
  <2> QED
    BY <1>0, <2>1, StillSpares, SparesNone DEF LiveTypes, GoodLive
<1> QED
  BY <1>1, <1>2, <1>3 DEF BoardsNext

-----------------------------------------------------------------------------
(* What a run knows *)

\* What anybody else does leaves the run as it is, and the files while it runs.
LEMMA OthersLeave ==
  ASSUME UserSaves \/ UserRemoves \/ UserAddsFolder \/ Ages \/ Commit \/ UNCHANGED boardVars
  PROVE  UNCHANGED run /\ (stage = "idle" \/ UNCHANGED git)
BY DEF UserSaves, UserRemoves, UserAddsFolder, Ages, Commit, boardVars

LEMMA EndsAfresh ==
  ASSUME NEW o, End(o)
  PROVE  ConfigLeft' /\ FilesSeen' /\ PrunedEmpty'
BY DEF End, ConfigLeft, FilesSeen, PrunedEmpty

\* A run that is not among the files, and does not get there, has nothing to say.
LEMMA FilesElsewhere ==
  stage' \notin {"folders", "files", "stale"} => FilesSeen'
BY DEF FilesSeen

\* Nor has one that is not among the scratch folders.
LEMMA ScratchElsewhere ==
  stage' \notin {"scratch", "expire", "prune"} => PrunedEmpty'
BY DEF PrunedEmpty

\* Who neither reads nor forgets.
LEMMA RunUnchanged ==
  ASSUME ConfigLeft, FilesSeen, PrunedEmpty, UNCHANGED run, stage = "idle" \/ UNCHANGED git
  PROVE  ConfigLeft' /\ FilesSeen' /\ PrunedEmpty'
<1>1. UNCHANGED <<stage, left, visited, files, boards, listed, listedAt, found, folder,
                  subs, pruned, gone>>
  BY DEF run, stock, work, done
<1>2. ConfigLeft'
  BY <1>1 DEF ConfigLeft
<1>3. FilesSeen'
  BY <1>1 DEF FilesSeen, Valid, ValidIn, InScope
<1>4. PrunedEmpty'
  BY <1>1 DEF PrunedEmpty, Count
<1> QED
  BY <1>2, <1>3, <1>4

LEMMA SyncFolderKeeps ==
  ASSUME BInv, NEW f \in Folders, SyncFolder(f)
  PROVE  ConfigLeft' /\ FilesSeen' /\ PrunedEmpty'
<1>1. CASE End("failed")
  BY <1>1, EndsAfresh
<1>2. CASE /\ stage' = "files" /\ left' = left \ {f}
           /\ files' = {g \in git : g.folder = f} /\ UNCHANGED visited
  <2>1. stage = "folders" /\ UNCHANGED git
    BY DEF SyncFolder
  <2>2. FilesSeen'
    BY <1>2, <2>1 DEF BInv, FilesSeen, Valid
  <2> QED
    BY <1>2, <2>2, ScratchElsewhere DEF BInv, ConfigLeft
<1> QED
  BY <1>1, <1>2 DEF SyncFolder, Goto, done

LEMMA FileKeeps ==
  ASSUME BInv, NEW g \in files, SyncDashboard(g) \/ SkipFile(g)
  PROVE  ConfigLeft' /\ FilesSeen' /\ PrunedEmpty'
<1>1. /\ stage = "files" /\ stage' = "files" /\ UNCHANGED <<left, git>>
      /\ files' = files \ {g} /\ visited \subseteq visited'
      /\ g.kind = "valid" => g.uid \in visited'
  BY DEF SyncDashboard, SkipFile, Mark
<1>2. FilesSeen'
  BY <1>1 DEF BInv, FilesSeen, Valid
<1> QED
  BY <1>1, <1>2, ScratchElsewhere DEF BInv, ConfigLeft

\* Once all folders are done, every valid file has been remembered.
LEMMA FolderSyncedKeeps ==
  ASSUME BInv, FolderSynced
  PROVE  ConfigLeft' /\ FilesSeen' /\ PrunedEmpty'
<1>1. /\ stage = "files" /\ files = {}
      /\ UNCHANGED <<left, git, visited, listed, listedAt>>
      /\ \/ left = {} /\ stage' = "stale" /\ boards' = Stale
         \/ stage' = "folders"
  BY DEF FolderSynced, Goto, stock, done
<1>2. \A g : Valid(g) => g.uid \in visited \/ g.folder \in left
  BY <1>1 DEF BInv, FilesSeen
<1>3. CASE stage' = "folders"
  BY <1>1, <1>2, <1>3, ScratchElsewhere DEF BInv, FilesSeen, Valid, ConfigLeft
<1>4. CASE left = {} /\ stage' = "stale" /\ boards' = Stale
  <2>1. \A b \in Stale : InScope(b) /\ ~ValidIn(b)
    BY <1>2, <1>4 DEF Stale, ValidIn, Valid
  <2>2. FilesSeen'
    BY <1>1, <1>4, <2>1 DEF FilesSeen, InScope, ValidIn
  <2> QED
    BY <1>1, <1>4, <2>2, ScratchElsewhere DEF BInv, ConfigLeft
<1> QED
  BY <1>1, <1>3, <1>4

LEMMA DeleteStaleKeeps ==
  ASSUME BInv, NEW b \in Boards, DeleteStale(b)
  PROVE  ConfigLeft' /\ FilesSeen' /\ PrunedEmpty'
<1>1. /\ stage = "stale" /\ stage' = "stale" /\ boards' = boards \ {b}
      /\ UNCHANGED <<git, left, listed, listedAt>>
  BY DEF DeleteStale, stock
<1>2. FilesSeen'
  BY <1>1 DEF BInv, FilesSeen, InScope, ValidIn
<1> QED
  BY <1>1, <1>2, ScratchElsewhere DEF BInv, ConfigLeft

LEMMA SyncScratchFolderKeeps ==
  ASSUME BInv, NEW f \in Folders, SyncScratchFolder(f)
  PROVE  ConfigLeft' /\ FilesSeen' /\ PrunedEmpty'
<1>1. CASE End("failed")
  BY <1>1, EndsAfresh
<1>2. CASE /\ stage' = "expire" /\ left' = left \ {f} /\ folder' = f /\ pruned' = {}
           /\ UNCHANGED found
  <2>1. stage = "scratch"
    BY DEF SyncScratchFolder
  <2> QED
    BY <1>2, <2>1, FilesElsewhere DEF BInv, ConfigLeft, PrunedEmpty
<1> QED
  BY <1>1, <1>2 DEF SyncScratchFolder, Goto, stock

LEMMA ExpireKeeps ==
  ASSUME BInv, NEW b \in Boards, ExpireDashboard(b)
  PROVE  ConfigLeft' /\ FilesSeen' /\ PrunedEmpty'
<1>1. /\ stage = "expire" /\ stage' = "expire" /\ UNCHANGED <<left, found, folder, pruned>>
  BY DEF ExpireDashboard, stock
<1> QED
  BY <1>1, FilesElsewhere DEF BInv, ConfigLeft, PrunedEmpty

LEMMA ExpiredKeeps ==
  ASSUME BInv, Expired
  PROVE  ConfigLeft' /\ FilesSeen' /\ PrunedEmpty'
<1>1. /\ stage = "expire" /\ stage' = "prune" /\ UNCHANGED <<left, found, folder, pruned>>
      /\ subs' = Scratch(folder) \ {folder}
  BY DEF Expired, Goto, stock, done
<1> QED
  BY <1>1, FilesElsewhere DEF BInv, ConfigLeft, PrunedEmpty, Scratch

\* An empty folder whose subfolders were all pruned is empty with all that was found
\* under it.
LEMMA EmptyAllTheWay ==
  ASSUME PrunedEmpty, stage = "prune", NEW f \in subs, AllPruned(f), Count(f) = {},
         NEW h \in Under[f] \cap found
  PROVE  Count(h) = {}
<1>1. /\ found \in SUBSET Folders /\ WithParents(found) /\ folder \in Folders
      /\ f \in Folders /\ f \in Under[folder]
  BY DEF PrunedEmpty
<1>2. CASE h = f
  BY <1>2
<1>3. CASE h # f
  <2>1. PICK g \in Folders : Parent[g] = f /\ h \in Under[g]
    BY <1>1, <1>3, UnderByChild
  <2>2. g \in found
    BY <1>1, <2>1, AboveIsIn
  <2>3. g \in Under[folder]
    BY <1>1, <2>1, UnderByParent
  <2>4. g \in pruned
    BY <2>1, <2>2, <2>3 DEF AllPruned, Scratch
  <2> QED
    BY <2>1, <2>4 DEF PrunedEmpty
<1> QED
  BY <1>2, <1>3

LEMMA PruneKeeps ==
  ASSUME BInv, NEW f \in Folders, PruneFolder(f)
  PROVE  ConfigLeft' /\ FilesSeen' /\ PrunedEmpty'
<1>1. /\ stage = "prune" /\ stage' = "prune" /\ f \in subs /\ subs' = subs \ {f}
      /\ UNCHANGED <<left, found, folder, listedAt, gone>>
      /\ \/ AllPruned(f) /\ Count(f) = {} /\ pruned' = pruned \cup {f}
         \/ UNCHANGED pruned
  BY DEF PruneFolder, stock
<1>2. \A h \in Folders : Count(h)' = Count(h)
  BY <1>1 DEF Count
<1>3. PrunedEmpty
  BY DEF BInv
<1>4. \A p \in pruned' : \A h \in Under[p] \cap found : Count(h) = {}
  BY <1>1, <1>3, EmptyAllTheWay DEF PrunedEmpty
<1>5. PrunedEmpty'
  BY <1>1, <1>2, <1>3, <1>4 DEF PrunedEmpty
<1> QED
  BY <1>1, <1>5, FilesElsewhere DEF BInv, ConfigLeft

LEMMA NextBInv == BInv /\ [BoardsNext]_boardVars => BInv'
<1> SUFFICES ASSUME BInv, [BoardsNext]_boardVars
             PROVE  ConfigLeft' /\ FilesSeen' /\ PrunedEmpty'
  BY LiveStep DEF BInv
<1>1. CASE StartSync \/ ListFolders
  <2>1. UNCHANGED left /\ stage' \in {"list folders", "list boards", "scratch boards"}
    BY <1>1 DEF StartSync, ListFolders, Goto, work
  <2> QED
    BY <2>1, FilesElsewhere, ScratchElsewhere DEF BInv, ConfigLeft
<1>2. CASE ListDashboards
  <2>1. UNCHANGED <<git, visited>>
        /\ \/ stage' = "folders" /\ left' = DashboardFolders
           \/ stage' = "search" /\ UNCHANGED left
    BY <1>2 DEF ListDashboards, Goto, done
  <2>2. \A g : Valid(g) => g.folder \in DashboardFolders
    BY DEF BInv, LiveTypes, Valid, Files
  <2>3. FilesSeen'
    BY <2>1, <2>2 DEF FilesSeen, Valid
  <2> QED
    BY <2>1, <2>3, ScratchElsewhere DEF BInv, ConfigLeft
<1>3. CASE SearchFolders
  <2>1. stage' = "scratch" /\ found' = folders /\ left' = ScratchFolders
    BY <1>3 DEF SearchFolders, Goto
  <2> QED
    BY <2>1, FilesElsewhere DEF BInv, LiveTypes, ConfigLeft, PrunedEmpty
<1>4. CASE Abort \/ Crash
  BY <1>4, EndsAfresh DEF Abort, Crash
<1>5. CASE StaleDeleted
  <2>1. CASE End(Verdict)
    BY <2>1, EndsAfresh
  <2>2. CASE stage' = "scratch list" /\ UNCHANGED left
    BY <2>2, FilesElsewhere, ScratchElsewhere DEF BInv, ConfigLeft
  <2> QED
    BY <1>5, <2>1, <2>2 DEF StaleDeleted, Goto, work
<1>6. CASE Pruned
  <2>1. CASE End(Verdict)
    BY <2>1, EndsAfresh
  <2>2. CASE stage = "prune" /\ stage' = "scratch" /\ UNCHANGED <<left, found>>
    BY <2>2, FilesElsewhere DEF BInv, ConfigLeft, PrunedEmpty
  <2> QED
    BY <1>6, <2>1, <2>2 DEF Pruned, Goto, work, stock
<1>7. CASE UserSaves \/ UserRemoves \/ UserAddsFolder \/ Ages \/ Commit
           \/ UNCHANGED boardVars
  BY <1>7, OthersLeave, RunUnchanged DEF BInv
<1> QED
  BY <1>1, <1>2, <1>3, <1>4, <1>5, <1>6, <1>7, SyncFolderKeeps, FileKeeps,
     FolderSyncedKeeps, DeleteStaleKeeps, SyncScratchFolderKeeps, ExpireKeeps,
     ExpiredKeeps, PruneKeeps DEF BoardsNext, SyncTool

LEMMA InitBInv == BoardsInit => BInv
BY FirstFoldersAssumption, GitsAssumption, BoundsAssumption
   DEF BoardsInit, BInv, LiveTypes, ConfigLeft, FilesSeen, PrunedEmpty

-----------------------------------------------------------------------------

\* What a synchronisation knows, while users go on working: the valid files that it
\* has seen, and what its pruned folders hold.
THEOREM BoardsInvariant == BoardsSpec => []BInv
<1> QED
  BY InitBInv, NextBInv, PTL DEF BoardsSpec

\* A sync takes away only stale dashboards (deleteStale), old ones
\* (syncOneScratchFolder), and what has come since stock was taken to a folder that
\* was empty then (deleteEmptyRecursive).
THEOREM DoomedGo == BoardsSpec => OnlyDoomedGo
<1>1. ASSUME BInv, [BoardsNext]_boardVars, NEW b \in Boards, Loses(b)
      PROVE  /\ stage = "stale"  => ~ValidIn(b) /\ InScope(b)
             /\ stage = "expire" => b \in old
             /\ stage = "prune"  => Arrived(b)
  <2>1. \/ stage = "stale" /\ b \in boards
        \/ stage = "expire" /\ b \in old
        \/ /\ stage = "prune"
           /\ \E f \in subs : at[b] \in Under[f] /\ AllPruned(f) /\ Count(f) = {}
    BY <1>1, LiveStep DEF TakesDoomed
  <2>2. stage = "stale" /\ b \in boards => ~ValidIn(b) /\ InScope(b)
    BY <1>1 DEF BInv, FilesSeen
  <2>3. ASSUME stage = "prune", NEW f \in subs, at[b] \in Under[f], AllPruned(f),
               Count(f) = {}
        PROVE  Arrived(b)
    <3>1. SUFFICES ASSUME listedAt[b] = at[b], at[b] \in found PROVE b \in gone
      BY DEF Arrived
    <3>2. Count(at[b]) = {}
      BY <1>1, <2>3, <3>1, EmptyAllTheWay DEF BInv
    <3> QED
      BY <3>1, <3>2 DEF Count
  <2> QED
    BY <2>1, <2>2, <2>3
<1>2. BInv /\ [BoardsNext]_boardVars =>
        \A b \in Boards : Loses(b) =>
          /\ stage = "stale"  => ~ValidIn(b) /\ InScope(b)
          /\ stage = "expire" => b \in old
          /\ stage = "prune"  => Arrived(b)
  BY <1>1
<1> QED
  BY <1>2, InitBInv, NextBInv, PTL DEF BoardsSpec, OnlyDoomedGo

-----------------------------------------------------------------------------
(* Type correctness *)

\* Every dashboard is in a folder that there is.
Housed ==
  /\ at \in [Boards -> folders \cup {NoFolder}]
  /\ content \in [Boards -> Contents] /\ old \subseteq Boards

\* What a run holds; between two runs it holds no files, since these may change.
RunTypes ==
  /\ stage \in Steps /\ (stage = "idle" => files = {})
  /\ listed \subseteq Roots /\ listedAt \in [Boards -> Folders \cup {NoFolder}]
  /\ found \subseteq Folders
  /\ folder \in Roots \cup {NoFolder}
  /\ files \subseteq git /\ boards \subseteq Boards /\ subs \subseteq Folders
  /\ visited \subseteq Boards /\ gone \subseteq Boards /\ pruned \subseteq Folders
  /\ invalid \in BOOLEAN
  /\ syncOutcome \in {"none", "ok", "invalid", "failed"}

Bounds == git \in Gits /\ edits \in 0..MaxEdits /\ faults \in 0..MaxFaults

\* What a call may do to the folders and dashboards, and what only time does.
Calls ==
  \/ UNCHANGED live
  \/ \E b \in Boards, f \in folders, c \in Contents : Put(b, f, c)
  \/ \E b \in Boards : Remove(b)
  \/ \E f \in Folders : RemoveFolder(f)
  \/ \E f \in Folders : folders' = folders \cup {f} /\ UNCHANGED <<at, content, old>>
  \/ \E b \in Boards : old' = old \cup {b} /\ UNCHANGED <<folders, at, content>>

\* With a folder go the dashboards in it, and in the folders below.
LEMMA CallsHouse ==
  ASSUME BInv, Housed, Calls
  PROVE  Housed'
<1>0. folders \subseteq Folders /\ FirstDraft \in Contents /\ NoFolder \notin Folders
  BY ContentsAssumption, FoldersAssumption DEF BInv, LiveTypes
<1>1. CASE UNCHANGED live
  BY <1>1 DEF live, Housed
<1>2. ASSUME NEW b \in Boards, NEW f \in folders, NEW c \in Contents, Put(b, f, c)
      PROVE  Housed'
  BY <1>2 DEF Put, Housed
<1>3. ASSUME NEW b \in Boards, Remove(b) PROVE Housed'
  BY <1>0, <1>3 DEF Remove, Take, Housed
<1>4. ASSUME NEW f \in Folders, RemoveFolder(f) PROVE Housed'
  BY <1>0, <1>4 DEF RemoveFolder, Take, Housed
<1>5. ASSUME NEW f \in Folders, folders' = folders \cup {f}, UNCHANGED <<at, content, old>>
      PROVE  Housed'
  BY <1>5 DEF Housed
<1>6. ASSUME NEW b \in Boards, old' = old \cup {b}, UNCHANGED <<folders, at, content>>
      PROVE  Housed'
  BY <1>6 DEF Housed
<1> QED BY <1>1, <1>2, <1>3, <1>4, <1>5, <1>6 DEF Calls

LEMMA FolderCalls ==
  ASSUME NEW f \in Folders, GetOrCreate(f) \/ FolderFails(f)
  PROVE  Calls
BY DEF GetOrCreate, FolderFails, Fails, Calls

LEMMA StepCalls ==
  ASSUME BInv, RunTypes, [BoardsNext]_boardVars
  PROVE  Calls
<1>1. CASE \/ StartSync \/ ListFolders \/ ListDashboards \/ SearchFolders \/ Abort
           \/ FolderSynced \/ StaleDeleted \/ Expired \/ Pruned \/ Crash \/ Commit
           \/ UNCHANGED boardVars
  BY <1>1 DEF StartSync, ListFolders, ListDashboards, SearchFolders, Abort, FolderSynced,
     StaleDeleted, Expired, Pruned, Crash, Commit, boardVars, Calls
<1>2. ASSUME NEW f \in Folders, SyncFolder(f) \/ SyncScratchFolder(f)
      PROVE  Calls
  BY <1>2, FolderCalls DEF SyncFolder, SyncScratchFolder
<1>3. ASSUME NEW g \in files, SyncDashboard(g) PROVE Calls
  <2>1. g.uid \in Boards /\ g.content \in Contents
    BY DEF BInv, LiveTypes, RunTypes, Files
  <2>2. UNCHANGED live \/ Put(g.uid, g.folder, g.content)
    BY <1>3 DEF SyncDashboard, Fails, Upload
  <2>3. ASSUME Put(g.uid, g.folder, g.content) PROVE g.folder \in folders
    BY <2>3 DEF Put
  <2> QED BY <2>1, <2>2, <2>3 DEF Calls
<1>4. ASSUME NEW g \in files, SkipFile(g) PROVE Calls
  BY <1>4 DEF SkipFile, Calls
<1>5. ASSUME NEW b \in Boards, DeleteStale(b) \/ ExpireDashboard(b) PROVE Calls
  BY <1>5 DEF DeleteStale, ExpireDashboard, Fails, Calls, live
<1>6. ASSUME NEW f \in Folders, PruneFolder(f) PROVE Calls
  BY <1>6 DEF PruneFolder, Fails, Calls, live
<1>7. CASE UserSaves \/ UserRemoves \/ UserAddsFolder \/ Ages
  BY <1>7 DEF UserSaves, UserRemoves, UserAddsFolder, Ages, Calls
<1> QED BY <1>1, <1>2, <1>3, <1>4, <1>5, <1>6, <1>7 DEF BoardsNext, SyncTool

LEMMA NextBounds ==
  ASSUME Bounds, [BoardsNext]_boardVars
  PROVE  Bounds'
<1>1. UNCHANGED edits \/ Edit
  BY ToolLeaves DEF BoardsNext, UserSaves, UserRemoves, UserAddsFolder, Ages, Commit, boardVars
<1>2. git' \in Gits
  BY ToolLeaves
     DEF BoardsNext, UserSaves, UserRemoves, UserAddsFolder, Ages, Commit, boardVars, Bounds
<1>3. UNCHANGED faults \/ Fault
  <2>1. CASE \/ StartSync \/ ListFolders \/ ListDashboards \/ SearchFolders \/ Abort
             \/ FolderSynced \/ StaleDeleted \/ Expired \/ Pruned \/ Crash
    BY <2>1 DEF StartSync, ListFolders, ListDashboards, SearchFolders, Abort, FolderSynced,
       StaleDeleted, Expired, Pruned, Crash
  <2>2. ASSUME NEW f \in Folders, SyncFolder(f) \/ SyncScratchFolder(f) \/ PruneFolder(f)
        PROVE  UNCHANGED faults \/ Fault
    BY <2>2 DEF SyncFolder, SyncScratchFolder, PruneFolder, GetOrCreate, FolderFails, Fails, Works
  <2>3. ASSUME NEW g \in files, SyncDashboard(g) \/ SkipFile(g)
        PROVE  UNCHANGED faults \/ Fault
    BY <2>3 DEF SyncDashboard, SkipFile, Fails, Works
  <2>4. ASSUME NEW b \in Boards, DeleteStale(b) \/ ExpireDashboard(b)
        PROVE  UNCHANGED faults \/ Fault
    BY <2>4 DEF DeleteStale, ExpireDashboard, Fails, Works
  <2>5. CASE \/ UserSaves \/ UserRemoves \/ UserAddsFolder \/ Ages \/ Commit
             \/ UNCHANGED boardVars
    BY <2>5 DEF UserSaves, UserRemoves, UserAddsFolder, Ages, Commit, boardVars
  <2> QED BY <2>1, <2>2, <2>3, <2>4, <2>5 DEF BoardsNext, SyncTool
<1>4. edits' \in 0..MaxEdits
  BY <1>1, BoundsAssumption DEF Edit, Bounds
<1>5. faults' \in 0..MaxFaults
  BY <1>3, BoundsAssumption DEF Fault, Bounds
<1> QED BY <1>2, <1>4, <1>5 DEF Bounds

LEMMA EndTypes ==
  ASSUME NEW o \in {"none", "ok", "invalid", "failed"}, End(o)
  PROVE  RunTypes'
<1>1. listedAt' \in [Boards -> Folders \cup {NoFolder}]
  BY DEF End, Nowhere
<1> QED BY <1>1 DEF End, RunTypes, Steps

\* The folders of the configuration are at the top.
LEMMA LeftAreRoots ==
  BInv => left \subseteq Roots
BY ConfigAssumption DEF BInv, ConfigLeft

LEMMA NextRunTypes ==
  ASSUME BInv, RunTypes, [BoardsNext]_boardVars
  PROVE  RunTypes'
<1>0. /\ left \subseteq Roots /\ git \subseteq Files /\ folders \subseteq Folders
      /\ at \in [Boards -> Folders \cup {NoFolder}]
  BY LeftAreRoots DEF BInv, LiveTypes
<1>1. CASE StartSync
  BY <1>1 DEF StartSync, stock, work, done, RunTypes, Steps
<1>2. CASE ListFolders
  BY <1>2 DEF ListFolders, Goto, work, done, RunTypes, Steps
<1>3. CASE ListDashboards
  BY <1>0, <1>3 DEF ListDashboards, Goto, done, RunTypes, Steps
<1>4. CASE SearchFolders
  BY <1>0, <1>4 DEF SearchFolders, Goto, done, RunTypes, Steps
<1>5. CASE Abort \/ Crash
  BY <1>5, EndTypes DEF Abort, Crash
<1>6. ASSUME NEW f \in Folders, SyncFolder(f) PROVE RunTypes'
  <2>1. CASE End("failed")
    BY <2>1, EndTypes
  <2>2. CASE /\ Goto("files") /\ folder' = f /\ files' = {g \in git : g.folder = f}
             /\ UNCHANGED <<stock, boards, subs, done>>
    <3>1. f \in Roots /\ UNCHANGED git
      BY <1>0, <1>6 DEF SyncFolder
    <3> QED BY <2>2, <3>1 DEF Goto, stock, done, RunTypes, Steps
  <2> QED BY <1>6, <2>1, <2>2 DEF SyncFolder
<1>7. ASSUME NEW g \in files, SyncDashboard(g) \/ SkipFile(g) PROVE RunTypes'
  <2>1. g.uid \in Boards
    BY <1>0 DEF RunTypes, Files
  <2>2. /\ stage = "files" /\ files' = files \ {g}
        /\ visited' \in {visited, visited \cup {g.uid}} /\ invalid' \in BOOLEAN
        /\ UNCHANGED <<git, stage, stock, folder, boards, subs, gone, pruned, syncOutcome>>
    BY <1>7 DEF SyncDashboard, SkipFile, Mark, RunTypes
  <2> QED BY <2>1, <2>2 DEF stock, RunTypes
<1>8. CASE FolderSynced
  <2>1. boards' \subseteq Boards
    BY <1>8 DEF FolderSynced, Stale, RunTypes
  <2> QED BY <1>8, <2>1 DEF FolderSynced, Goto, stock, done, RunTypes, Steps
<1>9. ASSUME NEW b \in Boards, DeleteStale(b) \/ ExpireDashboard(b) PROVE RunTypes'
  <2>1. /\ boards' \subseteq boards /\ gone' \in {gone, gone \cup {b}}
        /\ UNCHANGED <<git, stage, stock, folder, files, subs, visited, pruned, invalid,
                       syncOutcome>>
    BY <1>9 DEF DeleteStale, ExpireDashboard, done
  <2> QED BY <2>1 DEF stock, RunTypes
<1>10. CASE StaleDeleted \/ Pruned
  <2>1. CASE End(Verdict)
    BY <2>1, EndTypes DEF Verdict
  <2>2. CASE /\ Goto("scratch list") \/ Goto("scratch")
             /\ UNCHANGED <<git, stock, work, done>>
    BY <2>2 DEF Goto, stock, work, done, RunTypes, Steps
  <2> QED BY <1>10, <2>1, <2>2 DEF StaleDeleted, Pruned
<1>11. ASSUME NEW f \in Folders, SyncScratchFolder(f) PROVE RunTypes'
  <2>1. CASE End("failed")
    BY <2>1, EndTypes
  <2>2. CASE /\ Goto("expire") /\ folder' = f /\ boards' \subseteq Boards
             /\ gone' = {} /\ pruned' = {}
             /\ UNCHANGED <<stock, files, subs, visited, invalid>>
    <3>1. f \in Roots /\ UNCHANGED git
      BY <1>0, <1>11 DEF SyncScratchFolder
    <3> QED BY <2>2, <3>1 DEF Goto, stock, RunTypes, Steps
  <2> QED BY <1>11, <2>1, <2>2 DEF SyncScratchFolder
<1>12. CASE Expired
  <2>1. subs' \subseteq Folders
    BY <1>12 DEF Expired, Scratch, RunTypes
  <2> QED BY <1>12, <2>1 DEF Expired, Goto, stock, done, RunTypes, Steps
<1>13. ASSUME NEW f \in Folders, PruneFolder(f) PROVE RunTypes'
  <2>1. /\ subs' = subs \ {f} /\ pruned' \in {pruned, pruned \cup {f}}
        /\ UNCHANGED <<git, stage, stock, folder, files, boards, visited, gone, invalid,
                       syncOutcome>>
    BY <1>13 DEF PruneFolder
  <2> QED BY <2>1 DEF stock, RunTypes
<1>14. CASE UserSaves \/ UserRemoves \/ UserAddsFolder \/ Ages \/ Commit
            \/ UNCHANGED boardVars
  <2>1. UNCHANGED run /\ (stage = "idle" \/ UNCHANGED git)
    BY <1>14, OthersLeave
  <2> QED BY <2>1 DEF run, stock, work, done, RunTypes
<1> QED BY <1>1, <1>2, <1>3, <1>4, <1>5, <1>6, <1>7, <1>8, <1>9, <1>10, <1>11, <1>12,
           <1>13, <1>14 DEF BoardsNext, SyncTool

\* Whoever works on the instance meanwhile, each dashboard is in a folder that there
\* is, and each folder in one that there is; a run goes through folders, files and
\* dashboards of the configuration, of git and of the instance and no others.
THEOREM BoardTypes == BoardsSpec => []BoardsTypeOK
<1>1. BInv /\ Housed /\ RunTypes /\ Bounds => BoardsTypeOK
  BY DEF BInv, LiveTypes, ConfigLeft, Housed, RunTypes, Bounds, BoardsTypeOK
<1>2. BoardsInit => Housed /\ RunTypes /\ Bounds
  <2>1. BoardsInit => Housed
    BY ContentsAssumption DEF BoardsInit, Housed
  <2>2. Nowhere \in [Boards -> Folders \cup {NoFolder}]
    BY DEF Nowhere
  <2>3. BoardsInit => RunTypes
    BY <2>2 DEF BoardsInit, RunTypes, Steps
  <2>4. BoardsInit => Bounds
    BY BoundsAssumption DEF BoardsInit, Bounds
  <2> QED BY <2>1, <2>3, <2>4
<1>3. BInv /\ Housed /\ RunTypes /\ Bounds /\ [BoardsNext]_boardVars
        => (Housed /\ RunTypes /\ Bounds)'
  BY StepCalls, CallsHouse, NextRunTypes, NextBounds
<1>4. BoardsSpec => []BInv
  BY BoardsInvariant
<1> QED BY <1>1, <1>2, <1>3, <1>4, PTL DEF BoardsSpec
=============================================================================
