---------------------------- MODULE GrafanaSync -----------------------------
(***************************************************************************)
(* tools/grafanactl: `sync dashboards` makes a Grafana instance agree with *)
(* the dashboards in git, and tidies the scratch folders of its users      *)
(* (internal/grafana/syncer.go and scratch.go).  A sync takes stock once,  *)
(* at its start, and again before the scratch folders; everything it then  *)
(* does is decided from that stock, while users go on working.             *)
(*                                                                         *)
(* One step is one call to Grafana, except that reading a dashboard, to    *)
(* compare it or to learn its age, and then writing or deleting it are one *)
(* step.  The folders of the configuration are visited in any order.  UIDs *)
(* and titles of folders are not told apart.                               *)
(***************************************************************************)
EXTENDS Naturals, FiniteSets

CONSTANTS
  Boards,         \* UIDs of dashboards
  Folders, NoFolder,
  Parent,         \* the folder a folder is in, NoFolder for those at the top
  Under,          \* Under[f]: f and the folders in it, at any depth
  DashboardFolders, AzureManaged, ScratchFolders,   \* of the configuration
  Contents, FirstDraft,   \* FirstDraft: what dashboards hold before the first sync
  FirstFolders,   \* the sets of folders that users may have made before it
  Gits,           \* the sets of files that a commit may hold
  MaxEdits,       \* how often users and commits change something
  MaxFaults       \* how many calls fail, or runs are killed

Roots == {f \in Folders : Parent[f] = NoFolder}

\* A file that cannot be read or parsed is skipped, an invalid one reported.
Files == [uid : Boards, folder : DashboardFolders, content : Contents,
          kind : {"valid", "invalid", "unreadable"}]

\* With each folder there is the one it is in.
WithParents(fs) == \A f \in fs : Parent[f] \in fs \cup {NoFolder}

\* A folder is under f if there is no way up from it that misses f.
ASSUME FoldersAssumption ==
  /\ NoFolder \notin Folders
  /\ Parent \in [Folders -> Folders \cup {NoFolder}]
  /\ Under = [f \in Folders |->
               {g \in Folders : \A fs \in SUBSET Folders :
                                  g \in fs /\ WithParents(fs) => f \in fs}]
ASSUME ConfigAssumption ==
  /\ DashboardFolders \cup AzureManaged \cup ScratchFolders \subseteq Roots
  /\ DashboardFolders \cap ScratchFolders = {}
ASSUME ContentsAssumption == FirstDraft \in Contents
ASSUME FirstFoldersAssumption ==
  \A fs \in FirstFolders : fs \subseteq Folders /\ WithParents(fs)
ASSUME GitsAssumption   == Gits \subseteq SUBSET Files
ASSUME BoundsAssumption == MaxEdits \in Nat /\ MaxFaults \in Nat

VARIABLES
  folders,        \* those that exist
  at, content,    \* at[b]: where dashboard b is, NoFolder when nowhere
  old,            \* dashboards that are older than maxAge
  git,
  stage,
  listed,         \* folders at the top, when they were listed
  listedAt,       \* dashboards, when they were listed
  found,          \* all folders, when they were searched for
  left,           \* folders of the configuration that are yet to be visited
  folder,         \* the one that is
  files, boards, subs,   \* what of it is yet to be visited
  visited,        \* dashboardsVisited
  gone,           \* deletedDashboards
  pruned,         \* subfolders of this scratch folder that were deleted
  invalid,        \* validation errors were found
  syncOutcome,
  edits, faults

live  == <<folders, at, content, old>>
stock == <<listed, listedAt, found>>
work  == <<left, folder, files, boards, subs>>
done  == <<visited, gone, pruned, invalid>>
run   == <<stage, stock, work, done, syncOutcome>>
boardVars  == <<live, git, run, edits, faults>>

Steps == {"idle", "list folders", "list boards", "folders", "files", "stale",
          "scratch list", "scratch boards", "search", "scratch", "expire",
          "prune"}

BoardsTypeOK ==
  /\ folders \subseteq Folders /\ WithParents(folders)
  /\ at \in [Boards -> folders \cup {NoFolder}]
  /\ content \in [Boards -> Contents] /\ old \subseteq Boards
  /\ git \in Gits /\ stage \in Steps
  /\ listed \subseteq Roots /\ listedAt \in [Boards -> Folders \cup {NoFolder}]
  /\ found \subseteq Folders
  /\ left \subseteq DashboardFolders \cup ScratchFolders
  /\ folder \in Roots \cup {NoFolder}
  /\ files \subseteq git /\ boards \subseteq Boards /\ subs \subseteq Folders
  /\ visited \subseteq Boards /\ gone \subseteq Boards /\ pruned \subseteq Folders
  /\ invalid \in BOOLEAN
  /\ syncOutcome \in {"none", "ok", "invalid", "failed"}
  /\ edits \in 0..MaxEdits /\ faults \in 0..MaxFaults

Nowhere == [b \in Boards |-> NoFolder]

\* Users have made folders and dashboards before the first sync.
BoardsInit ==
  /\ folders \in FirstFolders
  /\ at \in [Boards -> folders \cup {NoFolder}]
  /\ content = [b \in Boards |-> FirstDraft] /\ old = {}
  /\ git \in Gits
  /\ stage = "idle"
  /\ listed = {} /\ listedAt = Nowhere /\ found = {}
  /\ left = {} /\ folder = NoFolder /\ files = {} /\ boards = {} /\ subs = {}
  /\ visited = {} /\ gone = {} /\ pruned = {} /\ invalid = FALSE
  /\ syncOutcome = "none"
  /\ edits = MaxEdits /\ faults = MaxFaults

Fault == faults > 0 /\ faults' = faults - 1
Works == UNCHANGED faults

-----------------------------------------------------------------------------
(* Grafana *)

\* A dashboard is saved, created if need be; it cannot be in a missing folder.
Put(b, f, c) ==
  /\ f \in folders
  /\ at' = [at EXCEPT ![b] = f] /\ content' = [content EXCEPT ![b] = c]
  /\ UNCHANGED <<folders, old>>

\* A dashboard that is gone has neither content nor age.
Take(bs) ==
  /\ at' = [b \in Boards |-> IF b \in bs THEN NoFolder ELSE at[b]]
  /\ content' = [b \in Boards |-> IF b \in bs THEN FirstDraft ELSE content[b]]
  /\ old' = old \ bs

Remove(b) == at[b] # NoFolder /\ Take({b}) /\ UNCHANGED folders

\* What is in a folder goes with it.
RemoveFolder(f) ==
  /\ f \in folders
  /\ folders' = folders \ Under[f]
  /\ Take({b \in Boards : at[b] \in Under[f]})

\* A call fails: it did not get there, or it did and the answer was lost.
Fails(call) == Fault /\ (call \/ UNCHANGED live)

-----------------------------------------------------------------------------
(* Taking stock: fetchExistingState, and the listings of syncScratchFolders *)

Goto(step) == stage' = step /\ UNCHANGED syncOutcome


\* Everything but the exit code is lost with the process.
End(o) ==
  /\ stage' = "idle" /\ syncOutcome' = o
  /\ listed' = {} /\ listedAt' = Nowhere /\ found' = {}
  /\ left' = {} /\ folder' = NoFolder /\ files' = {} /\ boards' = {} /\ subs' = {}
  /\ visited' = {} /\ gone' = {} /\ pruned' = {} /\ invalid' = FALSE

StartSync ==
  /\ stage = "idle"
  /\ stage' = "list folders" /\ syncOutcome' = "none"
  /\ UNCHANGED <<live, git, stock, work, done, edits, faults>>

\* An error of any call on the way to a folder ends the sync.
Abort ==
  /\ stage \in {"list folders", "list boards", "scratch list", "scratch boards", "search"}
  /\ Fault /\ End("failed")
  /\ UNCHANGED <<live, git, edits>>

ListFolders ==
  /\ stage \in {"list folders", "scratch list"}
  /\ listed' = folders \cap Roots
  /\ Goto(IF stage = "list folders" THEN "list boards" ELSE "scratch boards")
  /\ UNCHANGED <<live, git, listedAt, found, work, done, edits, faults>>

\* searchByType: one search without paging, whose answer is taken to be complete.
ListDashboards ==
  /\ stage \in {"list boards", "scratch boards"}
  /\ listedAt' = at
  /\ IF stage = "list boards"
       THEN Goto("folders") /\ left' = DashboardFolders
       ELSE Goto("search") /\ UNCHANGED left
  /\ UNCHANGED <<live, git, listed, found, folder, files, boards, subs, done,
                 edits, faults>>

\* The same for folders, those below others among them.
SearchFolders ==
  /\ stage = "search"
  /\ found' = folders
  /\ Goto("scratch") /\ left' = ScratchFolders
  /\ UNCHANGED <<live, git, listed, listedAt, folder, files, boards, subs, done,
                 edits, faults>>

\* getOrCreateFolder and findOrCreateFolder go by the list.
GetOrCreate(f) ==
  \/ f \in listed /\ UNCHANGED live /\ Works
  \/ /\ f \notin listed \cup folders
     /\ folders' = folders \cup {f} /\ UNCHANGED <<at, content, old>> /\ Works

\* The folder was created since, the call fails, or the directory with the
\* files, or the permissions of a scratch folder, are out of reach.
FolderFails(f) ==
  \/ f \notin listed /\ f \in folders /\ UNCHANGED live /\ Works
  \/ f \in ScratchFolders \ folders /\ UNCHANGED live /\ Works
  \/ Fails(f \notin listed \cup folders /\ folders' = folders \cup {f}
           /\ UNCHANGED <<at, content, old>>)

-----------------------------------------------------------------------------
(* The folders of dashboards: syncFolder, deleteStale *)

SyncFolder(f) ==
  /\ stage = "folders" /\ f \in left
  /\ \/ /\ GetOrCreate(f) /\ Goto("files")
        /\ left' = left \ {f} /\ folder' = f
        /\ files' = {g \in git : g.folder = f}
        /\ UNCHANGED <<stock, boards, subs, done>>
     \/ FolderFails(f) /\ End("failed")
  /\ UNCHANGED <<git, edits>>

Upload(g) == Put(g.uid, g.folder, g.content)

\* Mutant: what is in its folder is not compared.
InPlace(g) == listedAt[g.uid] = g.folder /\ at[g.uid] # NoFolder
\* areDashboardsEqual
UpToDate(g) == /\ listedAt[g.uid] = g.folder
               /\ at[g.uid] # NoFolder /\ content[g.uid] = g.content

\* Mutant: what could not be uploaded is not remembered either.
MarkIfUploaded(g) ==
  visited' = IF UpToDate(g) \/ at'[g.uid] = g.folder THEN visited \cup {g.uid} ELSE visited
\* dashboardsVisited: whatever becomes of the calls.
Mark(g) == visited' = visited \cup {g.uid}

\* syncDashboard of a valid file: errors are logged.
SyncDashboard(g) ==
  /\ stage = "files" /\ g \in files /\ g.kind = "valid"
  /\ \/ UpToDate(g) /\ UNCHANGED live /\ Works
     \/ ~UpToDate(g) /\ Upload(g) /\ Works
     \/ g.folder \notin folders /\ UNCHANGED live /\ Works
     \/ listedAt[g.uid] = g.folder /\ at[g.uid] = NoFolder /\ UNCHANGED live /\ Works
     \/ Fails(~UpToDate(g) /\ Upload(g))
  /\ Mark(g)
  /\ files' = files \ {g}
  /\ UNCHANGED <<git, stage, stock, left, folder, boards, subs, gone, pruned, invalid,
                 syncOutcome, edits>>

\* readDashboardsFromPath leaves it out, or validateDashboard refuses it.
SkipFile(g) ==
  /\ stage = "files" /\ g \in files /\ g.kind # "valid"
  /\ invalid' = (invalid \/ g.kind = "invalid")
  /\ files' = files \ {g}
  /\ UNCHANGED <<live, git, stage, stock, left, folder, boards, subs, visited, gone,
                 pruned, syncOutcome, edits, faults>>

\* What deleteStale goes through: the dashboards that were listed in a folder
\* of the configuration that was, and is not Azure's.
InScope(b) == listedAt[b] \in (DashboardFolders \cap listed) \ AzureManaged

Stale == {b \in Boards : InScope(b) /\ b \notin visited}

FolderSynced ==
  /\ stage = "files" /\ files = {}
  /\ IF left = {} THEN Goto("stale") /\ boards' = Stale
                  ELSE Goto("folders") /\ UNCHANGED boards
  /\ UNCHANGED <<live, git, stock, left, folder, files, subs, done, edits, faults>>

\* Errors are logged.
DeleteStale(b) ==
  /\ stage = "stale" /\ b \in boards
  /\ \/ Remove(b) /\ Works
     \/ at[b] = NoFolder /\ UNCHANGED live /\ Works
     \/ Fails(Remove(b))
  /\ boards' = boards \ {b}
  /\ UNCHANGED <<git, stage, stock, left, folder, files, subs, done, syncOutcome, edits>>

Verdict == IF invalid THEN "invalid" ELSE "ok"

StaleDeleted ==
  /\ stage = "stale" /\ boards = {}
  /\ IF ScratchFolders = {} THEN End(Verdict)
       ELSE Goto("scratch list") /\ UNCHANGED <<stock, work, done>>
  /\ UNCHANGED <<live, git, edits, faults>>

-----------------------------------------------------------------------------
(* The scratch folders: syncOneScratchFolder, deleteEmptySubfolders *)

\* collectScratchFolderUIDs
Scratch(f) == {f} \cup (Under[f] \cap found)

SyncScratchFolder(f) ==
  /\ stage = "scratch" /\ f \in left
  /\ \/ /\ GetOrCreate(f) /\ f \in folders' /\ Goto("expire")
        /\ left' = left \ {f} /\ folder' = f
        /\ boards' = {b \in Boards : listedAt[b] \in Scratch(f)}
        /\ gone' = {} /\ pruned' = {}
        /\ UNCHANGED <<stock, files, subs, visited, invalid>>
     \/ FolderFails(f) /\ End("failed")
  /\ UNCHANGED <<git, edits>>

\* A dashboard whose age cannot be read, or that cannot be deleted, stays.
ExpireDashboard(b) ==
  /\ stage = "expire" /\ b \in boards
  /\ \/ b \in old /\ Remove(b) /\ gone' = gone \cup {b} /\ Works
     \/ (b \notin old \/ at[b] = NoFolder) /\ UNCHANGED <<live, gone>> /\ Works
     \/ Fails(b \in old /\ Remove(b)) /\ UNCHANGED gone
  /\ boards' = boards \ {b}
  /\ UNCHANGED <<git, stage, stock, left, folder, files, subs, visited, pruned, invalid,
                 syncOutcome, edits>>

Expired ==
  /\ stage = "expire" /\ boards = {}
  /\ Goto("prune") /\ subs' = Scratch(folder) \ {folder}
  /\ UNCHANGED <<live, git, stock, left, folder, files, boards, done, edits, faults>>

\* dashCount
Count(f) == {b \in Boards : listedAt[b] = f} \ gone

\* hasChildren
AllPruned(f) == {g \in Scratch(folder) : Parent[g] = f} \subseteq pruned

\* deleteEmptyRecursive, once its children are done.
PruneFolder(f) ==
  /\ stage = "prune" /\ f \in subs /\ \A g \in subs : Parent[g] # f
  /\ IF AllPruned(f) /\ Count(f) = {}
       THEN \/ RemoveFolder(f) /\ pruned' = pruned \cup {f} /\ Works
            \/ f \notin folders /\ UNCHANGED <<live, pruned>> /\ Works
            \/ Fails(RemoveFolder(f)) /\ UNCHANGED pruned
       ELSE UNCHANGED <<live, pruned>> /\ Works
  /\ subs' = subs \ {f}
  /\ UNCHANGED <<git, stage, stock, left, folder, files, boards, visited, gone, invalid,
                 syncOutcome, edits>>

Pruned ==
  /\ stage = "prune" /\ subs = {}
  /\ IF left = {} THEN End(Verdict)
       ELSE Goto("scratch") /\ UNCHANGED <<stock, work, done>>
  /\ UNCHANGED <<live, git, edits, faults>>

\* The process is killed, or its timeout strikes.
Crash ==
  /\ stage # "idle" /\ Fault /\ End("failed")
  /\ UNCHANGED <<live, git, edits>>

SyncTool ==
  \/ StartSync \/ ListFolders \/ ListDashboards \/ SearchFolders \/ Abort
  \/ \E f \in Folders : SyncFolder(f) \/ SyncScratchFolder(f) \/ PruneFolder(f)
  \/ \E g \in files : SyncDashboard(g) \/ SkipFile(g)
  \/ \E b \in Boards : DeleteStale(b) \/ ExpireDashboard(b)
  \/ FolderSynced \/ StaleDeleted \/ Expired \/ Pruned

-----------------------------------------------------------------------------
(* Users and commits *)

Edit == edits > 0 /\ edits' = edits - 1

UserSaves ==
  /\ \E b \in Boards, f \in folders, c \in Contents : Put(b, f, c)
  /\ Edit /\ UNCHANGED <<git, run, faults>>

UserRemoves ==
  /\ \/ \E b \in Boards : Remove(b)
     \/ \E f \in Folders : RemoveFolder(f)
  /\ Edit /\ UNCHANGED <<git, run, faults>>

UserAddsFolder ==
  /\ \E f \in Folders \ folders :
       Parent[f] \in folders /\ folders' = folders \cup {f}
  /\ Edit /\ UNCHANGED <<at, content, old, git, run, faults>>

Ages ==
  /\ \E b \in Boards \ old : at[b] # NoFolder /\ old' = old \cup {b}
  /\ UNCHANGED <<folders, at, content, git, run, edits, faults>>

\* The next sync has a newer checkout.
Commit ==
  /\ stage = "idle" /\ git' \in Gits
  /\ Edit /\ UNCHANGED <<live, run, faults>>

BoardsNext == SyncTool \/ Crash \/ UserSaves \/ UserRemoves \/ UserAddsFolder \/ Ages \/ Commit

BoardsSpec == BoardsInit /\ [][BoardsNext]_boardVars

\* Every rollout syncs again.
BoardsFairness == WF_boardVars(SyncTool)

BoardsFairSpec == BoardsSpec /\ BoardsFairness

-----------------------------------------------------------------------------
(* Safety *)

ValidIn(b) == \E g \in git : g.uid = b /\ g.kind = "valid"

\* A step that takes dashboard b away, other than a user's.
Loses(b) == at[b] # NoFolder /\ at'[b] = NoFolder /\ edits' = edits

\* It was not there when stock was taken, or has been deleted since.
Arrived(b) == listedAt[b] # at[b] \/ at[b] \notin found \/ b \in gone

\* What a sync takes away, it may: deleteStale no dashboard that has a valid file
\* in git, whichever of its calls have failed; syncOneScratchFolder none that is
\* not old, or of an age that is not known; and with an empty subfolder goes only
\* what has come there since the listing.
OnlyDoomedGo ==
  [][\A b \in Boards : Loses(b) =>
       /\ stage = "stale"  => ~ValidIn(b) /\ InScope(b)
       /\ stage = "expire" => b \in old
       /\ stage = "prune"  => Arrived(b)]_boardVars

-----------------------------------------------------------------------------
(* Liveness *)

InSync ==
  /\ \A g \in git : g.kind = "valid" => at[g.uid] = g.folder /\ content[g.uid] = g.content
  /\ \A b \in Boards : at[b] \in DashboardFolders \ AzureManaged => ValidIn(b)

Tidy ==
  \A f \in ScratchFolders :
    /\ \A b \in old : at[b] \notin Under[f]
    /\ \A g \in (Under[f] \cap folders) \ {f} : \E b \in Boards : at[b] \in Under[g]

\* When users and commits pause, the instance ends up as git says, and its
\* scratch folders tidy, whatever has failed before.
Converges == <>[](InSync /\ Tidy)
=============================================================================
