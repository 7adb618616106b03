-------------------------- MODULE GrafanaIntegrations --------------------------
(***************************************************************************)
(* tools/grafanactl: which Azure Monitor workspaces the Grafana instance   *)
(* is integrated with.  Four commands work on it: "manage reconcile" and   *)
(* "modify datasource reconcile" write the workspaces they discover,       *)
(* "clean datasources" takes off those it does not, and                    *)
(* "clean fixup-datasources" deletes datasources left behind.  Each reads  *)
(* in several calls and writes what it has made of the answers, while the  *)
(* others do the same and workspaces come and go.                          *)
(***************************************************************************)
EXTENDS Naturals, FiniteSets

CONSTANTS
  Workspaces,
  Elsewhere,   \* those of them that are in another subscription
  Commands,    \* subset of {"manage", "modify", "clean", "fixup"}
  PageSize,    \* of the answers to a discovery
  MaxRunning,  \* bound on commands at a time
  MaxTroubles    \* bound on faults and on changes to workspaces

ASSUME CommandsAssumption ==
  Commands \subseteq {"manage", "modify", "clean", "fixup"}
ASSUME MaxTroublesAssumption == MaxTroubles \in Nat

VARIABLES
  exists,       \* workspaces that there are
  shown,        \* those that Resource Graph lists: tagged, and Succeeded
  instance,     \* provisioning state of the Grafana instance
  integrations, \* its workspace integrations
  datasources,  \* its managed Prometheus datasources
  update,       \* the update of the instance that is under way
  cmd,          \* what each command holds
  troubles,
  dangling,     \* what clean holds as integrated, not shown since it read that
  orphaned      \* datasources without a workspace at some time since

fleet == <<exists, shown>>
grafana == <<instance, integrations, datasources, update>>
IntHistory == <<dangling, orphaned>>
intVars == <<fleet, grafana, cmd, troubles, IntHistory>>

NoUpdate == [by |-> "nobody"]
Resting  == [pc |-> "idle"]

\* The integrations that clean has read, and that it or the update it has asked for
\* may still take off.
Held == {w \in Workspaces :
           \/ \E c \in Commands \cap {"clean"} : cmd[c] # Resting /\ w \in cmd[c].read
           \/ update # NoUpdate /\ update.by = "clean" /\ w \in update.read}

IntTypeOK ==
  /\ shown \subseteq exists /\ exists \subseteq Workspaces
  /\ instance \in {"absent", "Succeeded", "Updating", "Failed"}
  /\ dangling \subseteq Held /\ integrations \subseteq Workspaces
  /\ orphaned \subseteq datasources /\ datasources \subseteq Workspaces
  /\ instance = "Updating" <=> update # NoUpdate
  /\ update # NoUpdate => update.want \subseteq Workspaces
  /\ \A c \in Commands :
       \/ cmd[c] = Resting
       \/ /\ cmd[c].pc \in {"discover", "wait", "write", "poll", "delete"}
          /\ cmd[c].read \cup cmd[c].found \cup cmd[c].want \subseteq Workspaces
  /\ troubles \in 0..MaxTroubles

IntInit ==
  /\ exists \in SUBSET Workspaces /\ shown = exists
  /\ \/ instance = "absent" /\ integrations = {} /\ datasources = {}
     \/ instance = "Succeeded" /\ integrations = exists
        /\ datasources = integrations
  /\ update = NoUpdate /\ cmd = [c \in Commands |-> Resting] /\ troubles = 0
  /\ dangling = {} /\ orphaned = {}

\* Kept up by every action.
History ==
  /\ dangling' = (dangling \cap Held') \cup (Held' \ shown')
  /\ orphaned' = (orphaned \cap datasources') \cup (datasources' \ exists')

Keeps(c, r) == cmd' = [cmd EXCEPT ![c] = r]
Local(c, r) == Keeps(c, r) /\ UNCHANGED <<fleet, grafana, troubles>> /\ History

-----------------------------------------------------------------------------
(* The commands *)

\* Clean and modify get the integrations first, fixup lists the datasources, and
\* manage begins with the discovery.  Without an instance there is nothing to get.
BeginCommand(c) ==
  /\ cmd[c] = Resting
  /\ Cardinality({d \in Commands : cmd[d] # Resting}) < MaxRunning
  /\ c # "manage" => instance # "absent"
  /\ Local(c, [pc |-> "discover", found |-> {}, want |-> {},
               read |-> CASE c = "manage" -> {}
                          [] c = "fixup" -> datasources
                          [] OTHER -> integrations])

\* Fixup lists all workspaces of its own subscription, the others the tagged and
\* provisioned ones of all subscriptions.
Listing(c) == IF c = "fixup" THEN exists \ Elsewhere ELSE shown

NextPage(c, page) ==
  /\ cmd[c].pc = "discover"
  /\ page # {} /\ Cardinality(page) <= PageSize
  /\ LET unseen == Listing(c) \ cmd[c].found
     IN page \subseteq unseen /\ (page = unseen \/ Cardinality(page) = PageSize)
  /\ Local(c, [cmd[c] EXCEPT !.found = @ \cup page])

\* Mutant: the token for the next page is forgotten.
FirstIsLast(c) == TRUE

LastPage(c) == Listing(c) \subseteq cmd[c].found

Orphans(r) == r.read \ r.found

\* Mutant: what is integrated stays integrated.
Merged(r) == integrations \cup r.found

Discovered(r) == r.found

\* The answers are in, and the command decides what it wants.
Decide(c) ==
  /\ cmd[c].pc = "discover" /\ LastPage(c)
  /\ LET r == cmd[c]
         go(to, want) == [r EXCEPT !.pc = to, !.want = want, !.found = {}]
     IN Local(c, CASE c = "manage" -> go("write", Discovered(r))
                   [] c = "modify" -> go("wait", r.found)
                   [] c = "fixup" -> go("delete", Orphans(r))
                   [] c = "clean" -> IF r.read \subseteq r.found THEN Resting
                                     ELSE go("wait", r.read \cap r.found))

\* waitForReadyGrafana
WaitForReady(c) ==
  /\ cmd[c].pc = "wait" /\ instance # "Updating"
  /\ Local(c, IF instance = "Succeeded" THEN [cmd[c] EXCEPT !.pc = "write"]
              ELSE Resting)

\* BeginUpdate, or BeginCreate for manage.  The service takes one at a time.
BeginUpdate(c) ==
  /\ cmd[c].pc = "write"
  /\ IF instance = "Updating" \/ (instance = "absent" /\ c # "manage")
     THEN Local(c, Resting)
     ELSE /\ update' = [by |-> c, want |-> cmd[c].want, read |-> cmd[c].read]
          /\ instance' = "Updating"
          /\ Keeps(c, [cmd[c] EXCEPT !.pc = "poll", !.want = {}, !.read = {}])
          /\ UNCHANGED <<fleet, integrations, datasources, troubles>> /\ History

\* PollUntilDone
PollUntilDone(c) == /\ cmd[c].pc = "poll" /\ instance # "Updating"
                    /\ Local(c, Resting)

\* RunFixup goes through all its orphans, whether or not a deletion fails.
DeleteDataSource(c, w) ==
  /\ cmd[c].pc = "delete" /\ w \in cmd[c].want
  /\ \/ datasources' = datasources \ {w} /\ UNCHANGED troubles
     \/ /\ troubles < MaxTroubles /\ troubles' = troubles + 1
        /\ UNCHANGED datasources
  /\ Keeps(c, IF cmd[c].want = {w} THEN Resting
               ELSE [cmd[c] EXCEPT !.want = @ \ {w}])
  /\ UNCHANGED <<fleet, instance, integrations, update>> /\ History

NothingToDelete(c) == /\ cmd[c].pc = "delete" /\ cmd[c].want = {}
                      /\ Local(c, Resting)

\* A call fails, the time is up, or the command is killed; a dry run, which ends
\* before the first write, is one of these for what it leaves behind.
GiveUpCommand(c) ==
  /\ cmd[c] # Resting /\ troubles < MaxTroubles
  /\ troubles' = troubles + 1 /\ Keeps(c, Resting)
  /\ UNCHANGED <<fleet, grafana>> /\ History

-----------------------------------------------------------------------------
(* The services *)

\* An update ends; new integrations come with a datasource, and the datasource of
\* one that is taken off stays behind.
UpdateEnds ==
  /\ update # NoUpdate
  /\ \/ instance' = "Succeeded" /\ integrations' = update.want
        /\ datasources' = datasources \cup (update.want \ integrations)
        /\ UNCHANGED troubles
     \/ instance' = "Failed" /\ troubles < MaxTroubles /\ troubles' = troubles + 1
        /\ UNCHANGED <<integrations, datasources>>
  /\ update' = NoUpdate
  /\ UNCHANGED <<fleet, cmd>> /\ History

\* A workspace is deleted, made anew, or updated.
WorkspaceChanges(w) ==
  /\ troubles < MaxTroubles /\ troubles' = troubles + 1
  /\ \/ w \in exists /\ exists' = exists \ {w} /\ shown' = shown \ {w}
     \/ w \notin exists /\ exists' = exists \cup {w} /\ UNCHANGED shown
     \/ w \in shown /\ shown' = shown \ {w} /\ UNCHANGED exists
  /\ UNCHANGED <<grafana, cmd>> /\ History

WorkspaceShows(w) ==
  /\ w \in exists \ shown /\ shown' = shown \cup {w}
  /\ UNCHANGED <<exists, grafana, cmd, troubles>> /\ History

CommandGoesOn(c) ==
  \/ \E page \in SUBSET Workspaces : NextPage(c, page)
  \/ Decide(c) \/ WaitForReady(c) \/ BeginUpdate(c) \/ PollUntilDone(c)
  \/ \E w \in Workspaces : DeleteDataSource(c, w)
  \/ NothingToDelete(c)

IntNext ==
  \/ \E c \in Commands : BeginCommand(c) \/ CommandGoesOn(c) \/ GiveUpCommand(c)
  \/ UpdateEnds
  \/ \E w \in Workspaces : WorkspaceChanges(w) \/ WorkspaceShows(w)

\* Commands go on, the services come to an end with what they do, and each rollout
\* runs "manage reconcile", at times when no other update is under way.
IntFairness ==
  /\ \A c \in Commands : WF_intVars(CommandGoesOn(c))
  /\ WF_intVars(UpdateEnds)
  /\ \A w \in Workspaces : WF_intVars(WorkspaceShows(w))
  /\ SF_intVars(BeginCommand("manage"))
  /\ SF_intVars(BeginUpdate("manage") /\ instance # "Updating")

-----------------------------------------------------------------------------
(* Properties *)

\* clean takes off an integration that it has read only if its workspace was not
\* to be seen at some time since then, however many pages the discovery had and
\* whatever was integrated meanwhile.  fixup deletes a datasource
\* only if its workspace was missing at some time since the datasource came: listing
\* the datasources before the workspaces spares those of a workspace that is made
\* while fixup runs.  (Of its own subscription: it sees no workspaces of others, and
\* takes all their datasources for orphans.)
SparesWhatIsLive ==
  [][/\ update.by = "clean" /\ integrations' # integrations =>
          (integrations \cap update.read) \ integrations' \subseteq dangling
     /\ datasources \ datasources' \subseteq orphaned \cup Elsewhere]_intVars

\* When no more workspaces come and go, the integrations come to be those that
\* there are, although writes made of older answers may still come in between.
IntegrationsConverge == <>[](integrations = exists)

=============================================================================
