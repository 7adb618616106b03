------------------------------- MODULE MCFleet --------------------------------
(* The tools that keep the membership of entity groups, the integrations of    *)
(* Grafana and its dashboards, each on its own: they share no state, so one is *)
(* active and the others rest.                                                 *)
EXTENDS FleetTools

CONSTANTS ka, kb, kc, s1, s2, b1, b2, M, A, S, S1, S2, c1, c2

VARIABLE active   \* the tool that is checked

-----------------------------------------------------------------------------
(* Entity groups *)

MCHome == [k \in {ka, kb, kc} |-> IF k = kc THEN "stg" ELSE "int"]

\* One cluster of two is yet to be provisioned and tagged, the other may be yet to
\* be tagged; that of the other environment is settled.
MCFleet == /\ kb \notin ready /\ tag[kb] = Untagged
           /\ {ka, kc} \subseteq ready /\ tag[kc] = "stg"

-----------------------------------------------------------------------------
(* Dashboards *)

MCBoards  == {b1, b2}
MCFolders == {M, A, S, S1, S2}
\* S2 is in S1, which is in the scratch folder S.
MCParent == [f \in MCFolders |-> CASE f = S1 -> S [] f = S2 -> S1 [] OTHER -> NoFolder]
MCUnder  == [f \in MCFolders |-> CASE f = S -> {S, S1, S2} [] f = S1 -> {S1, S2}
                                   [] OTHER -> {f}]
MCFirstFolders == {{A}, {M, A, S}, {M, S, S1, S2}}
MCManaged == {M}
MCAzure   == {A}
MCScratch == {S}
MCContents == {c1, c2}

F(b, f, c, k) == [uid |-> b, folder |-> f, content |-> c, kind |-> k]
NothingValid  == {F(b1, M, c2, "unreadable")}
MCGits == {NothingValid, {F(b1, M, c2, "valid"), F(b2, M, c1, "invalid")}}

-----------------------------------------------------------------------------

\* A state of each to rest in, where all is as it should be.
GroupRests ==
  /\ tag = Home /\ ready = Clusters /\ turns = MaxTurns
  /\ groups = [k \in Clusters |-> [n \in GroupNames |->
       [env |-> Home[k], members |-> {m \in Clusters : Home[m] = Home[k]}]]]
  /\ syncing = [y \in Syncs |-> AtRest]
IntRests ==
  /\ exists = {} /\ shown = {} /\ instance = "Succeeded"
  /\ integrations = {} /\ datasources = {} /\ dangling = {} /\ orphaned = {}
  /\ update = NoUpdate /\ cmd = [d \in Commands |-> Resting]
  /\ troubles = MaxTroubles
BoardsRest ==
  /\ folders = {} /\ at = Nowhere /\ git = NothingValid
  /\ content = [b \in Boards |-> FirstDraft] /\ old = {}
  /\ stage = "idle" /\ listed = {} /\ listedAt = Nowhere /\ found = {}
  /\ left = {} /\ folder = NoFolder /\ files = {} /\ boards = {} /\ subs = {}
  /\ visited = {} /\ gone = {} /\ pruned = {} /\ invalid = FALSE
  /\ syncOutcome = "none" /\ edits = MaxEdits /\ faults = MaxFaults

MCInit ==
  \/ active = "groups" /\ GroupInit /\ MCFleet /\ IntRests /\ BoardsRest
  \/ active = "integrations" /\ IntInit /\ GroupRests /\ BoardsRest
  \/ active = "dashboards" /\ BoardsInit /\ GroupRests /\ IntRests

\* Only what is active does something.
GroupsAlone       == UNCHANGED <<active, intVars, boardVars>>
IntegrationsAlone == UNCHANGED <<active, groupVars, boardVars>>
BoardsAlone       == UNCHANGED <<active, groupVars, intVars>>

MCNext == \/ active = "groups" /\ GroupNext /\ GroupsAlone
          \/ active = "integrations" /\ IntNext /\ IntegrationsAlone
          \/ active = "dashboards" /\ BoardsNext /\ BoardsAlone

\* GroupFairness, IntFairness and BoardsFairness.  As one of the three acts, one
\* condition can hold a step of each; tags and provisioning come to an end for all
\* clusters, if they go on for some as long as there are any, and so it is with
\* workspaces.  Both environments' syncs are begun again, if that of one is as long
\* as there is one that is not right.
all == <<active, groupVars, intVars, boardVars>>

Groups(act)       == active = "groups" /\ act /\ GroupsAlone
Integrations(act) == active = "integrations" /\ act /\ IntegrationsAlone

MCSpec ==
  /\ MCInit /\ [][MCNext]_all
  /\ WF_all(\/ Groups(SyncGoesOn(s1))
            \/ Integrations(CommandGoesOn("manage"))
            \/ active = "dashboards" /\ SyncTool /\ BoardsAlone)
  /\ WF_all(\/ Groups(SyncGoesOn(s2))
            \/ Integrations(CommandGoesOn("modify")))
  /\ WF_all(\/ Groups(\E k \in Clusters : TagShows(k) \/ Provisioned(k))
            \/ Integrations(\E w \in Workspaces : WorkspaceShows(w)))
  /\ WF_all(Integrations(CommandGoesOn("clean")))
  /\ WF_all(Integrations(CommandGoesOn("fixup")))
  /\ WF_all(Integrations(UpdateEnds))
  /\ SF_all(\/ Groups(\E env \in Environments :
                        Unsettled(env) /\ \E s \in Syncs : BeginSync(s, env))
            \/ Integrations(BeginCommand("manage")))
  /\ SF_all(Integrations(BeginUpdate("manage") /\ instance # "Updating"))
=============================================================================
