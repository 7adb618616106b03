----------------------------- MODULE EntityGroups -----------------------------
(***************************************************************************)
(* tools/kustoctl: each Kusto cluster of an environment holds entity       *)
(* groups that list all clusters of the environment.  A sync discovers the *)
(* clusters page by page, selects those of its environment, and writes the *)
(* same membership on each of them, one after the other.                   *)
(*                                                                         *)
(* Syncs of the same and of other environments overlap, while clusters are *)
(* being created and tagged.                                               *)
(***************************************************************************)
EXTENDS Naturals, FiniteSets

CONSTANTS
  Clusters,
  Home,          \* the environment that each cluster is for
  GroupNames,
  Syncs,         \* syncs that may run at a time
  ClustersPerPage,      \* of Resource Graph
  Untagged, None,
  MaxTurns       \* bound on faults and on changes of provisioning state

Environments == {Home[c] : c \in Clusters}

ASSUME UntaggedAssumption == Untagged \notin Environments
ASSUME MaxTurnsAssumption == MaxTurns \in Nat

VARIABLES
  tag,     \* each cluster's environment tag, once Resource Graph shows it
  ready,   \* clusters in provisioning state Succeeded
  groups,  \* groups[c][g]: the group g that cluster c has: of which environment
           \* it was made, and its members
  syncing, \* what each sync holds
  turns

groupVars == <<tag, ready, groups, syncing, turns>>

AtRest == [pc |-> "idle"]
Group  == [env : Environments, members : SUBSET Clusters]

GroupTypeOK ==
  /\ tag \in [Clusters -> Environments \cup {Untagged}]
  /\ ready \subseteq Clusters
  /\ groups \in [Clusters -> [GroupNames -> Group \cup {None}]]
  /\ \A s \in Syncs :
       \/ syncing[s] = AtRest
       \/ /\ syncing[s].pc \in {"discover", "execute", "done"}
          /\ syncing[s].env \in Environments
          /\ DOMAIN syncing[s].found \subseteq Clusters
          /\ syncing[s].members \cup syncing[s].left \cup syncing[s].failed \subseteq Clusters
          /\ syncing[s].left \cap syncing[s].failed = {}
          /\ syncing[s].todo \subseteq GroupNames
          /\ syncing[s].written \subseteq Clusters \X GroupNames
  /\ turns \in 0..MaxTurns

GroupInit ==
  /\ tag \in {t \in [Clusters -> Environments \cup {Untagged}] :
                \A c \in Clusters : t[c] \in {Home[c], Untagged}}
  /\ ready \in SUBSET Clusters
  /\ groups = [c \in Clusters |-> [g \in GroupNames |-> None]]
  /\ syncing = [s \in Syncs |-> AtRest] /\ turns = 0

-----------------------------------------------------------------------------
(* A sync *)

Holds(s, r) == syncing' = [syncing EXCEPT ![s] = r]
Shared == <<tag, ready, groups, turns>>

BeginSync(s, env) ==
  /\ syncing[s] = AtRest
  /\ Holds(s, [pc |-> "discover", env |-> env, found |-> [c \in {} |-> None],
               members |-> {}, left |-> {}, failed |-> {}, todo |-> GroupNames,
               written |-> {}])
  /\ UNCHANGED Shared

\* kustoDiscoveryQuery: only a cluster in provisioning state Succeeded is listed.
ListedClusters == ready

\* One page of DiscoverKustoClusters.  A cluster is listed as it is now, tagged
\* or not; the next page may be asked for after changes.
DiscoverPage(s, page) ==
  /\ syncing[s].pc = "discover"
  /\ page # {} /\ Cardinality(page) <= ClustersPerPage
  /\ LET unseen == ListedClusters \ DOMAIN syncing[s].found
     IN /\ page \subseteq unseen
        /\ page = unseen \/ Cardinality(page) = ClustersPerPage
  /\ Holds(s, [syncing[s] EXCEPT !.found =
       [c \in DOMAIN @ \cup page |-> IF c \in page THEN tag[c] ELSE @[c]]])
  /\ UNCHANGED Shared

\* Mutant: a cluster without a tag is passed over.
PassOver(r) == {}

\* Mutant: a cluster of another environment is taken for one without a tag.
NotOfThis(r) == {c \in DOMAIN r.found : r.found[c] # r.env}

Missing(r) == {c \in DOMAIN r.found : r.found[c] = Untagged}

Selected(r) == {c \in DOMAIN r.found : r.found[c] = r.env}

\* The last page is in: selectClustersForEnvironment refuses when a cluster of
\* any environment is untagged, and Complete when none is left; otherwise the
\* statements are built, once, of all that were selected.
CompleteSync(s) ==
  /\ syncing[s].pc = "discover" /\ ListedClusters \subseteq DOMAIN syncing[s].found
  /\ IF Missing(syncing[s]) # {} \/ Selected(syncing[s]) = {} THEN Holds(s, AtRest)
     ELSE Holds(s, [syncing[s] EXCEPT !.pc = "execute", !.members = Selected(syncing[s]),
                                  !.left = Selected(syncing[s])])
  /\ UNCHANGED Shared

\* .create-or-alter entity_group
Altered(s, c, g) == [env |-> syncing[s].env, members |-> syncing[s].members]

\* The sync goes on to the next cluster.
Leave(r, c) == [r EXCEPT !.left = @ \ {c}, !.todo = GroupNames]

\* executeKQL on the cluster in hand: its groups one after the other.  (The
\* clusters come by name and the groups as listed; here in any order, a cluster
\* being finished before the next is begun.)
InHand(s, c) ==
  /\ syncing[s].pc = "execute" /\ c \in syncing[s].left
  /\ syncing[s].todo # GroupNames => \E g \in GroupNames \ syncing[s].todo :
                                    <<c, g>> \in syncing[s].written

ExecuteKQL(s, c, g) ==
  /\ InHand(s, c) /\ g \in syncing[s].todo
  /\ groups' = [groups EXCEPT ![c][g] = Altered(s, c, g)]
  /\ LET r == [syncing[s] EXCEPT !.todo = @ \ {g}, !.written = @ \cup {<<c, g>>}]
     IN Holds(s, IF r.todo = {} THEN Leave(r, c) ELSE r)
  /\ UNCHANGED <<tag, ready, turns>>

\* Mutant: the first cluster that fails ends the sync.
BreakAll(r, c) == [r EXCEPT !.left = {}, !.failed = @ \cup {c}]

\* Mutant: the cluster that failed is come back to.
BreakStays(r, c) == [r EXCEPT !.todo = GroupNames, !.failed = @ \cup {c}]

\* A failure leaves out the cluster's other groups, and the next cluster follows.
Break(r, c) == [Leave(r, c) EXCEPT !.failed = @ \cup {c}]

\* A client or a statement fails or is timed out, and may have taken effect.
KQLFails(s, c) ==
  /\ InHand(s, c) /\ turns < MaxTurns
  /\ turns' = turns + 1
  /\ Holds(s, Break(syncing[s], c))
  /\ \/ UNCHANGED groups
     \/ \E g \in syncing[s].todo : groups' = [groups EXCEPT ![c][g] = Altered(s, c, g)]
  /\ UNCHANGED <<tag, ready>>

\* Errors are joined; without one the sync has succeeded.
FinishSync(s) ==
  /\ syncing[s].pc = "execute" /\ syncing[s].left = {}
  /\ Holds(s, [syncing[s] EXCEPT !.pc = "done"])
  /\ UNCHANGED Shared

LeaveSync(s) == syncing[s].pc = "done" /\ Holds(s, AtRest) /\ UNCHANGED Shared

\* Discovery fails, a URI is not valid, or the sync is killed.
GiveUpSync(s) ==
  /\ syncing[s].pc \in {"discover", "execute"} /\ turns < MaxTurns
  /\ turns' = turns + 1
  /\ Holds(s, AtRest) /\ UNCHANGED <<tag, ready, groups>>

-----------------------------------------------------------------------------
(* The fleet *)

\* A tag is rolled out, and seen by Resource Graph.
TagShows(c) == /\ tag[c] = Untagged
               /\ tag' = [tag EXCEPT ![c] = Home[c]]
               /\ UNCHANGED <<ready, groups, syncing, turns>>

Provisioned(c) == /\ c \notin ready
                  /\ ready' = ready \cup {c}
                  /\ UNCHANGED <<tag, groups, syncing, turns>>

\* A cluster is updated, and for that while not in state Succeeded.
Updating(c) == /\ c \in ready /\ turns < MaxTurns
               /\ ready' = ready \ {c} /\ turns' = turns + 1
               /\ UNCHANGED <<tag, groups, syncing>>

SyncGoesOn(s) ==
  \/ \E page \in SUBSET Clusters : DiscoverPage(s, page)
  \/ CompleteSync(s)
  \/ \E c \in Clusters, g \in GroupNames : ExecuteKQL(s, c, g)
  \/ FinishSync(s) \/ LeaveSync(s)

GroupNext ==
  \/ \E s \in Syncs : \/ \E env \in Environments : BeginSync(s, env)
                      \/ SyncGoesOn(s) \/ GiveUpSync(s)
                      \/ \E c \in Clusters : KQLFails(s, c)
  \/ \E c \in Clusters : TagShows(c) \/ Provisioned(c) \/ Updating(c)

\* The group lists the environment's clusters, all of them.
IsRight(c, g) == /\ groups[c][g] # None
                 /\ groups[c][g].members = {d \in Clusters : Home[d] = Home[c]}

Unsettled(env) ==
  ~ \A c \in Clusters, g \in GroupNames : Home[c] = env => IsRight(c, g)

\* A sync goes on, clusters come to be tagged and provisioned, and the rollout's
\* syncs are started again as long as an environment's groups are not right.
GroupFairness ==
  /\ \A s \in Syncs : WF_groupVars(SyncGoesOn(s))
  /\ \A c \in Clusters : WF_groupVars(TagShows(c)) /\ WF_groupVars(Provisioned(c))
  /\ \A env \in Environments :
       SF_groupVars(Unsettled(env) /\ \E s \in Syncs : BeginSync(s, env))

-----------------------------------------------------------------------------
(* Properties *)

\* Whatever syncs of several environments do beside each other, a membership that
\* a sync writes is of the environment of the cluster it is written to, and whole
\* as far as is known: it fails closed, and leaves out no cluster of the environment
\* that was discovered, be it with or without its tag.
WritesWholeEnvironment ==
  [][\A s \in Syncs, c \in Clusters, g \in GroupNames :
       groups'[c][g] # groups[c][g] /\ syncing'[s] # syncing[s] =>
         LET members == groups'[c][g].members
         IN  /\ c \in members
             /\ \A d \in members : Home[d] = Home[c]
             /\ \A d \in DOMAIN syncing[s].found :
                  Home[d] = syncing[s].env => d \in members]_groupVars

\* One cluster's failure keeps no other from being reconciled: at the end each
\* cluster has been given all its groups, or has been reported.
OthersReconciled ==
  \A s \in Syncs : syncing[s].pc = "done" =>
     (syncing[s].members \ syncing[s].failed) \X GroupNames \subseteq syncing[s].written

\* Once the fleet is tagged and provisioned, syncs that are repeated bring every
\* group to list all clusters of its environment, whatever was written before.
GroupsConverge == <>[](\A c \in Clusters, g \in GroupNames : IsRight(c, g))

=============================================================================
