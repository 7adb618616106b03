---------------------------- MODULE Fleet_proofs -----------------------------
(*****************************************************************************)
(* The tools that look after the fleet: the membership of entity groups, and *)
(* the integrations and datasources of Grafana.                              *)
(*****************************************************************************)
EXTENDS FleetTools, GrafanaSync_proofs, TLAPS

-----------------------------------------------------------------------------
(* EntityGroups: groups stay within their environment and leave nobody out that   *)
(* was discovered, for any number of clusters, environments, groups and           *)
(* overlapping syncs; and one cluster's failure keeps no other waiting.           *)

\* Tags are right or not there yet; the discovered ones were read of them.
HonestTags == \A c \in Clusters : tag[c] \in {Home[c], Untagged}

Discovery == UNION {[D -> Environments \cup {Untagged}] : D \in SUBSET Clusters}

Honest(tags) == \A c \in DOMAIN tags : tags[c] \in {Home[c], Untagged}

SyncRecord ==
  [pc : {"discover", "execute", "done"}, env : Environments, found : Discovery,
   members : SUBSET Clusters, left : SUBSET Clusters, failed : SUBSET Clusters,
   todo : SUBSET GroupNames, written : SUBSET (Clusters \X GroupNames)]

\* What is written was selected once, of a discovery without untagged clusters.
Membership(r) ==
  r.pc # "discover" => /\ r.members = Selected(r) /\ Missing(r) = {}
                       /\ r.left \subseteq r.members

\* What a sync has written on cluster c.
On(r, c) == {g \in GroupNames : <<c, g>> \in r.written}

\* A cluster that is left has had nothing written on it, or it is the one in
\* hand, and has all its groups but those that are still to do.
OneInHand(r) ==
  /\ \A c \in r.left : On(r, c) \in {{}, GroupNames \ r.todo}
  /\ \A c, d \in r.left : On(r, c) # {} /\ On(r, d) # {} => c = d

\* Whoever is done with is written, or failed.
Accounted(r) == \A c \in r.members \ (r.left \cup r.failed) : On(r, c) = GroupNames

SyncInv(r) ==
  \/ r = AtRest
  \/ /\ r \in SyncRecord /\ Honest(r.found) /\ Membership(r)
     /\ r.pc # "discover" => OneInHand(r) /\ Accounted(r)
     /\ r.pc = "discover" => r.left = {} /\ r.failed = {} /\ r.written = {}
                             /\ r.todo = GroupNames
     /\ r.pc = "done" => r.left = {}

GInv ==
  /\ HonestTags /\ tag \in [Clusters -> Environments \cup {Untagged}]
  /\ groups \in [Clusters -> [GroupNames -> Group \cup {None}]]
  /\ syncing \in [Syncs -> {syncing[s] : s \in Syncs}]
  /\ \A s \in Syncs : SyncInv(syncing[s])

-----------------------------------------------------------------------------

LEMMA NotAtRest ==
  ASSUME NEW r, SyncInv(r), r.pc # "idle"
  PROVE  r \in SyncRecord
BY DEF SyncInv, AtRest

\* A record of a sync is changed field by field.
LEMMA InitGInv == GroupInit => GInv
<1> SUFFICES ASSUME GroupInit PROVE GInv
  OBVIOUS
<1>1. HonestTags /\ tag \in [Clusters -> Environments \cup {Untagged}]
  BY DEF GroupInit, HonestTags
<1>2. groups \in [Clusters -> [GroupNames -> Group \cup {None}]]
  BY DEF GroupInit
<1>3. \A s \in Syncs : SyncInv(syncing[s])
  BY DEF GroupInit, SyncInv
<1>4. syncing \in [Syncs -> {syncing[s] : s \in Syncs}]
  BY DEF GroupInit
<1> QED
  BY <1>1, <1>2, <1>3, <1>4 DEF GInv

\* A step that gives sync s the record r, and nothing to the others.
LEMMA HoldsKeeps ==
  ASSUME GInv, NEW s \in Syncs, NEW r, Holds(s, r), SyncInv(r), UNCHANGED tag,
         groups' \in [Clusters -> [GroupNames -> Group \cup {None}]]
  PROVE  GInv'
<1>1. syncing' = [syncing EXCEPT ![s] = r]
  BY DEF Holds
<1>2. syncing' \in [Syncs -> {syncing'[t] : t \in Syncs}]
  BY <1>1 DEF GInv
<1>3. \A t \in Syncs : SyncInv(syncing'[t])
  BY <1>1 DEF GInv
<1>4. HonestTags' /\ (tag \in [Clusters -> Environments \cup {Untagged}])'
  BY DEF GInv, HonestTags
<1> QED
  BY <1>2, <1>3, <1>4 DEF GInv

LEMMA BeginKeeps ==
  ASSUME GInv, NEW s \in Syncs, NEW env \in Environments, BeginSync(s, env)
  PROVE  GInv'
<1> DEFINE r == [pc |-> "discover", env |-> env, found |-> [c \in {} |-> None],
                 members |-> {}, left |-> {}, failed |-> {}, todo |-> GroupNames,
                 written |-> {}]
<1>1. Holds(s, r) /\ UNCHANGED <<tag, groups>>
  BY DEF BeginSync, Shared
<1>2. r.found \in [{} -> Environments \cup {Untagged}]
  OBVIOUS
<1>3. r.found \in Discovery
  BY <1>2 DEF Discovery
<1>4. r \in SyncRecord
  BY <1>3 DEF SyncRecord
<1>5. SyncInv(r)
  BY <1>4 DEF SyncInv, Honest, Membership
<1> QED
  BY <1>1, <1>5, HoldsKeeps DEF GInv

LEMMA DiscoverKeeps ==
  ASSUME GInv, NEW s \in Syncs, NEW page \in SUBSET Clusters, DiscoverPage(s, page)
  PROVE  GInv'
<1> DEFINE q == syncing[s]
           f == [c \in DOMAIN q.found \cup page |->
                   IF c \in page THEN tag[c] ELSE q.found[c]]
           r == [q EXCEPT !.found = f]
<1>1. Holds(s, r) /\ UNCHANGED <<tag, groups>> /\ q.pc = "discover"
  BY DEF DiscoverPage, Shared
<1>2. q \in SyncRecord /\ SyncInv(q) /\ Honest(q.found)
  BY <1>1, NotAtRest DEF GInv, SyncInv, AtRest
<1>3. PICK D \in SUBSET Clusters : q.found \in [D -> Environments \cup {Untagged}]
  BY <1>2 DEF SyncRecord, Discovery
<1>4. f \in [D \cup page -> Environments \cup {Untagged}] /\ Honest(f)
  <2>1. \A c \in page : tag[c] \in {Home[c], Untagged} /\ tag[c] \in Environments \cup {Untagged}
    BY DEF GInv, HonestTags
  <2>2. DOMAIN q.found = D /\ \A c \in D : q.found[c] \in Environments \cup {Untagged}
    BY <1>3
  <2> QED
    BY <2>1, <2>2, <1>2 DEF Honest
<1>5. f \in Discovery
  BY <1>4 DEF Discovery
<1>6. /\ r \in SyncRecord /\ r.found = f /\ r.pc = "discover" /\ r.left = q.left
      /\ r.failed = q.failed /\ r.todo = q.todo /\ r.written = q.written
  BY <1>1, <1>2, <1>5 DEF SyncRecord
<1>7. q.left = {} /\ q.failed = {} /\ q.written = {} /\ q.todo = GroupNames
  BY <1>1, <1>2 DEF SyncInv, AtRest
<1>8. SyncInv(r)
  BY <1>4, <1>6, <1>7 DEF SyncInv, Membership
<1> QED
  BY <1>1, <1>8, HoldsKeeps DEF GInv

LEMMA RestIsKept == SyncInv(AtRest)
BY DEF SyncInv

LEMMA CompleteKeeps ==
  ASSUME GInv, NEW s \in Syncs, CompleteSync(s)
  PROVE  GInv'
<1> DEFINE q == syncing[s]
           r == [q EXCEPT !.pc = "execute", !.members = Selected(q), !.left = Selected(q)]
<1>1. UNCHANGED <<tag, groups>> /\ q.pc = "discover"
  BY DEF CompleteSync, Shared
<1>2. q \in SyncRecord /\ SyncInv(q) /\ Honest(q.found)
  BY <1>1, NotAtRest DEF GInv, SyncInv, AtRest
<1>3. CASE Missing(q) # {} \/ Selected(q) = {}
  BY <1>1, <1>3, RestIsKept, HoldsKeeps DEF CompleteSync, GInv
<1>4. CASE ~(Missing(q) # {} \/ Selected(q) = {})
  <2>1. Holds(s, r) /\ Missing(q) = {}
    BY <1>4 DEF CompleteSync
  <2>2. PICK D \in SUBSET Clusters : q.found \in [D -> Environments \cup {Untagged}]
    BY <1>2 DEF SyncRecord, Discovery
  <2>3. Selected(q) \subseteq Clusters
    BY <2>2 DEF Selected
  <2>4. /\ r \in SyncRecord /\ r.found = q.found /\ r.env = q.env /\ r.pc = "execute"
        /\ r.members = Selected(q) /\ r.left = Selected(q)
        /\ r.failed = q.failed /\ r.todo = q.todo /\ r.written = q.written
    BY <1>2, <2>3 DEF SyncRecord
  <2>5. Selected(r) = Selected(q) /\ Missing(r) = {}
    BY <2>1, <2>4 DEF Selected, Missing
  <2>6. q.failed = {} /\ q.written = {} /\ q.todo = GroupNames
    BY <1>1, <1>2 DEF SyncInv, AtRest
  <2>7. \A c : On(r, c) = {}
    BY <2>4, <2>6 DEF On
  <2>8. OneInHand(r) /\ Accounted(r) /\ Membership(r)
    BY <2>4, <2>5, <2>6, <2>7 DEF OneInHand, Accounted, Membership
  <2>9. SyncInv(r)
    BY <2>4, <2>8, <1>2 DEF SyncInv
  <2> QED
    BY <1>1, <2>1, <2>9, HoldsKeeps DEF GInv
<1> QED
  BY <1>3, <1>4

\* What a sync that executes knows.
LEMMA Executing ==
  ASSUME GInv, NEW s \in Syncs, syncing[s].pc = "execute"
  PROVE  /\ syncing[s] \in SyncRecord /\ Honest(syncing[s].found)
         /\ Membership(syncing[s]) /\ OneInHand(syncing[s]) /\ Accounted(syncing[s])
         /\ syncing[s].left \subseteq syncing[s].members
BY NotAtRest DEF GInv, SyncInv, AtRest, Membership

\* What it would write is a group of its environment.
LEMMA AlteredType ==
  ASSUME GInv, NEW s \in Syncs, syncing[s].pc = "execute", NEW c, NEW g
  PROVE  Altered(s, c, g) \in Group
<1>1. syncing[s] \in SyncRecord
  BY Executing
<1> QED
  BY <1>1 DEF Altered, Group, SyncRecord

\* While a cluster is in hand, nothing is written on the others that are left.
LEMMA InHandAlone ==
  ASSUME GInv, NEW s \in Syncs, NEW c \in Clusters, InHand(s, c)
  PROVE  /\ On(syncing[s], c) = GroupNames \ syncing[s].todo
         /\ \A d \in syncing[s].left \ {c} : On(syncing[s], d) = {}
<1> DEFINE q == syncing[s]
<1>1. q.pc = "execute" /\ c \in q.left
  BY DEF InHand
<1>2. q \in SyncRecord /\ OneInHand(q)
  BY <1>1, Executing
<1>3. CASE q.todo = GroupNames
  BY <1>1, <1>2, <1>3 DEF OneInHand
<1>4. CASE q.todo # GroupNames
  <2>1. PICK g \in GroupNames \ q.todo : <<c, g>> \in q.written
    BY <1>4 DEF InHand
  <2>2. On(q, c) # {}
    BY <2>1 DEF On
  <2> QED
    BY <1>1, <1>2, <2>2 DEF OneInHand
<1> QED
  BY <1>3, <1>4

LEMMA LeaveFields ==
  ASSUME NEW r \in SyncRecord, NEW c
  PROVE  /\ Leave(r, c) \in SyncRecord
         /\ Leave(r, c).left = r.left \ {c} /\ Leave(r, c).todo = GroupNames
         /\ Leave(r, c).pc = r.pc /\ Leave(r, c).env = r.env
         /\ Leave(r, c).found = r.found /\ Leave(r, c).members = r.members
         /\ Leave(r, c).failed = r.failed /\ Leave(r, c).written = r.written
BY DEF Leave, SyncRecord

\* A step of executeKQL: one more group, and with the last one the next cluster.
LEMMA ExecuteSyncInv ==
  ASSUME GInv, NEW s \in Syncs, NEW c \in Clusters, NEW g \in GroupNames,
         InHand(s, c), g \in syncing[s].todo, NEW r,
         r = [syncing[s] EXCEPT !.todo = @ \ {g}, !.written = @ \cup {<<c, g>>}]
  PROVE  SyncInv(IF r.todo = {} THEN Leave(r, c) ELSE r)
<1> DEFINE q == syncing[s]
<1>1. q.pc = "execute" /\ c \in q.left
  BY DEF InHand
<1>2. /\ q \in SyncRecord /\ Honest(q.found) /\ Membership(q) /\ OneInHand(q)
      /\ Accounted(q) /\ q.left \subseteq q.members
  BY <1>1, Executing
<1>3. /\ On(q, c) = GroupNames \ q.todo
      /\ \A d \in q.left \ {c} : On(q, d) = {}
  BY InHandAlone
<1>4. /\ r \in SyncRecord /\ r.found = q.found /\ r.env = q.env /\ r.pc = q.pc
      /\ r.members = q.members /\ r.left = q.left /\ r.failed = q.failed
      /\ r.todo = q.todo \ {g} /\ r.written = q.written \cup {<<c, g>>}
  <2>1. r = [q EXCEPT !.todo = q.todo \ {g}, !.written = q.written \cup {<<c, g>>}]
    OBVIOUS
  <2>2. /\ q.todo \ {g} \in SUBSET GroupNames
        /\ q.written \cup {<<c, g>>} \in SUBSET (Clusters \X GroupNames)
    BY <1>2 DEF SyncRecord
  <2> HIDE DEF q
  <2> QED
    BY <1>2, <2>1, <2>2 DEF SyncRecord
<1>5. On(r, c) = GroupNames \ r.todo
  <2>1. On(r, c) = On(q, c) \cup {g}
    BY <1>4 DEF On
  <2> QED
    BY <1>3, <1>4, <2>1
<1>6. \A d : d # c => On(r, d) = On(q, d)
  BY <1>4 DEF On
<1>7. Selected(r) = Selected(q) /\ Missing(r) = Missing(q)
  BY <1>4 DEF Selected, Missing
<1>8. Membership(r)
  BY <1>1, <1>2, <1>4, <1>7 DEF Membership
<1>9. Accounted(r)
  BY <1>1, <1>2, <1>4, <1>6 DEF Accounted
<1>10. OneInHand(r)
  BY <1>3, <1>4, <1>5, <1>6 DEF OneInHand
<1>11. CASE r.todo # {}
  BY <1>1, <1>2, <1>4, <1>8, <1>9, <1>10, <1>11 DEF SyncInv
<1>12. CASE r.todo = {}
  <2> DEFINE l == Leave(r, c)
  <2>1. /\ l \in SyncRecord /\ l.left = r.left \ {c} /\ l.todo = GroupNames
        /\ l.pc = r.pc /\ l.env = r.env /\ l.found = r.found
        /\ l.members = r.members /\ l.failed = r.failed /\ l.written = r.written
    <3>1. r \in SyncRecord
      BY <1>4
    <3> QED
      BY <3>1, LeaveFields, Zenon
  <2> HIDE DEF l
  <2>2. \A d : On(l, d) = On(r, d)
    BY <2>1 DEF On
  <2>3. Selected(l) = Selected(r) /\ Missing(l) = Missing(r)
    BY <2>1 DEF Selected, Missing
  <2>4. Membership(l)
    BY <1>8, <2>1, <2>3 DEF Membership
  <2>5. On(l, c) = GroupNames
    BY <1>5, <1>12, <2>2
  <2>6. Accounted(l)
    BY <1>9, <2>1, <2>2, <2>5 DEF Accounted
  <2>7. \A d \in l.left : On(l, d) = {}
    BY <1>3, <1>4, <1>6, <2>1, <2>2
  <2>8. OneInHand(l)
    BY <2>7 DEF OneInHand
  <2>9. SyncInv(l)
    BY <1>1, <1>2, <1>4, <2>1, <2>4, <2>6, <2>8 DEF SyncInv
  <2> QED
    BY <1>12, <2>9 DEF l
<1> QED
  BY <1>11, <1>12

\* A cluster that failed is left, with what was written on it.
LEMMA BreakSyncInv ==
  ASSUME GInv, NEW s \in Syncs, NEW c \in Clusters, InHand(s, c)
  PROVE  SyncInv(Break(syncing[s], c))
<1> DEFINE q == syncing[s]
           l == Break(q, c)
<1>1. q.pc = "execute" /\ c \in q.left
  BY DEF InHand
<1>2. /\ q \in SyncRecord /\ Honest(q.found) /\ Membership(q) /\ OneInHand(q)
      /\ Accounted(q) /\ q.left \subseteq q.members
  BY <1>1, Executing
<1>3. \A d \in q.left \ {c} : On(q, d) = {}
  BY InHandAlone
<1>4. /\ Leave(q, c) \in SyncRecord /\ Leave(q, c).left = q.left \ {c}
      /\ Leave(q, c).pc = q.pc /\ Leave(q, c).env = q.env
      /\ Leave(q, c).found = q.found /\ Leave(q, c).members = q.members
      /\ Leave(q, c).failed = q.failed /\ Leave(q, c).written = q.written
  BY <1>2, LeaveFields
<1>5. /\ l \in SyncRecord /\ l.left = q.left \ {c} /\ l.pc = q.pc /\ l.env = q.env
      /\ l.found = q.found /\ l.members = q.members
      /\ l.failed = q.failed \cup {c} /\ l.written = q.written
  <2>1. l = [Leave(q, c) EXCEPT !.failed = @ \cup {c}]
    BY DEF Break
  <2>2. Leave(q, c).failed \cup {c} \in SUBSET Clusters
    BY <1>2, <1>4 DEF SyncRecord
  <2> HIDE DEF l
  <2> QED
    BY <1>4, <2>1, <2>2 DEF SyncRecord
<1> HIDE DEF l
<1>6. \A d : On(l, d) = On(q, d)
  BY <1>5 DEF On
<1>7. Selected(l) = Selected(q) /\ Missing(l) = Missing(q)
  BY <1>5 DEF Selected, Missing
<1>8. Membership(l)
  BY <1>1, <1>2, <1>5, <1>7 DEF Membership
<1>9. Accounted(l)
  BY <1>2, <1>5, <1>6 DEF Accounted
<1>10. OneInHand(l)
  BY <1>3, <1>5, <1>6 DEF OneInHand
<1>11. SyncInv(l)
  BY <1>1, <1>2, <1>5, <1>8, <1>9, <1>10 DEF SyncInv
<1> QED
  BY <1>11 DEF l

LEMMA ExecuteKeeps ==
  ASSUME GInv, NEW s \in Syncs, NEW c \in Clusters, NEW g \in GroupNames,
         ExecuteKQL(s, c, g)
  PROVE  GInv'
<1>1. syncing[s].pc = "execute" /\ InHand(s, c) /\ g \in syncing[s].todo
  BY DEF ExecuteKQL, InHand
<1>2. groups' \in [Clusters -> [GroupNames -> Group \cup {None}]]
  BY <1>1, AlteredType DEF ExecuteKQL, GInv
<1> DEFINE r == [syncing[s] EXCEPT !.todo = @ \ {g}, !.written = @ \cup {<<c, g>>}]
<1>3. Holds(s, IF r.todo = {} THEN Leave(r, c) ELSE r) /\ UNCHANGED tag
  BY DEF ExecuteKQL
<1>4. SyncInv(IF r.todo = {} THEN Leave(r, c) ELSE r)
  BY <1>1, ExecuteSyncInv
<1> HIDE DEF r
<1> QED
  BY <1>2, <1>3, <1>4, HoldsKeeps

LEMMA FailsKeeps ==
  ASSUME GInv, NEW s \in Syncs, NEW c \in Clusters, KQLFails(s, c)
  PROVE  GInv'
<1>1. syncing[s].pc = "execute" /\ InHand(s, c)
  BY DEF KQLFails, InHand
<1>2. groups' \in [Clusters -> [GroupNames -> Group \cup {None}]]
  <2>1. CASE UNCHANGED groups
    BY <2>1 DEF GInv
  <2>2. ASSUME NEW g \in syncing[s].todo,
               groups' = [groups EXCEPT ![c][g] = Altered(s, c, g)]
        PROVE  groups' \in [Clusters -> [GroupNames -> Group \cup {None}]]
    <3>1. g \in GroupNames
      BY <1>1, Executing DEF SyncRecord
    <3> QED
      BY <1>1, <2>2, <3>1, AlteredType DEF GInv
  <2> QED
    BY <2>1, <2>2 DEF KQLFails
<1>3. SyncInv(Break(syncing[s], c))
  BY <1>1, BreakSyncInv
<1>4. Holds(s, Break(syncing[s], c)) /\ UNCHANGED tag
  BY DEF KQLFails
<1> QED
  BY <1>2, <1>3, <1>4, HoldsKeeps

LEMMA FinishKeeps ==
  ASSUME GInv, NEW s \in Syncs, FinishSync(s)
  PROVE  GInv'
<1> DEFINE q == syncing[s]
           r == [q EXCEPT !.pc = "done"]
<1>1. q.pc = "execute" /\ q.left = {} /\ Holds(s, r) /\ UNCHANGED <<tag, groups>>
  BY DEF FinishSync, Shared
<1>2. /\ q \in SyncRecord /\ Honest(q.found) /\ Membership(q) /\ OneInHand(q)
      /\ Accounted(q)
  BY <1>1, Executing
<1>3. /\ r \in SyncRecord /\ r.pc = "done" /\ r.env = q.env /\ r.found = q.found
      /\ r.members = q.members /\ r.left = q.left /\ r.failed = q.failed
      /\ r.todo = q.todo /\ r.written = q.written
  BY <1>2 DEF SyncRecord
<1> HIDE DEF r
<1>4. Selected(r) = Selected(q) /\ Missing(r) = Missing(q) /\ \A c : On(r, c) = On(q, c)
  BY <1>3 DEF Selected, Missing, On
<1>5. Membership(r) /\ Accounted(r) /\ OneInHand(r)
  BY <1>1, <1>2, <1>3, <1>4 DEF Membership, Accounted, OneInHand
<1>6. SyncInv(r)
  BY <1>1, <1>2, <1>3, <1>5 DEF SyncInv
<1> QED
  BY <1>1, <1>6, HoldsKeeps DEF GInv, r

\* Steps of the fleet leave the syncs alone, and tags come to be right.
LEMMA FleetKeeps ==
  ASSUME GInv, NEW c \in Clusters, TagShows(c) \/ Provisioned(c) \/ Updating(c)
  PROVE  GInv'
<1>1. UNCHANGED <<groups, syncing>>
  BY DEF TagShows, Provisioned, Updating
<1>2. tag' = tag \/ tag' = [tag EXCEPT ![c] = Home[c]]
  BY DEF TagShows, Provisioned, Updating
<1>3. HonestTags' /\ (tag \in [Clusters -> Environments \cup {Untagged}])'
  BY <1>2 DEF GInv, HonestTags, Environments
<1> QED
  BY <1>1, <1>3 DEF GInv

LEMMA NextGInv == GInv /\ [GroupNext]_groupVars => GInv'
<1> SUFFICES ASSUME GInv, [GroupNext]_groupVars PROVE GInv'
  OBVIOUS
<1>1. ASSUME NEW s \in Syncs, NEW env \in Environments, BeginSync(s, env) PROVE GInv'
  BY <1>1, BeginKeeps
<1>2. ASSUME NEW s \in Syncs, SyncGoesOn(s) PROVE GInv'
  <2>1. ASSUME NEW page \in SUBSET Clusters, DiscoverPage(s, page) PROVE GInv'
    BY <1>2, <2>1, DiscoverKeeps
  <2>2. CASE CompleteSync(s)
    BY <1>2, <2>2, CompleteKeeps
  <2>3. ASSUME NEW c \in Clusters, NEW g \in GroupNames, ExecuteKQL(s, c, g) PROVE GInv'
    BY <1>2, <2>3, ExecuteKeeps
  <2>4. CASE FinishSync(s)
    BY <1>2, <2>4, FinishKeeps
  <2>5. CASE LeaveSync(s)
    BY <1>2, <2>5, RestIsKept, HoldsKeeps DEF LeaveSync, Shared, GInv
  <2> QED
    BY <1>2, <2>1, <2>2, <2>3, <2>4, <2>5 DEF SyncGoesOn
<1>3. ASSUME NEW s \in Syncs, GiveUpSync(s) PROVE GInv'
  BY <1>3, RestIsKept, HoldsKeeps DEF GiveUpSync, GInv
<1>4. ASSUME NEW s \in Syncs, NEW c \in Clusters, KQLFails(s, c) PROVE GInv'
  BY <1>4, FailsKeeps
<1>5. ASSUME NEW c \in Clusters, TagShows(c) \/ Provisioned(c) \/ Updating(c) PROVE GInv'
  BY <1>5, FleetKeeps
<1>6. CASE UNCHANGED groupVars
  BY <1>6 DEF groupVars, GInv, HonestTags
<1> QED
  BY <1>1, <1>2, <1>3, <1>4, <1>5, <1>6 DEF GroupNext

-----------------------------------------------------------------------------

\* The membership that a sync has is its environment's, and whole.
LEMMA MembersAreWhole ==
  ASSUME GInv, NEW s \in Syncs, syncing[s].pc = "execute"
  PROVE  /\ \A d \in syncing[s].members : Home[d] = syncing[s].env
         /\ \A d \in DOMAIN syncing[s].found :
              Home[d] = syncing[s].env => d \in syncing[s].members
<1> DEFINE q == syncing[s]
<1>1. q \in SyncRecord /\ Honest(q.found) /\ q.members = Selected(q) /\ Missing(q) = {}
  BY Executing DEF Membership
<1>2. q.env # Untagged
  BY <1>1, UntaggedAssumption DEF SyncRecord
<1>3. \A d \in DOMAIN q.found : q.found[d] = Home[d]
  BY <1>1 DEF Honest, Missing
<1> QED
  BY <1>1, <1>2, <1>3 DEF Selected

\* Whatever a step writes, it writes of the sync that takes it.
LEMMA WholeStep ==
  GInv /\ [GroupNext]_groupVars =>
    \A s \in Syncs, c \in Clusters, g \in GroupNames :
       groups'[c][g] # groups[c][g] /\ syncing'[s] # syncing[s] =>
         LET members == groups'[c][g].members
         IN  /\ c \in members
             /\ \A d \in members : Home[d] = Home[c]
             /\ \A d \in DOMAIN syncing[s].found :
                  Home[d] = syncing[s].env => d \in members
<1> SUFFICES ASSUME GInv, [GroupNext]_groupVars,
                    NEW s \in Syncs, NEW c \in Clusters, NEW g \in GroupNames,
                    groups'[c][g] # groups[c][g], syncing'[s] # syncing[s]
             PROVE  /\ c \in groups'[c][g].members
                    /\ \A d \in groups'[c][g].members : Home[d] = Home[c]
                    /\ \A d \in DOMAIN syncing[s].found :
                         Home[d] = syncing[s].env => d \in groups'[c][g].members
  OBVIOUS
<1>1. PICK t \in Syncs, b \in Clusters, h \in GroupNames :
             /\ InHand(t, b) /\ \E r : Holds(t, r)
             /\ groups' = [groups EXCEPT ![b][h] = Altered(t, b, h)]
  <2>1. ASSUME NEW t \in Syncs, NEW b \in Clusters, KQLFails(t, b)
        PROVE  \E h \in GroupNames : /\ InHand(t, b) /\ \E r : Holds(t, r)
                           /\ groups' = [groups EXCEPT ![b][h] = Altered(t, b, h)]
    <3>1. InHand(t, b) /\ syncing[t].pc = "execute" /\ Holds(t, Break(syncing[t], b))
      BY <2>1 DEF KQLFails, InHand
    <3>2. PICK h \in syncing[t].todo :
               groups' = [groups EXCEPT ![b][h] = Altered(t, b, h)]
      BY <2>1 DEF KQLFails
    <3>3. h \in GroupNames
      BY <3>1, Executing DEF SyncRecord
    <3> QED
      BY <3>1, <3>2, <3>3
  <2>2. ASSUME NEW t \in Syncs, NEW b \in Clusters, NEW h \in GroupNames, ExecuteKQL(t, b, h)
        PROVE  /\ InHand(t, b) /\ \E r : Holds(t, r)
               /\ groups' = [groups EXCEPT ![b][h] = Altered(t, b, h)]
    BY <2>2 DEF ExecuteKQL
  <2>3. \/ \E t \in Syncs, b \in Clusters, h \in GroupNames : ExecuteKQL(t, b, h)
        \/ \E t \in Syncs, b \in Clusters : KQLFails(t, b)
    <3>1. groups' # groups
      OBVIOUS
    <3> QED
      BY <3>1 DEF GroupNext, SyncGoesOn, groupVars, BeginSync, DiscoverPage,
         CompleteSync, FinishSync, LeaveSync, GiveUpSync, TagShows, Provisioned,
         Updating, Shared
  <2> QED
    BY <2>1, <2>2, <2>3
<1>2. t = s
  BY <1>1 DEF Holds, GInv
<1>3. c = b /\ g = h
  BY <1>1 DEF GInv
<1>4. syncing[s].pc = "execute" /\ c \in syncing[s].left
  BY <1>1, <1>2, <1>3 DEF InHand
<1>5. groups'[c][g].members = syncing[s].members
  BY <1>1, <1>2, <1>3 DEF GInv, Altered
<1>6. c \in syncing[s].members
  BY <1>4, Executing
<1> QED
  BY <1>4, <1>5, <1>6, MembersAreWhole

-----------------------------------------------------------------------------

\* What syncs believe is so, at every moment (kusto.go).
THEOREM GroupInvariant == GroupSpec => []GInv
<1> QED
  BY InitGInv, NextGInv, PTL DEF GroupSpec

\* No sync writes a group that mixes environments or leaves out a cluster that was
\* discovered, however many run beside each other (selectClustersForEnvironment).
THEOREM GroupsAreWhole == GroupSpec => WritesWholeEnvironment
<1> QED
  BY InitGInv, NextGInv, WholeStep, PTL DEF GroupSpec, WritesWholeEnvironment

\* At its end a sync has written all groups of each cluster, or reports the
\* cluster (the loop of Sync, which goes on after a failure).
THEOREM NobodyWaits == GroupSpec => []OthersReconciled
<1>1. GInv => OthersReconciled
  <2> SUFFICES ASSUME GInv, NEW s \in Syncs, syncing[s].pc = "done"
               PROVE  (syncing[s].members \ syncing[s].failed) \X GroupNames
                         \subseteq syncing[s].written
    BY DEF OthersReconciled
  <2>1. /\ syncing[s] \in SyncRecord /\ Accounted(syncing[s]) /\ syncing[s].left = {}
    BY DEF GInv, SyncInv, AtRest
  <2> QED
    BY <2>1 DEF Accounted, On
<1> QED
  BY <1>1, GroupInvariant, PTL

-----------------------------------------------------------------------------
(* GrafanaIntegrations: what the maintenance of Grafana takes away, for any       *)
(* workspaces, any number of pages and any changes to the fleet.                  *)

CommandRecord ==
  [pc : {"discover", "wait", "write", "poll", "delete"},
   read : SUBSET Workspaces, found : SUBSET Workspaces, want : SUBSET Workspaces]

UpdateRecord == [by : Commands, want : SUBSET Workspaces, read : SUBSET Workspaces]

IntTypes ==
  /\ shown \subseteq exists /\ exists \subseteq Workspaces
  /\ integrations \subseteq Workspaces /\ datasources \subseteq Workspaces
  /\ update \in UpdateRecord \cup {NoUpdate}
  /\ cmd \in [Commands -> CommandRecord \cup {Resting}]

\* What clean is about to take off was not to be seen at some time since it read it.
CleanKnows ==
  \A c \in Commands : c = "clean" /\ cmd[c].pc \in {"wait", "write"} =>
    cmd[c].read \ cmd[c].want \subseteq dangling

\* So it is with what the service is about to take off for clean.
UpdateKnows ==
  update # NoUpdate /\ update.by = "clean" => update.read \ update.want \subseteq dangling

\* The datasources that fixup has listed are there, and those that it is about to
\* delete have been without a workspace, or belong to another subscription.
FixupKnows ==
  \A c \in Commands :
    /\ cmd[c].pc = "delete" => c = "fixup"
    /\ c = "fixup" /\ cmd[c].pc = "discover" => cmd[c].read \subseteq datasources
    /\ c = "fixup" /\ cmd[c].pc = "delete" =>
         cmd[c].want \subseteq datasources \cap (orphaned \cup Elsewhere)

FleetInv == IntTypes /\ CleanKnows /\ UpdateKnows /\ FixupKnows

-----------------------------------------------------------------------------
(* Records and their history *)

LEMMA RecordIsBusy ==
  ASSUME NEW r \in CommandRecord
  PROVE  r # Resting /\ r.pc # "idle"
BY DEF CommandRecord, Resting

LEMMA UpdateIsUnderWay ==
  ASSUME NEW u \in UpdateRecord
  PROVE  u # NoUpdate
BY CommandsAssumption DEF UpdateRecord, NoUpdate

LEMMA Busy ==
  ASSUME IntTypes, NEW c \in Commands, cmd[c].pc # "idle"
  PROVE  cmd[c] \in CommandRecord
BY DEF IntTypes, Resting

\* Clean holds what it reads, until it rests.
LEMMA CleanHolds ==
  ASSUME IntTypes, NEW c \in Commands, c = "clean", cmd[c] \in CommandRecord
  PROVE  cmd[c].read \subseteq Held
<1>1. cmd[c] # Resting
  BY RecordIsBusy
<1>2. cmd[c].read \subseteq Workspaces
  BY DEF CommandRecord
<1> QED BY <1>1, <1>2 DEF Held

LEMMA UpdateHolds ==
  ASSUME IntTypes, update # NoUpdate, update.by = "clean"
  PROVE  update.read \subseteq Held
<1>1. update.read \subseteq Workspaces
  BY DEF IntTypes, UpdateRecord
<1> QED BY <1>1 DEF Held

\* What a command may hold after its step, which is noted if it was not to be seen.
Fits(c, r) ==
  /\ r \in CommandRecord \cup {Resting}
  /\ c = "clean" /\ r.pc \in {"wait", "write"} =>
       \A w \in r.read \ r.want : w \in dangling \/ w \notin shown'
  /\ r.pc = "delete" => c = "fixup"
  /\ c = "fixup" /\ r.pc = "discover" => r.read \subseteq datasources'
  /\ c = "fixup" /\ r.pc = "delete" =>
       r.want \subseteq datasources' \cap (orphaned' \cup Elsewhere)


LEMMA KeepsCommand ==
  ASSUME IntTypes, NEW c \in Commands, NEW r, Keeps(c, r)
  PROVE  cmd'[c] = r /\ \A d \in Commands \ {c} : cmd'[d] = cmd[d]
BY DEF IntTypes, Keeps

LEMMA KeepsTypes ==
  ASSUME IntTypes, NEW c \in Commands, NEW r \in CommandRecord \cup {Resting}, Keeps(c, r)
  PROVE  cmd' \in [Commands -> CommandRecord \cup {Resting}]
BY DEF IntTypes, Keeps

\* Where clean itself rests, what it holds was held before.
LEMMA CleanStays ==
  ASSUME FleetInv, IntTypes', History,
         NEW c \in Commands, cmd'[c] = cmd[c], c = "clean", cmd[c].pc \in {"wait", "write"}
  PROVE  cmd'[c].read \ cmd'[c].want \subseteq dangling'
<1>1. cmd'[c] \in CommandRecord
  BY Busy DEF FleetInv
<1>2. cmd'[c].read \subseteq Held'
  <2>1. cmd'[c] # Resting
    BY <1>1, RecordIsBusy
  <2>2. cmd'[c].read \subseteq Workspaces
    BY <1>1 DEF CommandRecord
  <2> QED BY <2>1, <2>2 DEF Held
<1> QED BY <1>2 DEF FleetInv, CleanKnows, History

LEMMA UpdateStays ==
  ASSUME FleetInv, IntTypes', History, UNCHANGED update
  PROVE  UpdateKnows'
<1> SUFFICES ASSUME update # NoUpdate, update.by = "clean"
             PROVE  update.read \ update.want \subseteq dangling'
  BY DEF UpdateKnows
<1>1. update.read \subseteq Workspaces
  BY DEF FleetInv, IntTypes, UpdateRecord
<1>2. update.read \subseteq Held'
  BY <1>1 DEF Held
<1> QED BY <1>2 DEF FleetInv, UpdateKnows, History

LEMMA CommandStep ==
  ASSUME FleetInv, IntTypes', History, NEW c \in Commands, NEW r, Keeps(c, r), Fits(c, r),
         c # "fixup" => datasources \subseteq datasources'
  PROVE  CleanKnows' /\ FixupKnows'
<1> USE DEF FleetInv
<1>1. cmd'[c] = r /\ \A d \in Commands \ {c} : cmd'[d] = cmd[d]
  BY KeepsCommand
<1>2. CleanKnows'
  <2> SUFFICES ASSUME NEW d \in Commands, d = "clean", cmd'[d].pc \in {"wait", "write"}
               PROVE  cmd'[d].read \ cmd'[d].want \subseteq dangling'
    BY DEF CleanKnows
  <2>1. CASE d # c
    BY <1>1, <2>1, CleanStays
  <2>2. CASE d = c
    <3>1. r \in CommandRecord
      BY <1>1, <2>2, Busy DEF Fits, Resting
    <3>2. r # Resting /\ r.read \subseteq Workspaces
      BY <3>1, RecordIsBusy DEF CommandRecord
    <3>3. r.read \subseteq Held'
      BY <1>1, <2>2, <3>2 DEF Held
    <3> QED BY <1>1, <2>2, <3>3 DEF Fits, History
  <2> QED BY <2>1, <2>2
<1>3. FixupKnows'
  <2> SUFFICES ASSUME NEW d \in Commands
               PROVE  /\ cmd'[d].pc = "delete" => d = "fixup"
                      /\ d = "fixup" /\ cmd'[d].pc = "discover" => cmd'[d].read \subseteq datasources'
                      /\ d = "fixup" /\ cmd'[d].pc = "delete" =>
                           cmd'[d].want \subseteq datasources' \cap (orphaned' \cup Elsewhere)
    BY DEF FixupKnows
  <2>1. CASE d # c
    BY <1>1, <2>1 DEF FixupKnows, History
  <2>2. CASE d = c
    BY <1>1, <2>2 DEF Fits
  <2> QED BY <2>1, <2>2
<1> QED BY <1>2, <1>3

\* What no command does: the fleet changes, or an update ends.
LEMMA OthersStep ==
  ASSUME FleetInv, IntTypes', History, UNCHANGED cmd, datasources \subseteq datasources'
  PROVE  CleanKnows' /\ FixupKnows'
<1>1. CleanKnows'
  <2> SUFFICES ASSUME NEW d \in Commands, d = "clean", cmd'[d].pc \in {"wait", "write"}
               PROVE  cmd'[d].read \ cmd'[d].want \subseteq dangling'
    BY DEF CleanKnows
  <2> QED BY CleanStays
<1>2. FixupKnows'
  BY DEF FleetInv, FixupKnows, History
<1> QED BY <1>1, <1>2

LEMMA LocalStep ==
  ASSUME FleetInv, NEW c \in Commands, NEW r, Local(c, r), Fits(c, r)
  PROVE  FleetInv'
<1>1. IntTypes'
  BY KeepsTypes DEF FleetInv, IntTypes, Local, fleet, grafana, Fits
<1>2. CleanKnows' /\ FixupKnows'
  BY <1>1, CommandStep DEF Local, grafana
<1>3. UpdateKnows'
  BY <1>1, UpdateStays DEF Local, grafana
<1> QED BY <1>1, <1>2, <1>3 DEF FleetInv

-----------------------------------------------------------------------------
(* The actions *)

LEMMA RestingFits ==
  ASSUME NEW c \in Commands
  PROVE  Fits(c, Resting)
BY DEF Fits, Resting

LEMMA BeginKeepsFleet ==
  ASSUME FleetInv, NEW c \in Commands, BeginCommand(c)
  PROVE  FleetInv'
<1> DEFINE r == [pc |-> "discover", found |-> {}, want |-> {},
                 read |-> CASE c = "manage" -> {}
                            [] c = "fixup" -> datasources
                            [] OTHER -> integrations]
<1>1. Local(c, r)
  BY DEF BeginCommand
<1>2. r.pc = "discover" /\ (c = "fixup" => r.read = datasources)
  OBVIOUS
<1>3. r.read \subseteq Workspaces
  BY DEF FleetInv, IntTypes
<1>4. r \in CommandRecord
  BY <1>3 DEF CommandRecord
<1> HIDE DEF r
<1>5. Fits(c, r)
  BY <1>1, <1>2, <1>4 DEF Fits, Local, grafana
<1> QED BY <1>1, <1>5, LocalStep

LEMMA NextPageKeepsFleet ==
  ASSUME FleetInv, NEW c \in Commands, NEW page \in SUBSET Workspaces, NextPage(c, page)
  PROVE  FleetInv'
<1> DEFINE r == [cmd[c] EXCEPT !.found = @ \cup page]
<1>1. Local(c, r) /\ cmd[c].pc = "discover"
  BY DEF NextPage
<1>2. cmd[c] \in CommandRecord
  BY <1>1, Busy DEF FleetInv
<1>3. r \in CommandRecord /\ r.pc = "discover" /\ r.read = cmd[c].read
  BY <1>1, <1>2 DEF CommandRecord
<1> HIDE DEF r
<1>4. Fits(c, r)
  BY <1>1, <1>3 DEF Fits, Local, grafana, FleetInv, FixupKnows
<1> QED BY <1>1, <1>4, LocalStep

\* clean takes for missing what the discovery did not show, and fixup what is not
\* in its subscription.
LEMMA DecideKeepsFleet ==
  ASSUME FleetInv, NEW c \in Commands, Decide(c)
  PROVE  FleetInv'
<1> DEFINE r == cmd[c]
           go(to, want) == [r EXCEPT !.pc = to, !.want = want, !.found = {}]
<1>1. r.pc = "discover" /\ Listing(c) \subseteq r.found
  BY DEF Decide, LastPage
<1>2. r \in CommandRecord
  BY <1>1, Busy DEF FleetInv
<1>3. ASSUME NEW to \in {"wait", "write", "delete"}, NEW want \in SUBSET Workspaces
      PROVE  /\ go(to, want) \in CommandRecord /\ go(to, want).pc = to
             /\ go(to, want).want = want /\ go(to, want).read = r.read
  BY <1>2 DEF CommandRecord
<1>4. r.found \in SUBSET Workspaces /\ r.read \in SUBSET Workspaces
  BY <1>2 DEF CommandRecord
<1>5. c \in {"manage", "modify", "clean", "fixup"}
  BY CommandsAssumption
<1>6. CASE c = "manage"
  <2>1. Local(c, go("write", r.found))
    BY <1>6 DEF Decide, Discovered
  <2>2. Fits(c, go("write", r.found))
    BY <1>3, <1>4, <1>6 DEF Fits
  <2> QED BY <2>1, <2>2, LocalStep
<1>7. CASE c = "modify"
  <2>1. Local(c, go("wait", r.found))
    BY <1>7 DEF Decide
  <2>2. Fits(c, go("wait", r.found))
    BY <1>3, <1>4, <1>7 DEF Fits
  <2> QED BY <2>1, <2>2, LocalStep
<1>8. CASE c = "fixup"
  <2>1. Local(c, go("delete", Orphans(r)))
    BY <1>8 DEF Decide
  <2>2. Orphans(r) \subseteq datasources /\ Orphans(r) \cap exists \subseteq Elsewhere
    BY <1>1, <1>8 DEF Orphans, FleetInv, FixupKnows, Listing
  <2>3. datasources' = datasources /\ datasources' \ exists' \subseteq orphaned' /\ exists' = exists
    BY <2>1 DEF Local, grafana, fleet, History
  <2>4. Orphans(r) \subseteq datasources' \cap (orphaned' \cup Elsewhere)
    BY <2>2, <2>3
  <2>5. Orphans(r) \in SUBSET Workspaces
    BY <1>4 DEF Orphans
  <2>6. Fits(c, go("delete", Orphans(r)))
    <3> DEFINE g == go("delete", Orphans(r))
    <3>1. g \in CommandRecord /\ g.pc = "delete" /\ g.want = Orphans(r)
      BY <1>3, <2>5
    <3> HIDE DEF g
    <3>2. Fits(c, g)
      BY <3>1, <2>4, <1>8 DEF Fits
    <3> QED BY <3>2 DEF g
  <2> QED BY <2>1, <2>6, LocalStep
<1>9. CASE c = "clean" /\ r.read \subseteq r.found
  BY <1>9, RestingFits, LocalStep DEF Decide
<1>10. CASE c = "clean" /\ ~(r.read \subseteq r.found)
  <2> DEFINE g == go("wait", r.read \cap r.found)
  <2>1. Local(c, g)
    BY <1>10 DEF Decide
  <2>2. g \in CommandRecord /\ g.pc = "wait" /\ g.want = r.read \cap r.found /\ g.read = r.read
    BY <1>3, <1>4
  <2> HIDE DEF g
  <2>3. \A w \in g.read \ g.want : w \notin shown'
    BY <1>1, <1>10, <2>1, <2>2 DEF Listing, Local, fleet
  <2>4. Fits(c, g)
    BY <1>10, <2>2, <2>3 DEF Fits
  <2> QED BY <2>1, <2>4, LocalStep
<1> QED BY <1>5, <1>6, <1>7, <1>8, <1>9, <1>10

LEMMA WaitKeepsFleet ==
  ASSUME FleetInv, NEW c \in Commands, WaitForReady(c)
  PROVE  FleetInv'
<1>1. CASE instance = "Succeeded"
  <2> DEFINE r == [cmd[c] EXCEPT !.pc = "write"]
  <2>1. Local(c, r) /\ cmd[c].pc = "wait"
    BY <1>1 DEF WaitForReady
  <2>2. cmd[c] \in CommandRecord
    BY <2>1, Busy DEF FleetInv
  <2>3. r \in CommandRecord /\ r.pc = "write" /\ r.read = cmd[c].read /\ r.want = cmd[c].want
    BY <2>2 DEF CommandRecord
  <2> HIDE DEF r
  <2>4. Fits(c, r)
    BY <2>1, <2>3 DEF Fits, FleetInv, CleanKnows
  <2> QED BY <2>1, <2>4, LocalStep
<1>2. CASE instance # "Succeeded"
  BY <1>2, RestingFits, LocalStep DEF WaitForReady
<1> QED BY <1>1, <1>2

LEMMA BeginUpdateKeepsFleet ==
  ASSUME FleetInv, NEW c \in Commands, BeginUpdate(c)
  PROVE  FleetInv'
<1>1. CASE instance = "Updating" \/ (instance = "absent" /\ c # "manage")
  BY <1>1, RestingFits, LocalStep DEF BeginUpdate
<1>2. CASE ~(instance = "Updating" \/ (instance = "absent" /\ c # "manage"))
  <2> DEFINE r == [cmd[c] EXCEPT !.pc = "poll", !.want = {}, !.read = {}]
             u == [by |-> c, want |-> cmd[c].want, read |-> cmd[c].read]
  <2>1. /\ cmd[c].pc = "write" /\ update' = u /\ Keeps(c, r) /\ History
        /\ UNCHANGED <<shown, exists, integrations, datasources>>
    BY <1>2 DEF BeginUpdate, fleet
  <2>2. cmd[c] \in CommandRecord
    BY <2>1, Busy DEF FleetInv
  <2>3. r \in CommandRecord /\ r.pc = "poll"
    BY <2>2 DEF CommandRecord
  <2>4. u \in UpdateRecord /\ u.by = c /\ u.want = cmd[c].want /\ u.read = cmd[c].read
    BY <2>2 DEF CommandRecord, UpdateRecord
  <2> HIDE DEF r, u
  <2>5. IntTypes'
    BY <2>1, <2>3, <2>4, KeepsTypes DEF FleetInv, IntTypes
  <2>6. Fits(c, r)
    BY <2>3 DEF Fits
  <2>7. CleanKnows' /\ FixupKnows'
    BY <2>1, <2>5, <2>6, CommandStep
  <2>8. UpdateKnows'
    <3> SUFFICES ASSUME c = "clean"
                 PROVE  u.read \ u.want \subseteq dangling'
      BY <2>1, <2>4 DEF UpdateKnows
    <3>1. u.read \ u.want \subseteq dangling
      BY <2>1, <2>4 DEF FleetInv, CleanKnows
    <3>2. u.read \subseteq Held'
      <4>1. u # NoUpdate /\ u.read \subseteq Workspaces
        BY <2>4, UpdateIsUnderWay DEF UpdateRecord
      <4> QED BY <2>1, <2>4, <4>1 DEF Held
    <3> QED BY <2>1, <3>1, <3>2 DEF History
  <2> QED BY <2>5, <2>7, <2>8 DEF FleetInv
<1> QED BY <1>1, <1>2

LEMMA DeleteKeepsFleet ==
  ASSUME FleetInv, NEW c \in Commands, NEW w \in Workspaces, DeleteDataSource(c, w)
  PROVE  FleetInv'
<1> DEFINE r == IF cmd[c].want = {w} THEN Resting ELSE [cmd[c] EXCEPT !.want = @ \ {w}]
<1>1. /\ cmd[c].pc = "delete" /\ Keeps(c, r) /\ History
      /\ datasources \ {w} \subseteq datasources' /\ datasources' \subseteq datasources
      /\ UNCHANGED <<shown, exists, integrations, update>>
  BY DEF DeleteDataSource, fleet
<1>2. c = "fixup"
  BY <1>1 DEF FleetInv, FixupKnows
<1>3. cmd[c] \in CommandRecord
  BY <1>1, Busy DEF FleetInv
<1>4. CASE cmd[c].want = {w}
  <2>1. Fits(c, r)
    BY <1>4, RestingFits
  <2>2. IntTypes'
    BY <1>1, <2>1, KeepsTypes DEF FleetInv, IntTypes, Fits
  <2> QED BY <1>1, <1>2, <2>1, <2>2, CommandStep, UpdateStays DEF FleetInv
<1>5. CASE cmd[c].want # {w}
  <2>1. r \in CommandRecord /\ r.pc = "delete" /\ r.want = cmd[c].want \ {w}
    BY <1>1, <1>3, <1>5 DEF CommandRecord
  <2>2. cmd[c].want \subseteq datasources \cap (orphaned \cup Elsewhere)
    BY <1>1, <1>2 DEF FleetInv, FixupKnows
  <2> HIDE DEF r
  <2>3. r.want \subseteq datasources' \cap (orphaned' \cup Elsewhere)
    BY <1>1, <2>1, <2>2 DEF History
  <2>4. Fits(c, r)
    BY <1>2, <2>1, <2>3 DEF Fits
  <2>5. IntTypes'
    BY <1>1, <2>1, KeepsTypes DEF FleetInv, IntTypes
  <2> QED BY <1>1, <1>2, <2>4, <2>5, CommandStep, UpdateStays DEF FleetInv
<1> QED BY <1>4, <1>5

LEMMA ServiceKeepsFleet ==
  ASSUME FleetInv, History, UNCHANGED cmd,
         shown' \subseteq exists', exists' \subseteq Workspaces,
         integrations' \subseteq Workspaces, datasources' \subseteq Workspaces,
         datasources \subseteq datasources', update' \in {update, NoUpdate}
  PROVE  FleetInv'
<1>1. IntTypes'
  BY DEF FleetInv, IntTypes
<1>2. CleanKnows' /\ FixupKnows'
  BY <1>1, OthersStep
<1>3. UpdateKnows'
  BY <1>1, UpdateStays DEF UpdateKnows
<1> QED BY <1>1, <1>2, <1>3 DEF FleetInv

LEMMA UpdateEndsKeepsFleet == FleetInv /\ UpdateEnds => FleetInv'
<1> SUFFICES ASSUME FleetInv, UpdateEnds
             PROVE  FleetInv'
  OBVIOUS
<1>1. update.want \subseteq Workspaces
  BY DEF FleetInv, IntTypes, UpdateEnds, UpdateRecord
<1> QED BY <1>1, ServiceKeepsFleet DEF FleetInv, IntTypes, UpdateEnds, fleet

LEMMA WorkspacesKeepFleet ==
  ASSUME FleetInv, NEW w \in Workspaces, WorkspaceChanges(w) \/ WorkspaceShows(w)
  PROVE  FleetInv'
<1>1. /\ History /\ UNCHANGED <<cmd, integrations, datasources, update>>
      /\ shown' \subseteq exists' /\ exists' \subseteq Workspaces
  BY DEF FleetInv, IntTypes, WorkspaceChanges, WorkspaceShows, grafana
<1> QED BY <1>1, ServiceKeepsFleet DEF FleetInv, IntTypes

LEMMA InitFleetInv == IntInit => FleetInv
BY DEF IntInit, FleetInv, IntTypes, CleanKnows, UpdateKnows, FixupKnows, Resting

LEMMA NextFleetInv == FleetInv /\ [IntNext]_intVars => FleetInv'
<1> SUFFICES ASSUME FleetInv, [IntNext]_intVars
             PROVE  FleetInv'
  OBVIOUS
<1>1. ASSUME NEW c \in Commands, CommandGoesOn(c)
      PROVE  FleetInv'
  <2>1. CASE PollUntilDone(c) \/ NothingToDelete(c)
    BY <2>1, RestingFits, LocalStep DEF PollUntilDone, NothingToDelete
  <2> QED BY <1>1, <2>1, NextPageKeepsFleet, DecideKeepsFleet, WaitKeepsFleet,
             BeginUpdateKeepsFleet, DeleteKeepsFleet DEF CommandGoesOn
<1>2. ASSUME NEW c \in Commands, GiveUpCommand(c)
      PROVE  FleetInv'
  <2>1. Keeps(c, Resting) /\ History /\ UNCHANGED <<fleet, grafana>>
    BY <1>2 DEF GiveUpCommand
  <2>2. IntTypes'
    BY <2>1, KeepsTypes DEF FleetInv, IntTypes, fleet, grafana
  <2> QED BY <2>1, <2>2, RestingFits, CommandStep, UpdateStays DEF FleetInv, grafana
<1>3. CASE UNCHANGED intVars
  BY <1>3 DEF intVars, fleet, grafana, IntHistory, FleetInv, IntTypes, CleanKnows,
              UpdateKnows, FixupKnows
<1> QED BY <1>1, <1>2, <1>3, BeginKeepsFleet, UpdateEndsKeepsFleet, WorkspacesKeepFleet
       DEF IntNext

-----------------------------------------------------------------------------
(* The theorems *)

\* FleetInv holds in every behaviour: clean and fixup, and the update that the
\* service is at work on, hold nothing against a workspace that they should not.
THEOREM FleetInvariant == IntSpec => []FleetInv
BY InitFleetInv, NextFleetInv, PTL DEF IntSpec

LEMMA SparesStep ==
  FleetInv /\ [IntNext]_intVars =>
    [/\ update.by = "clean" /\ integrations' # integrations =>
          (integrations \cap update.read) \ integrations' \subseteq dangling
     /\ datasources \ datasources' \subseteq orphaned \cup Elsewhere]_intVars
<1> SUFFICES ASSUME FleetInv, IntNext
             PROVE  /\ update.by = "clean" /\ integrations' # integrations =>
                         (integrations \cap update.read) \ integrations' \subseteq dangling
                    /\ datasources \ datasources' \subseteq orphaned \cup Elsewhere
  OBVIOUS
<1>1. CASE UNCHANGED <<integrations, datasources>>
  BY <1>1
<1>2. ASSUME NEW c \in Commands, NEW w \in Workspaces, DeleteDataSource(c, w)
      PROVE  UNCHANGED integrations /\ datasources \ datasources' \subseteq orphaned \cup Elsewhere
  BY <1>2 DEF DeleteDataSource, FleetInv, FixupKnows
<1>3. CASE UpdateEnds
  <2>1. update # NoUpdate /\ datasources \subseteq datasources'
    BY <1>3 DEF UpdateEnds
  <2>2. integrations' # integrations => integrations' = update.want
    BY <1>3 DEF UpdateEnds
  <2> QED BY <2>1, <2>2 DEF FleetInv, UpdateKnows
<1>4. ASSUME NEW c \in Commands,
             BeginCommand(c) \/ (\E page \in SUBSET Workspaces : NextPage(c, page))
             \/ Decide(c) \/ WaitForReady(c) \/ BeginUpdate(c) \/ PollUntilDone(c)
             \/ NothingToDelete(c) \/ GiveUpCommand(c)
      PROVE  UNCHANGED <<integrations, datasources>>
  BY <1>4 DEF BeginCommand, NextPage, Decide, WaitForReady, BeginUpdate, PollUntilDone,
              NothingToDelete, GiveUpCommand, Local, grafana
<1>5. ASSUME NEW w \in Workspaces, WorkspaceChanges(w) \/ WorkspaceShows(w)
      PROVE  UNCHANGED <<integrations, datasources>>
  BY <1>5 DEF WorkspaceChanges, WorkspaceShows, grafana
<1> QED BY <1>1, <1>2, <1>3, <1>4, <1>5 DEF IntNext, CommandGoesOn

\* Nothing that was to be seen all the while is taken off by clean, and no
\* datasource with a workspace is deleted by fixup, whoever does what meanwhile.
THEOREM LiveIsSpared == IntSpec => SparesWhatIsLive
<1>1. FleetInv /\ [IntNext]_intVars =>
        [/\ update.by = "clean" /\ integrations' # integrations =>
              (integrations \cap update.read) \ integrations' \subseteq dangling
         /\ datasources \ datasources' \subseteq orphaned \cup Elsewhere]_intVars
  BY SparesStep
<1> QED BY <1>1, FleetInvariant, PTL DEF IntSpec, SparesWhatIsLive

-----------------------------------------------------------------------------
(* EntityGroups: type correctness *)

Turning == ready \subseteq Clusters /\ turns \in 0..MaxTurns

\* A cluster that failed is not come back to.
Apart(r) == r # AtRest => r.left \cap r.failed = {}

LEMMA NextApart ==
  ASSUME GInv, [GroupNext]_groupVars, NEW s \in Syncs, Apart(syncing[s])
  PROVE  Apart(syncing'[s])
<1> DEFINE q == syncing[s]
<1>1. ASSUME NEW t \in Syncs, NEW r, Holds(t, r), t = s => Apart(r)
      PROVE  Apart(syncing'[s])
  BY <1>1 DEF GInv, Holds
<1>2. Apart(AtRest)
  BY DEF Apart
<1>3. CASE UNCHANGED syncing
  BY <1>3
<1>4. ASSUME NEW t \in Syncs, NEW env \in Environments, BeginSync(t, env)
      PROVE  Apart(syncing'[s])
  <2> DEFINE r == [pc |-> "discover", env |-> env, found |-> [c \in {} |-> None],
                   members |-> {}, left |-> {}, failed |-> {}, todo |-> GroupNames,
                   written |-> {}]
  <2>1. Holds(t, r) /\ Apart(r)
    BY <1>4 DEF BeginSync, Apart
  <2> QED BY <1>1, <2>1
<1>5. q.pc \in {"discover", "execute", "done"} => q \in SyncRecord /\ SyncInv(q) /\ q # AtRest
  BY NotAtRest DEF GInv, AtRest
<1>6. ASSUME NEW t \in Syncs, NEW page \in SUBSET Clusters, DiscoverPage(t, page)
      PROVE  Apart(syncing'[s])
  <2>1. PICK f : Holds(t, [syncing[t] EXCEPT !.found = f]) /\ syncing[t].pc = "discover"
    BY <1>6 DEF DiscoverPage
  <2>2. t = s => Apart([syncing[t] EXCEPT !.found = f])
    BY <1>5, <2>1 DEF Apart, SyncRecord
  <2> QED BY <1>1, <2>1, <2>2
<1>7. ASSUME NEW t \in Syncs, CompleteSync(t)
      PROVE  Apart(syncing'[s])
  <2> DEFINE r == [syncing[t] EXCEPT !.pc = "execute", !.members = Selected(syncing[t]),
                                     !.left = Selected(syncing[t])]
  <2>1. syncing[t].pc = "discover" /\ (Holds(t, AtRest) \/ Holds(t, r))
    BY <1>7 DEF CompleteSync
  <2>2. t = s => Apart(r)
    BY <1>5, <2>1 DEF Apart, SyncRecord, SyncInv
  <2> QED BY <1>1, <1>2, <2>1, <2>2
<1>8. ASSUME NEW t \in Syncs, NEW c \in Clusters, NEW g \in GroupNames, ExecuteKQL(t, c, g)
      PROVE  Apart(syncing'[s])
  <2> DEFINE w == syncing[t].written \cup {<<c, g>>}
             d == syncing[t].todo \ {g}
             r == [syncing[t] EXCEPT !.todo = d, !.written = w]
  <2>1. syncing[t].pc = "execute" /\ (Holds(t, r) \/ Holds(t, Leave(r, c)))
    BY <1>8 DEF ExecuteKQL, InHand
  <2> HIDE DEF w, d
  <2>2. t = s => Apart(r) /\ Apart(Leave(r, c))
    BY <1>5, <2>1 DEF Apart, SyncRecord, Leave
  <2> QED BY <1>1, <2>1, <2>2
<1>9. ASSUME NEW t \in Syncs, NEW c \in Clusters, KQLFails(t, c)
      PROVE  Apart(syncing'[s])
  <2>1. syncing[t].pc = "execute" /\ Holds(t, Break(syncing[t], c))
    BY <1>9 DEF KQLFails, InHand
  <2>2. t = s => Apart(Break(syncing[t], c))
    BY <1>5, <2>1 DEF Apart, SyncRecord, Leave, Break
  <2> QED BY <1>1, <2>1, <2>2
<1>10. ASSUME NEW t \in Syncs, FinishSync(t)
       PROVE  Apart(syncing'[s])
  <2>1. syncing[t].pc = "execute" /\ Holds(t, [syncing[t] EXCEPT !.pc = "done"])
    BY <1>10 DEF FinishSync
  <2>2. t = s => Apart([syncing[t] EXCEPT !.pc = "done"])
    BY <1>5, <2>1 DEF Apart, SyncRecord
  <2> QED BY <1>1, <2>1, <2>2
<1>11. ASSUME NEW t \in Syncs, LeaveSync(t) \/ GiveUpSync(t)
       PROVE  Apart(syncing'[s])
  BY <1>1, <1>2, <1>11 DEF LeaveSync, GiveUpSync
<1>12. ASSUME NEW c \in Clusters, TagShows(c) \/ Provisioned(c) \/ Updating(c)
       PROVE  UNCHANGED syncing
  BY <1>12 DEF TagShows, Provisioned, Updating
<1>13. CASE UNCHANGED groupVars
  BY <1>3, <1>13 DEF groupVars
<1> QED BY <1>3, <1>4, <1>6, <1>7, <1>8, <1>9, <1>10, <1>11, <1>12, <1>13 DEF GroupNext, SyncGoesOn

LEMMA NextTurning == Turning /\ [GroupNext]_groupVars => Turning'
<1> SUFFICES ASSUME Turning, [GroupNext]_groupVars PROVE Turning'
  OBVIOUS
<1>1. ASSUME NEW s \in Syncs, \/ \E env \in Environments : BeginSync(s, env)
                              \/ SyncGoesOn(s)
      PROVE  UNCHANGED <<ready, turns>>
  BY <1>1 DEF BeginSync, SyncGoesOn, DiscoverPage, CompleteSync, ExecuteKQL, FinishSync,
              LeaveSync, Shared
<1>2. ASSUME NEW s \in Syncs, \/ GiveUpSync(s) \/ \E c \in Clusters : KQLFails(s, c)
      PROVE  ready' = ready /\ turns < MaxTurns /\ turns' = turns + 1
  BY <1>2 DEF GiveUpSync, KQLFails
<1>3. ASSUME NEW c \in Clusters, TagShows(c) \/ Provisioned(c) \/ Updating(c)
      PROVE  Turning'
  BY <1>3, MaxTurnsAssumption DEF TagShows, Provisioned, Updating, Turning
<1>4. CASE UNCHANGED groupVars
  BY <1>4 DEF groupVars, Turning
<1> QED BY <1>1, <1>2, <1>3, <1>4, MaxTurnsAssumption DEF GroupNext, Turning

AllApart == \A s \in Syncs : Apart(syncing[s])

LEMMA NextAllApart == GInv /\ AllApart /\ [GroupNext]_groupVars => AllApart'
BY NextApart DEF AllApart

\* However syncs overlap, each holds what it can hold, and never a cluster that is
\* both to come and failed (kustoctl: the loop over clusters in executeKQL's caller).
THEOREM GroupTypes == GroupSpec => []GroupTypeOK
<1>1. GInv /\ Turning /\ AllApart => GroupTypeOK
  <2> SUFFICES ASSUME GInv, Turning, AllApart PROVE GroupTypeOK
    OBVIOUS
  <2>1. ASSUME NEW s \in Syncs, syncing[s] # AtRest
        PROVE  /\ syncing[s].pc \in {"discover", "execute", "done"}
               /\ syncing[s].env \in Environments
               /\ DOMAIN syncing[s].found \subseteq Clusters
               /\ syncing[s].members \cup syncing[s].left \cup syncing[s].failed \subseteq Clusters
               /\ syncing[s].left \cap syncing[s].failed = {}
               /\ syncing[s].todo \subseteq GroupNames
               /\ syncing[s].written \subseteq Clusters \X GroupNames
    <3>1. syncing[s] \in SyncRecord /\ SyncInv(syncing[s])
      BY <2>1 DEF GInv, SyncInv
    <3>2. syncing[s].found \in Discovery
      BY <3>1 DEF SyncRecord
    <3>3. DOMAIN syncing[s].found \subseteq Clusters
      BY <3>2 DEF Discovery
    <3>4. syncing[s].left \cap syncing[s].failed = {}
      BY <2>1 DEF AllApart, Apart
    <3> QED BY <3>1, <3>3, <3>4 DEF SyncRecord
  <2> QED BY <2>1 DEF GInv, Turning, GroupTypeOK
<1>2. GroupInit => Turning
  BY MaxTurnsAssumption DEF GroupInit, Turning
<1>3. Turning /\ [GroupNext]_groupVars => Turning'
  BY NextTurning
<1>4. GroupSpec => []GInv
  BY GroupInvariant
<1>5. GroupInit => AllApart
  BY DEF GroupInit, AllApart, Apart
<1>6. GInv /\ AllApart /\ [GroupNext]_groupVars => AllApart'
  BY NextAllApart
<1> QED BY <1>1, <1>2, <1>3, <1>4, <1>5, <1>6, PTL DEF GroupSpec

-----------------------------------------------------------------------------
(* GrafanaIntegrations: type correctness *)

\* The instance is updating as long as an update is under way.
ServiceType ==
  /\ instance \in {"absent", "Succeeded", "Updating", "Failed"}
  /\ instance = "Updating" <=> update # NoUpdate
  /\ dangling \subseteq Held /\ orphaned \subseteq datasources
  /\ troubles \in 0..MaxTroubles

LEMMA NextServiceType ==
  ASSUME FleetInv, ServiceType, [IntNext]_intVars
  PROVE  ServiceType'
<1> DEFINE Same == UNCHANGED <<instance, update>>
<1>1. CASE UNCHANGED intVars
  BY <1>1 DEF intVars, fleet, grafana, IntHistory, ServiceType, Held
<1>2. IntNext => History
  BY DEF IntNext, BeginCommand, CommandGoesOn, GiveUpCommand, UpdateEnds, WorkspaceChanges,
         WorkspaceShows, NextPage, Decide, WaitForReady, BeginUpdate, PollUntilDone,
         DeleteDataSource, NothingToDelete, Local
<1>3. History => dangling' \subseteq Held' /\ orphaned' \subseteq datasources'
  BY DEF History
<1>4. IntNext => troubles' = troubles \/ (troubles < MaxTroubles /\ troubles' = troubles + 1)
  BY DEF IntNext, BeginCommand, CommandGoesOn, GiveUpCommand, UpdateEnds, WorkspaceChanges,
         WorkspaceShows, NextPage, Decide, WaitForReady, BeginUpdate, PollUntilDone,
         DeleteDataSource, NothingToDelete, Local
<1>5. ASSUME NEW c \in Commands, BeginCommand(c) \/ GiveUpCommand(c) \/ NothingToDelete(c)
                                 \/ Decide(c) \/ WaitForReady(c) \/ PollUntilDone(c)
      PROVE  Same
  BY <1>5 DEF BeginCommand, GiveUpCommand, NothingToDelete, Decide, WaitForReady,
              PollUntilDone, Local, grafana
<1>6. ASSUME NEW c \in Commands, NEW page \in SUBSET Workspaces, NextPage(c, page)
      PROVE  Same
  BY <1>6 DEF NextPage, Local, grafana
<1>7. ASSUME NEW c \in Commands, NEW w \in Workspaces, DeleteDataSource(c, w)
      PROVE  Same
  BY <1>7 DEF DeleteDataSource
<1>8. ASSUME NEW c \in Commands, BeginUpdate(c)
      PROVE  Same \/ (instance' = "Updating" /\ update' # NoUpdate)
  <2>1. CASE instance = "Updating" \/ (instance = "absent" /\ c # "manage")
    BY <1>8, <2>1 DEF BeginUpdate, Local, grafana
  <2>2. CASE ~(instance = "Updating" \/ (instance = "absent" /\ c # "manage"))
    <3>1. update' = [by |-> c, want |-> cmd[c].want, read |-> cmd[c].read]
          /\ instance' = "Updating" /\ cmd[c].pc = "write"
      BY <1>8, <2>2 DEF BeginUpdate
    <3>2. cmd[c] \in CommandRecord
      BY <3>1, Busy DEF FleetInv
    <3>3. update' \in UpdateRecord
      BY <3>1, <3>2 DEF UpdateRecord, CommandRecord
    <3> QED BY <3>1, <3>3, UpdateIsUnderWay
  <2> QED BY <2>1, <2>2
<1>9. UpdateEnds => instance' \in {"Succeeded", "Failed"} /\ update' = NoUpdate
  BY DEF UpdateEnds
<1>10. ASSUME NEW w \in Workspaces, WorkspaceChanges(w) \/ WorkspaceShows(w)
       PROVE  Same
  BY <1>10 DEF WorkspaceChanges, WorkspaceShows, grafana
<1>11. IntNext => Same \/ (instance' = "Updating" /\ update' # NoUpdate)
                       \/ (instance' \in {"Succeeded", "Failed"} /\ update' = NoUpdate)
  BY <1>5, <1>6, <1>7, <1>8, <1>9, <1>10 DEF IntNext, CommandGoesOn
<1>12. CASE IntNext
  <2>1. /\ (instance \in {"absent", "Succeeded", "Updating", "Failed"})'
        /\ (instance = "Updating" <=> update # NoUpdate)'
    BY <1>11, <1>12 DEF ServiceType
  <2>2. (troubles \in 0..MaxTroubles)'
    BY <1>4, <1>12, MaxTroublesAssumption DEF ServiceType
  <2> QED BY <1>2, <1>3, <1>12, <2>1, <2>2 DEF ServiceType
<1> QED BY <1>1, <1>12

\* The commands, the service and the workspaces are always in a state that they can be
\* in: the instance is updating exactly while an update is under way, and what is noted
\* about an integration or a datasource is about one that there is.
THEOREM IntegrationTypes == IntSpec => []IntTypeOK
<1>1. FleetInv /\ ServiceType => IntTypeOK
  <2> SUFFICES ASSUME FleetInv, ServiceType PROVE IntTypeOK
    OBVIOUS
  <2>1. IntTypes
    BY DEF FleetInv
  <2>2. update # NoUpdate => update.want \subseteq Workspaces
    BY <2>1 DEF IntTypes, UpdateRecord
  <2>3. ASSUME NEW c \in Commands, cmd[c] # Resting
        PROVE  /\ cmd[c].pc \in {"discover", "wait", "write", "poll", "delete"}
               /\ cmd[c].read \cup cmd[c].found \cup cmd[c].want \subseteq Workspaces
    BY <2>1, <2>3 DEF IntTypes, CommandRecord
  <2> QED BY <2>1, <2>2, <2>3 DEF IntTypes, ServiceType, IntTypeOK
<1>2. IntInit => ServiceType
  BY MaxTroublesAssumption DEF IntInit, ServiceType
<1>3. FleetInv /\ ServiceType /\ [IntNext]_intVars => ServiceType'
  BY NextServiceType
<1>4. IntSpec => []FleetInv
  BY FleetInvariant
<1> QED BY <1>1, <1>2, <1>3, <1>4, PTL DEF IntSpec

-----------------------------------------------------------------------------
(* Side by side *)

\* However syncs of entity groups, changes of integrations and synchronisations of
\* dashboards overlap, each is where its code can be and holds what it can hold.
THEOREM FleetTypes == FleetSpec => []TypesOK
<1>1. GroupTypeOK /\ IntTypeOK /\ BoardsTypeOK => TypesOK
  BY DEF TypesOK
<1> QED
  BY <1>1, GroupTypes, IntegrationTypes, BoardTypes, PTL DEF FleetSpec
=============================================================================
