--------------------------- MODULE HelmDiagnostics ---------------------------
(***************************************************************************)
(* tools/helm/diagnostics.go: after a rollout, the resources that helm     *)
(* reports are sorted into pods, owners of pods and others, and queries of *)
(* the logs are offered for them.  Pods are found by the prefix of their   *)
(* name, so of the owners in a namespace only those are kept that no other *)
(* one is a prefix of: that is what addOwnerNoDuplicates is for.           *)
(***************************************************************************)
EXTENDS Naturals, Sequences, FiniteSets, SequencesExt

CONSTANTS
  Spaces,      \* namespaces of the cluster
  Names,       \* names are sequences of letters
  Releases     \* what helm may report: sequences of resources

(***************************************************************************)
(* A resource is an object or a list of objects.  An object whose meta     *)
(* data cannot be read, or a pod that cannot be converted, is "broken"; so *)
(* is a list that is none.                                                 *)
(***************************************************************************)
Kinds    == {"pod", "owner", "other", "broken"}
Object   == [kind : Kinds, space : Spaces, name : Names]
List     == [items : Seq(Object)]
Settings == {"endpoint", "database", "table"}

ASSUME NamesAssumption == Names \subseteq Seq(Nat)
ASSUME ReleasesAssumption == Releases \subseteq Seq(Object \cup List)

VARIABLES
  reported,      \* resources that are left to look at
  seen,          \* the objects looked at so far
  ownerRefs,     \* [namespace -> names], in the order they were added
  resources, pods,
  kusto,         \* the settings that are given; never changed
  links          \* the queries offered, once all is looked at

diagVars == <<reported, seen, ownerRefs, resources, pods, kusto, links>>

NotYet == {"not yet"}

DiagTypeOK ==
  /\ reported \in Seq(Object \cup List)
  /\ seen \subseteq Object /\ resources \subseteq Object /\ pods \subseteq Object
  /\ ownerRefs \in [Spaces -> Seq(Names)]
  /\ kusto \subseteq Settings
  /\ links \in (SUBSET {"events", "pods", "owners", "namespace"}) \cup {NotYet}

DiagInit ==
  /\ reported \in Releases /\ seen = {}
  /\ ownerRefs = [ns \in Spaces |-> << >>]
  /\ resources = {} /\ pods = {}
  /\ kusto \in SUBSET Settings /\ links = NotYet

-----------------------------------------------------------------------------

Kin(m, n) == IsPrefix(m, n) \/ IsPrefix(n, m)

\* Mutant: of two owners the one with the longer name stays.
KeepLonger(names, n) ==
  LET kin == {i \in DOMAIN names : Kin(names[i], n)} IN
  IF kin = {} THEN Append(names, n)
  ELSE LET i == CHOOSE i \in kin : \A j \in kin : i <= j
       IN  IF IsPrefix(n, names[i]) THEN names ELSE Append(RemoveAt(names, i), n)

\* addOwnerNoDuplicates stops at the first name that is a prefix of the new
\* one, or that the new one is a prefix of, which it then replaces.
AddOwner(names, n) ==
  LET kin == {i \in DOMAIN names : Kin(names[i], n)} IN
  IF kin = {} THEN Append(names, n)
  ELSE LET i == CHOOSE i \in kin : \A j \in kin : i <= j
       IN  IF IsPrefix(names[i], n) THEN names ELSE Append(RemoveAt(names, i), n)

\* evaluateResources: the objects of a list are looked at in its place.
Extract ==
  /\ reported # << >> /\ Head(reported) \in List
  /\ reported' = Head(reported).items \o Tail(reported)
  /\ UNCHANGED <<seen, ownerRefs, resources, pods, kusto, links>>

\* processObject, and what evaluateResources and runDiagnostics do with what it
\* returns: an object that is broken is passed over, an owner is added to those of
\* its namespace, in the order in which they were reported.
Process ==
  /\ reported # << >> /\ Head(reported) \in Object
  /\ LET o == Head(reported) IN
     /\ seen' = seen \cup {o}
     /\ pods' = IF o.kind = "pod" THEN pods \cup {o} ELSE pods
     /\ resources' = IF o.kind \in {"owner", "other"} THEN resources \cup {o} ELSE resources
     /\ ownerRefs' = IF o.kind = "owner"
                     THEN [ownerRefs EXCEPT ![o.space] = AddOwner(@, o.name)] ELSE ownerRefs
  /\ reported' = Tail(reported)
  /\ UNCHANGED <<kusto, links>>

\* isKustoConfigured
KustoConfigured == kusto = Settings

\* The links that runDiagnostics logs.
Offers ==
  (IF {"endpoint", "database"} \subseteq kusto /\ resources # {} THEN {"events"} ELSE {})
  \cup (IF KustoConfigured THEN {"namespace"} ELSE {})
  \cup (IF KustoConfigured /\ pods # {} THEN {"pods"} ELSE {})
  \cup (IF KustoConfigured /\ \E ns \in Spaces : ownerRefs[ns] # << >>
          THEN {"owners"} ELSE {})

Offer ==
  /\ reported = << >> /\ links = NotYet
  /\ links' = Offers
  /\ UNCHANGED <<reported, seen, ownerRefs, resources, pods, kusto>>

DiagNext == Extract \/ Process \/ Offer

DiagSpec == DiagInit /\ [][DiagNext]_diagVars

-----------------------------------------------------------------------------
(* Properties *)

\* Whatever owner was reported, in whatever order and next to whichever others,
\* some name that is kept finds its pods ("a safety net to catch any pods that
\* might have been missed", diagnostics.go:360-363); and when queries can be made,
\* every pod is within reach of one: by its own name, or by that of its owner.
OwnersFindTheirPods ==
  /\ \A o \in seen : o.kind = "owner" =>
       \E i \in DOMAIN ownerRefs[o.space] : IsPrefix(ownerRefs[o.space][i], o.name)
  /\ links # NotYet /\ KustoConfigured =>
       \A o \in seen : /\ o.kind = "pod" => "pods" \in links /\ o \in pods
                       /\ o.kind = "owner" => "owners" \in links
=============================================================================
