-------------------------- MODULE TopologyValidation --------------------------
(***************************************************************************)
(* Load and Validate of pipelines/topology/types.go, for one topology      *)
(* file.  Both go through the services in preorder: Load hands down that a *)
(* service is stamped, and Validate carries down whether a parent is;      *)
(* names and entrypoints are looked into at the end.                       *)
(*                                                                         *)
(* The services are numbered in preorder.  That a service group is of the  *)
(* right form is a property of its name.                                   *)
(***************************************************************************)
EXTENDS Naturals, Sequences

CONSTANTS
  Topologies,   \* possible files, as records: see IsTopology
  BadNames      \* service groups not of the form that is asked for

\* parent is 0 for the services at the top.
IsTopology(t) ==
  /\ DOMAIN t = {"parent", "name", "stamped", "entrypoints", "purpose", "pipeline"}
  /\ t.parent \in Seq(Nat)
  /\ \A field \in {"name", "stamped", "purpose", "pipeline"} : DOMAIN t[field] = DOMAIN t.parent
  /\ \A i \in DOMAIN t.parent :
       /\ t.parent[i] \in 0..(i - 1)
       /\ t.stamped[i] \in {"yes", "no", "unset"}
       /\ t.purpose[i] \in {"given", "metadata", "absent"}
       /\ t.pipeline[i] \in {"given", "metadata", "absent"}

ASSUME TopologiesAssumption == \A t \in Topologies : IsTopology(t)

VARIABLES
  topology,    \* the file as loaded
  marked,      \* the last service that propagateStamped has been to
  place,       \* the service that walk comes to next
  below,       \* walk's parentStamped, of each service whose parent was walked
  seenNames, duplicates,
  verdict

topoVars == <<topology, marked, place, below, seenNames, duplicates, verdict>>

Nodes   == DOMAIN topology.parent
Size(t) == Len(t.parent)

TopoTypeOK ==
  /\ IsTopology(topology)
  /\ marked \in 0..Size(topology)
  /\ place \in 1..(Size(topology) + 1)
  /\ below \in [Nodes -> BOOLEAN]
  /\ duplicates \subseteq seenNames
  /\ verdict \in {"none", "ok", "group", "opts out", "no default", "invalid"}

TopoInit ==
  /\ topology \in Topologies
  /\ marked = 0 /\ place = 1
  /\ below = [i \in Nodes |-> FALSE]
  /\ seenNames = {} /\ duplicates = {} /\ verdict = "none"

-----------------------------------------------------------------------------

\* Mutant: the topology is taken as it is written.
AsWritten(i) == topology.stamped[i]

\* A service that leaves it open is stamped when its parent is.
Propagated(i) ==
  IF /\ topology.stamped[i] = "unset" /\ topology.parent[i] # 0
     /\ topology.stamped[topology.parent[i]] = "yes"
  THEN "yes" ELSE topology.stamped[i]

\* propagateStamped, for one service
Load ==
  /\ marked < Size(topology)
  /\ marked' = marked + 1
  /\ topology' = [topology EXCEPT !.stamped[marked + 1] = Propagated(marked + 1)]
  /\ UNCHANGED <<place, below, seenNames, duplicates, verdict>>

\* The field is there, or its default can be read from the metadata.
HasOrDefaults(field) == field \in {"given", "metadata"}

\* effectiveStamped
Handed(i) == below[i] \/ topology.stamped[i] = "yes"

\* Mutant: each root begins with nothing seen.
SeenInTree(i) == IF topology.parent[i] = 0 THEN {} ELSE seenNames

\* v.seen is one set for all roots.
Seen(i) == seenNames

\* walk, for one service: the first thing wrong ends it all.  The defaults are
\* written to a copy of the service, and so are not kept.
Walk ==
  /\ marked = Size(topology) /\ place \in Nodes /\ verdict = "none"
  /\ LET i == place
         name == topology.name[i]
         wrong == CASE name \in BadNames -> "group"
                    [] below[i] /\ topology.stamped[i] = "no" -> "opts out"
                    [] ~ HasOrDefaults(topology.purpose[i])
                       \/ ~ HasOrDefaults(topology.pipeline[i]) -> "no default"
                    [] OTHER -> "none"
     IN /\ verdict' = wrong
        /\ IF wrong \in {"none", "no default"}
           THEN /\ duplicates' = duplicates \cup ({name} \cap Seen(i))
                /\ seenNames' = Seen(i) \cup {name}
           ELSE UNCHANGED <<seenNames, duplicates>>
        /\ IF wrong = "none"
           THEN /\ below' = [j \in Nodes |-> IF topology.parent[j] = i THEN Handed(i)
                                             ELSE below[j]]
                /\ place' = place + 1
           ELSE UNCHANGED <<below, place>>
  /\ UNCHANGED <<topology, marked>>

\* All services are walked: duplicates, and entrypoints that are empty or unknown.
Conclude ==
  /\ marked = Size(topology) /\ place = Size(topology) + 1 /\ verdict = "none"
  /\ verdict' = IF duplicates = {} /\ topology.entrypoints \subseteq seenNames
                THEN "ok" ELSE "invalid"
  /\ UNCHANGED <<topology, marked, place, below, seenNames, duplicates>>

TopoNext == Load \/ Walk \/ Conclude

TopoSpec == TopoInit /\ [][TopoNext]_topoVars

-----------------------------------------------------------------------------
(* Properties *)

Children(i) == {j \in Nodes : topology.parent[j] = i}

WellFormed ==
  /\ \A i, j \in Nodes : i # j => topology.name[i] # topology.name[j]
  /\ \A i \in Nodes : topology.name[i] \notin BadNames
  /\ topology.entrypoints \subseteq {topology.name[i] : i \in Nodes}
  /\ \A i \in Nodes : topology.stamped[i] = "yes" =>
       \A j \in Children(i) : topology.stamped[j] # "no"
  /\ \A i \in Nodes : /\ topology.purpose[i] # "absent"
                      /\ topology.pipeline[i] # "absent"

\* The walk, which stops at the first thing wrong and keeps one set of names for
\* all roots, accepts exactly the topologies that are in order as a whole.
VerdictIsRight ==
  verdict # "none" => (verdict = "ok" <=> WellFormed)

\* In a topology that was loaded and accepted, all that is below a stamped service
\* is stamped itself, so that no reader has to look at its parents.
StampsReachDown ==
  verdict = "ok" => \A i \in Nodes : topology.stamped[i] = "yes" =>
    \A j \in Children(i) : topology.stamped[j] = "yes"

\* A file is accepted exactly when it is in order, and then read the way it was
\* checked: what Load hands down is what the walk hands down.
ValidatesRightly == VerdictIsRight /\ StampsReachDown
===============================================================================
