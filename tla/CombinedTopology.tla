-------------------------- MODULE CombinedTopology --------------------------
(***************************************************************************)
(* LoadCombined of pipelines/topology/types.go: the services of several    *)
(* topology files, each a forest of its own, are put together.  A          *)
(* top-level service may name a parent in another file; such services are  *)
(* deferred until every file is read, and then attached one by one, in the *)
(* order they were met, to a tree that may itself be waiting.  stamped is  *)
(* handed down in each file when it is loaded, and once more in the end.   *)
(*                                                                         *)
(* A service is a node of a file's tree; its serviceGroup is its name.     *)
(* Files are read in an arbitrary order.                                   *)
(***************************************************************************)
EXTENDS Acyclicity, Sequences, Integers, FiniteSets

CONSTANTS
  Services,   \* the nodes of all files
  NoService,  \* no parent
  Names,      \* service groups
  NoName,     \* no externalParent
  Files       \* the possible contents of the files: records as below

(***************************************************************************)
(* local[s] is the service that s is nested in, top[s] the top-level       *)
(* service of the tree of s, external[s] the externalParent of s, and      *)
(* single whether all of it is in one file, and declared what the file     *)
(* says of being stamped.                                                  *)
(***************************************************************************)
Marks == {"yes", "no", "unset"}

IsForest(f) ==
  /\ f.local \in [Services -> Services \cup {NoService}]
  /\ f.top \in [Services -> Services]
  /\ \A s \in Services :
       f.top[s] = IF f.local[s] = NoService THEN s ELSE f.top[f.local[s]]
  /\ \A s \in Services : f.local[f.top[s]] = NoService
  /\ Acyclic(Services, [s \in Services |-> {f.local[s]} \ {NoService}])

IsFile(f) ==
  /\ IsForest(f)
  /\ f.name \in [Services -> Names]
  /\ f.external \in [Services -> Names \cup {NoName}]
  /\ f.single \in BOOLEAN
  /\ f.declared \in [Services -> Marks]

ASSUME ServicesAssumption ==
  /\ IsFiniteSet(Services)
  /\ NoService \notin Services /\ NoName \notin Names
ASSUME FilesAssumption == \A f \in Files : IsFile(f)

VARIABLES
  file,      \* what the files hold: never changed
  unread,    \* top-level services that have not been read
  mapped,    \* keys of serviceGroupToTopologyDir
  deferred,  \* servicesWithExternalParents
  next,      \* how many of them are attached
  roots,     \* combinedTopology.Services
  parent,    \* parent[s]: the service that has s among its Children
  tree,      \* tree[s]: the root of the tree that s is in
  stamped,   \* Stamped: yes, no or nil
  result

vars == <<file, unread, mapped, deferred, next, roots, parent, tree, stamped,
          result>>

Tops == {s \in Services : file.local[s] = NoService}
In(t) == {s \in Services : file.top[s] = t}

TypeOK ==
  /\ IsFile(file)
  /\ unread \subseteq Tops
  /\ mapped \subseteq Names
  /\ deferred \in Seq(Tops)
  /\ next \in 0..Len(deferred)
  /\ roots \subseteq Tops
  /\ parent \in [Services -> Services \cup {NoService}]
  /\ tree \in [Services -> Services]
  /\ stamped \in [Services -> Marks]
  /\ result \in {"none", "ok", "duplicate", "nested", "unknown parent"}

Init ==
  /\ file \in Files
  /\ unread = Tops
  /\ mapped = {} /\ deferred = << >> /\ next = 0 /\ roots = {}
  /\ parent = file.local /\ tree = file.top
  /\ stamped = file.declared
  /\ result = "none"

-----------------------------------------------------------------------------

Fails(why) ==
  /\ result' = why
  /\ UNCHANGED <<file, unread, mapped, deferred, next, roots, parent, tree,
                 stamped>>

\* propagateStamped on the trees of S: top down, a service that leaves it open
\* is stamped when its parent is.
Inherits(S, up) ==
  \E T \in SUBSET {s \in S : stamped[s] = "unset"} :
    /\ stamped' = [s \in Services |-> IF s \in T THEN "yes" ELSE stamped[s]]
    /\ \A s \in S : stamped[s] = "unset" =>
         (s \in T <=> up[s] # NoService /\ stamped'[up[s]] = "yes")

\* validateNoExternalParentInChildren
NestedExternal(t) ==
  \E s \in In(t) \ {t} : file.external[s] # NoName

\* accumulateServiceGroupToTopologyDirMapping: names are unique everywhere.
Duplicate(t) ==
  \/ \E s \in In(t) : file.name[s] \in mapped
  \/ \E r, s \in In(t) : r # s /\ file.name[r] = file.name[s]

Deferred(t) == file.external[t] # NoName /\ ~file.single

\* The loop over the files, one top-level service at a time.
Read(t) ==
  /\ result = "none" /\ t \in unread
  /\ \/ NestedExternal(t) /\ Fails("nested")
     \/ ~NestedExternal(t) /\ Duplicate(t) /\ Fails("duplicate")
     \/ /\ ~NestedExternal(t) /\ ~Duplicate(t)
        /\ unread' = unread \ {t}
        /\ mapped' = mapped \cup {file.name[s] : s \in In(t)}
        /\ IF Deferred(t) THEN deferred' = Append(deferred, t) /\ UNCHANGED roots
                          ELSE roots' = roots \cup {t} /\ UNCHANGED deferred
        /\ Inherits(In(t), file.local)
        /\ UNCHANGED <<file, next, parent, tree, result>>

svc == deferred[next + 1]

\* combinedTopology.Lookup
InCombined(p) == tree[p] \in roots

\* Mutant: the search among the deferred services begins with svc itself.
WaitingOrSelf(p) == \E j \in next + 1..Len(deferred) : tree[p] = deferred[j]
\* The search among the deferred services that come later.
Waiting(p)       == \E j \in next + 2..Len(deferred) : tree[p] = deferred[j]

\* The services that svc's externalParent may resolve to.
External == {p \in Services : /\ file.name[p] = file.external[svc]
                              /\ InCombined(p) \/ Waiting(p)}

\* The loop over the deferred services.
Attach ==
  /\ result = "none" /\ unread = {} /\ next < Len(deferred)
  /\ \/ External = {} /\ Fails("unknown parent")
     \/ \E p \in External :
          /\ parent' = [parent EXCEPT ![svc] = p]
          /\ tree' = [s \in Services |-> IF tree[s] = svc THEN tree[p]
                                                          ELSE tree[s]]
          /\ next' = next + 1
          /\ UNCHANGED <<file, unread, mapped, deferred, roots, stamped, result>>

Finish ==
  /\ result = "none" /\ unread = {} /\ next = Len(deferred)
  /\ result' = "ok"
  /\ Inherits(Services, parent)
  /\ UNCHANGED <<file, unread, mapped, deferred, next, roots, parent, tree>>

Next == (\E t \in Services : Read(t)) \/ Attach \/ Finish

Spec == Init /\ [][Next]_vars

-----------------------------------------------------------------------------
(* What the files ask for *)

\* Everyone's parent, as the files name it.
Named(s) ==
  IF file.local[s] # NoService THEN {file.local[s]}
  ELSE IF Deferred(s) THEN {p \in Services : file.name[p] = file.external[s]}
  ELSE {}

Asked == [s \in Services |-> Named(s)]

Up == [s \in Services |-> {parent[s]} \ {NoService}]

UniqueNames == \A r, s \in Services : file.name[r] = file.name[s] => r = s

\* Success: no service of any file is lost on the way, every one hangs under
\* the parent its file names, and the result is a forest, although services
\* are attached to trees that are themselves not yet in the combined topology.
Complete ==
  result = "ok" =>
    /\ \A s \in Services : tree[s] \in roots
    /\ \A s \in Services : Up[s] = Asked[s]
    /\ Acyclic(Services, Up)

\* Failure: a parent is reported missing only when no file has it, or when
\* the external parents lead in a circle; never because of the order of files.
RejectsOnlyBroken ==
  result = "unknown parent" =>
    \/ Named(svc) = {}
    \/ \E C \in SUBSET Services : Circular(C, Asked)

\* What s is, given what the file says of it and what its parent in up is.
Inherited(s, up) ==
  IF file.declared[s] = "unset" /\ up[s] # NoService /\ stamped[up[s]] = "yes"
    THEN "yes" ELSE file.declared[s]

\* Handing down the mark twice, in the files and across them, is the same as
\* handing it down once in the whole forest: nothing that the first walk has
\* written is taken for a service's own word by the second.
StampsInherited ==
  result = "ok" => \A s \in Services : stamped[s] = Inherited(s, parent)

\* In whatever order files are read, nothing is lost, a parent that is there is
\* found, and marks are handed down alike.
LoadsRightly == Complete /\ RejectsOnlyBroken /\ StampsInherited

-----------------------------------------------------------------------------
(* Why *)

Attached == {deferred[i] : i \in 1..next}
Later    == {deferred[i] : i \in next + 1..Len(deferred)}

\* Every service is in the tree of a root, of a deferred service that is not
\* yet attached, or of one not yet read.
TreeInv ==
  /\ \A s \in Services : tree[s] \in roots \cup Later \cup unread
  /\ \A s \in Services : IF parent[s] = NoService
                           THEN tree[s] = s ELSE tree[parent[s]] = tree[s]
  /\ Acyclic(Services, Up)

\* Who is deferred, and that each is met once.
DeferredInv ==
  /\ \A i \in 1..Len(deferred) : Deferred(deferred[i])
  /\ \A i, j \in 1..Len(deferred) : deferred[i] = deferred[j] => i = j
  /\ \A i \in 1..Len(deferred) : deferred[i] \notin unread
  /\ \A t \in roots : ~Deferred(t) /\ t \notin unread
  /\ next > 0 => unread = {}

\* Names are unique among what was read.
NamesInv ==
  /\ mapped = {file.name[s] : s \in {s \in Services : file.top[s] \notin unread}}
  /\ \A r, s \in Services :
       file.top[r] \notin unread /\ file.top[s] \notin unread
         /\ file.name[r] = file.name[s] => r = s

\* Parents so far are those the files name.
ParentInv ==
  \A s \in Services :
    IF file.local[s] = NoService /\ s \notin Attached
      THEN parent[s] = NoService
      ELSE Asked[s] = {parent[s]} /\ parent[s] \in Services

\* Half-way, the mark is handed down in what is loaded.
StampInv ==
  result # "ok" =>
    \A s \in Services :
      stamped[s] = IF file.top[s] \in unread THEN file.declared[s]
                                             ELSE Inherited(s, file.local)

LoadInv == /\ TypeOK /\ TreeInv /\ DeferredInv /\ NamesInv /\ ParentInv
           /\ Complete /\ RejectsOnlyBroken

IInv == LoadInv /\ StampInv /\ StampsInherited
=============================================================================
