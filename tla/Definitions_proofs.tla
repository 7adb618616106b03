------------------------- MODULE Definitions_proofs --------------------------
(*****************************************************************************)
(* What the definitions of pipelines and services rest on: pipelines and the   *)
(* edges made of them, topology files, the topology that is put together of    *)
(* many, the search for cycles in the graph, and the layers of configuration.  *)
(*****************************************************************************)
EXTENDS Definitions, ConfigPaths, SchemaPaths, SequenceTheorems, FiniteSetTheorems, TLAPS

-----------------------------------------------------------------------------
(* CombinedTopology: LoadCombined succeeds only with the complete forest that the *)
(* files ask for, and misses a parent only when the files are broken: for any     *)
(* number of services and files, in any order.                                    *)
LEMMA InitLoadInv == Init => LoadInv
<1> SUFFICES ASSUME Init PROVE LoadInv
  OBVIOUS
<1>1. IsFile(file) /\ IsForest(file)
  BY FilesAssumption DEF Init, IsFile
<1>2. TypeOK
  <2>1. << >> \in Seq(Tops) /\ Len(<< >>) = 0
    BY EmptySeq
  <2>2. stamped \in [Services -> Marks]
    BY <1>1, FilesAssumption DEF Init, IsFile
  <2> QED
    BY <1>1, <2>1, <2>2 DEF Init, TypeOK, Tops, IsForest
<1>3. TreeInv
  BY <1>1 DEF Init, TreeInv, Tops, IsForest, Up
<1>4. Len(deferred) = 0
  BY EmptySeq DEF Init
<1>5. DeferredInv
  BY <1>4 DEF Init, DeferredInv
<1>6. \A s \in Services : file.top[s] \in unread
  BY <1>1 DEF Init, Tops, IsForest
<1>7. NamesInv
  BY <1>6 DEF Init, NamesInv
<1>8. Attached = {}
  BY DEF Init, Attached
<1>9. ParentInv
  BY <1>1, <1>8, ServicesAssumption
  DEF Init, ParentInv, IsForest, Asked, Named
<1>10. Complete /\ RejectsOnlyBroken
  BY DEF Init, Complete, RejectsOnlyBroken
<1> QED
  BY <1>2, <1>3, <1>5, <1>7, <1>9, <1>10 DEF LoadInv

-----------------------------------------------------------------------------
(* Reading *)

\* An error ends the run and leaves everything as it was.
LEMMA FailsLoadInv ==
  ASSUME LoadInv, result = "none",
         NEW why \in {"duplicate", "nested", "unknown parent"}, Fails(why),
         why = "unknown parent" => RejectsOnlyBroken'
  PROVE  LoadInv'
<1>1. TypeOK'
  BY DEF Fails, LoadInv, TypeOK, Tops
<1>2. TreeInv' /\ DeferredInv' /\ NamesInv' /\ ParentInv'
  <2>1. TreeInv'
    BY DEF Fails, LoadInv, TreeInv, Later, Up
  <2>2. DeferredInv'
    BY DEF Fails, LoadInv, DeferredInv, Deferred
  <2>3. NamesInv'
    BY DEF Fails, LoadInv, NamesInv
  <2>4. Asked' = Asked /\ Attached' = Attached
    BY DEF Fails, Asked, Named, Deferred, Attached
  <2>5. ParentInv'
    BY <2>4 DEF Fails, LoadInv, ParentInv
  <2> QED
    BY <2>1, <2>2, <2>3, <2>5
<1>3. Complete' /\ RejectsOnlyBroken'
  BY DEF Fails, Complete, RejectsOnlyBroken
<1> QED
  BY <1>1, <1>2, <1>3 DEF LoadInv

\* Handing down a mark leaves marks.
LEMMA InheritsType ==
  ASSUME stamped \in [Services -> Marks], NEW S, NEW up, Inherits(S, up)
  PROVE  stamped' \in [Services -> Marks]
  BY DEF Inherits, Marks

LEMMA ReadLoadInv ==
  ASSUME LoadInv, NEW t \in Services, Read(t)
  PROVE  LoadInv'
<1>1. CASE NestedExternal(t) \/ Duplicate(t)
  BY <1>1, FailsLoadInv DEF Read
<1>2. CASE ~NestedExternal(t) /\ ~Duplicate(t)
  <2> USE <1>2
  <2>1. /\ t \in unread /\ t \in Tops /\ result = "none"
        /\ UNCHANGED <<file, next, parent, tree, result>>
        /\ unread' = unread \ {t}
        /\ mapped' = mapped \cup {file.name[s] : s \in In(t)}
    BY DEF Read, Fails, LoadInv, TypeOK
  <2>2. \/ Deferred(t) /\ deferred' = Append(deferred, t) /\ roots' = roots
        \/ ~Deferred(t) /\ roots' = roots \cup {t} /\ deferred' = deferred
    BY DEF Read, Fails
  <2>3. next = 0 /\ Len(deferred) \in Nat
    BY <2>1, LenProperties DEF LoadInv, TypeOK, DeferredInv
  <2>4. /\ deferred' \in Seq(Tops) /\ Len(deferred') \in Nat
        /\ \A i \in 1..Len(deferred) : deferred'[i] = deferred[i]
        /\ Deferred(t) => /\ Len(deferred') = Len(deferred) + 1
                          /\ deferred'[Len(deferred) + 1] = t
        /\ ~Deferred(t) => deferred' = deferred
    <3>1. deferred \in Seq(Tops)
      BY DEF LoadInv, TypeOK
    <3>2. CASE Deferred(t)
      <4>1. deferred' = Append(deferred, t)
        BY <2>2, <3>2
      <4> QED
        BY <2>1, <2>3, <3>1, <3>2, <4>1, AppendProperties
    <3>3. CASE ~Deferred(t)
      BY <2>2, <2>3, <3>1, <3>3
    <3> QED
      BY <3>2, <3>3
  <2>5. /\ Deferred(t) =>
             1..Len(deferred') = 1..Len(deferred) \cup {Len(deferred) + 1}
        /\ \A i \in 1..Len(deferred') : i \in 1..Len(deferred) \/ deferred'[i] = t
    BY <2>3, <2>4
  <2>6. Tops' = Tops /\ \A s : Deferred(s)' <=> Deferred(s)
    BY <2>1 DEF Tops, Deferred
  <2>7. TypeOK'
    <3>1. IsFile(file)' /\ result' \in {"none"}
      BY <2>1 DEF LoadInv, TypeOK, IsFile, IsForest, Acyclic, Circular
    <3>2. mapped' \subseteq Names
      BY <2>1 DEF LoadInv, TypeOK, IsFile, In
    <3>3. next' \in 0..Len(deferred')
      BY <2>1, <2>3, <2>4
    <3>4. stamped' \in [Services -> Marks]
      BY InheritsType DEF Read, Fails, LoadInv, TypeOK
    <3> QED
      BY <2>1, <2>2, <2>4, <2>6, <3>1, <3>2, <3>3, <3>4 DEF LoadInv, TypeOK
  <2>8. TreeInv'
    <3>1. Later \cup {t} \subseteq Later' \cup roots' /\ Later \subseteq Later'
      BY <2>1, <2>2, <2>3, <2>4, <2>5 DEF Later
    <3>2. Up' = Up
      BY <2>1 DEF Up
    <3> QED
      BY <2>1, <2>2, <3>1, <3>2 DEF LoadInv, TreeInv
  <2>9. DeferredInv'
    <3>1. \A i \in 1..Len(deferred) : deferred[i] # t
      BY <2>1 DEF LoadInv, DeferredInv
    <3>2. \A i \in 1..Len(deferred') : Deferred(deferred'[i]) /\ deferred'[i] \notin unread'
      BY <2>1, <2>2, <2>4, <2>5 DEF LoadInv, DeferredInv
    <3>3. ASSUME NEW i \in 1..Len(deferred'), NEW j \in 1..Len(deferred'),
                 deferred'[i] = deferred'[j]
          PROVE  i = j
      BY <3>1, <3>3, <2>2, <2>4, <2>5 DEF LoadInv, DeferredInv
    <3>4. \A r \in roots' : ~Deferred(r) /\ r \notin unread'
      BY <2>1, <2>2 DEF LoadInv, DeferredInv
    <3> QED
      BY <2>1, <2>3, <2>6, <3>2, <3>3, <3>4 DEF DeferredInv
  <2>10. NamesInv'
    <3>1. \A s \in Services : file.top[s] \notin unread'
                              <=> file.top[s] \notin unread \/ s \in In(t)
      BY <2>1 DEF In
    <3>2. /\ \A s \in In(t) : file.name[s] \notin mapped
          /\ \A r, s \in In(t) : file.name[r] = file.name[s] => r = s
      BY DEF Duplicate
    <3>3. \A s \in Services : file.top[s] \notin unread => file.name[s] \in mapped
      BY DEF LoadInv, NamesInv
    <3>4. \A r, s \in Services :
            file.top[r] \notin unread' /\ file.top[s] \notin unread'
              /\ file.name[r] = file.name[s] => r = s
      BY <3>1, <3>2, <3>3 DEF LoadInv, NamesInv
    <3>5. mapped' = {file.name[s] : s \in {s \in Services : file.top[s] \notin unread'}}
      BY <2>1, <3>1 DEF LoadInv, NamesInv, In
    <3> QED
      BY <2>1, <3>4, <3>5 DEF NamesInv
  <2>11. ParentInv'
    <3>1. Attached = {} /\ Attached' = {}
      BY <2>1, <2>3 DEF Attached
    <3>2. Asked' = Asked
      BY <2>1 DEF Asked, Named, Deferred
    <3> QED
      BY <2>1, <3>1, <3>2 DEF LoadInv, ParentInv
  <2>12. Complete' /\ RejectsOnlyBroken'
    BY <2>1 DEF Complete, RejectsOnlyBroken
  <2> QED
    BY <2>7, <2>8, <2>9, <2>10, <2>11, <2>12 DEF LoadInv
<1> QED
  BY <1>1, <1>2

-----------------------------------------------------------------------------
(* Attaching *)

\* Where the next deferred service is, and who else is deferred.
LEMMA SvcFacts ==
  ASSUME LoadInv, unread = {}, next < Len(deferred)
  PROVE  /\ svc \in Services /\ file.local[svc] = NoService /\ Deferred(svc)
         /\ svc \notin roots /\ svc \notin Attached
         /\ parent[svc] = NoService /\ tree[svc] = svc
         /\ next \in Nat /\ Len(deferred) \in Nat /\ next + 1 \in 1..Len(deferred)
         /\ \A j \in next + 2..Len(deferred) : deferred[j] # svc
         /\ Later = {svc} \cup {deferred[j] : j \in next + 2..Len(deferred)}
<1>0. deferred \in Seq(Tops) /\ next \in 0..Len(deferred)
  BY DEF LoadInv, TypeOK
<1>1. next \in Nat /\ Len(deferred) \in Nat /\ next + 1 \in 1..Len(deferred)
  <2>1. Len(deferred) \in Nat
    BY <1>0, LenProperties
  <2> QED
    BY <1>0, <2>1
<1>2. svc \in Tops
  BY <1>1, LenProperties DEF LoadInv, TypeOK, svc
<1>3. Deferred(svc) /\ svc \notin roots
  BY <1>1 DEF LoadInv, DeferredInv, svc
<1>4. svc \notin Attached
  <2> SUFFICES ASSUME NEW i \in 1..next, deferred[i] = svc PROVE FALSE
    BY DEF Attached
  <2>1. i \in 1..Len(deferred) /\ i # next + 1
    BY <1>1
  <2> QED
    BY <1>1, <2>1 DEF LoadInv, DeferredInv, svc
<1>5. parent[svc] = NoService /\ tree[svc] = svc
  BY <1>2, <1>4 DEF LoadInv, ParentInv, TreeInv, Tops
<1>6. \A j \in next + 2..Len(deferred) : deferred[j] # svc
  <2> TAKE j \in next + 2..Len(deferred)
  <2>1. j \in 1..Len(deferred) /\ j # next + 1
    BY <1>1
  <2> QED
    BY <1>1, <2>1 DEF LoadInv, DeferredInv, svc
<1>7. next + 1..Len(deferred) = {next + 1} \cup (next + 2..Len(deferred))
  BY <1>1
<1>8. Later = {svc} \cup {deferred[j] : j \in next + 2..Len(deferred)}
  BY <1>7 DEF Later, svc
<1> QED
  BY <1>1, <1>2, <1>3, <1>4, <1>5, <1>6, <1>8 DEF Tops

\* A service in whose tree svc's external parent could be found.
LEMMA ExternalFacts ==
  ASSUME LoadInv, unread = {}, next < Len(deferred), NEW p \in External
  PROVE  /\ p \in Services /\ tree[p] # svc
         /\ tree[p] \in roots \cup {deferred[j] : j \in next + 2..Len(deferred)}
         /\ Asked[svc] = {p}
<1>1. /\ p \in Services /\ file.name[p] = file.external[svc]
      /\ InCombined(p) \/ Waiting(p)
  BY DEF External
<1>2. tree[p] # svc
  BY <1>1, SvcFacts DEF InCombined, Waiting
<1>3. Asked[svc] = {p}
  <2>1. Asked[svc] = {q \in Services : file.name[q] = file.external[svc]}
    BY SvcFacts DEF Asked, Named
  <2>2. \A q \in Services : file.name[q] = file.external[svc] => q = p
    BY <1>1 DEF LoadInv, NamesInv
  <2> QED
    BY <1>1, <2>1, <2>2
<1> QED
  BY <1>1, <1>2, <1>3 DEF InCombined, Waiting

\* Hanging one tree of a forest under a node of another leaves a forest.
LEMMA AcyclicAttach ==
  ASSUME TreeInv, NEW x \in Services, NEW p \in Services,
         tree[x] = x, tree[p] # x,
         NEW up, \A s \in Services : s # x => up[s] = Up[s], up[x] = {p}
  PROVE  Acyclic(Services, up)
<1> SUFFICES ASSUME NEW C \in SUBSET Services, Circular(C, up) PROVE FALSE
  BY DEF Acyclic
<1>0. Acyclic(Services, Up)
  BY DEF TreeInv
<1>1. CASE x \notin C
  <2>1. Circular(C, Up)
    BY <1>1 DEF Circular
  <2> QED
    BY <1>0, <2>1 DEF Acyclic
<1>2. CASE x \in C
  <2> DEFINE D == {s \in C : tree[s] # x}
  <2>1. p \in C
    BY <1>2 DEF Circular
  <2>2. \A s \in D : Up[s] \cap D # {}
    <3> SUFFICES ASSUME NEW s \in D PROVE Up[s] \cap D # {}
      OBVIOUS
    <3>1. PICK q \in C : q \in up[s]
      BY DEF Circular
    <3>2. s # x /\ q \in Up[s] /\ q \in Services /\ tree[q] = tree[s]
      BY <3>1 DEF TreeInv, Up
    <3> QED
      BY <3>1, <3>2
  <2>3. Circular(D, Up) /\ D \in SUBSET Services
    BY <2>1, <2>2 DEF Circular
  <2> QED
    BY <1>0, <2>3 DEF Acyclic
<1> QED
  BY <1>1, <1>2

LEMMA AttachedLoadInv ==
  ASSUME LoadInv, result = "none", unread = {}, next < Len(deferred),
         NEW p \in External,
         parent' = [parent EXCEPT ![svc] = p],
         tree' = [s \in Services |-> IF tree[s] = svc THEN tree[p] ELSE tree[s]],
         next' = next + 1,
         UNCHANGED <<file, unread, mapped, deferred, roots, stamped, result>>
  PROVE  LoadInv'
<1>1. /\ svc \in Services /\ file.local[svc] = NoService /\ Deferred(svc)
      /\ svc \notin roots /\ svc \notin Attached
      /\ parent[svc] = NoService /\ tree[svc] = svc
      /\ next \in Nat /\ Len(deferred) \in Nat
      /\ next + 1 \in 1..Len(deferred)
      /\ Later = {svc} \cup {deferred[j] : j \in next + 2..Len(deferred)}
  BY SvcFacts
<1>2. /\ p \in Services /\ tree[p] # svc
      /\ tree[p] \in roots \cup {deferred[j] : j \in next + 2..Len(deferred)}
      /\ Asked[svc] = {p}
  BY ExternalFacts
<1>3. /\ parent \in [Services -> Services \cup {NoService}]
      /\ tree \in [Services -> Services]
  BY DEF LoadInv, TypeOK
<1>4. TypeOK'
  <2>1. IsFile(file)' /\ Tops' = Tops
    BY DEF LoadInv, TypeOK, IsFile, IsForest, Acyclic, Circular, Tops
  <2>2. next' \in 0..Len(deferred')
    BY <1>1
  <2>3. /\ parent' \in [Services -> Services \cup {NoService}]
        /\ tree' \in [Services -> Services]
    BY <1>2, <1>3
  <2> QED
    BY <2>1, <2>2, <2>3 DEF LoadInv, TypeOK
<1>5. Later' = {deferred[j] : j \in next + 2..Len(deferred)}
  <2>1. next' + 1 = next + 2
    BY <1>1
  <2> QED
    BY <2>1 DEF Later
<1>6. TreeInv'
  <2>1. \A s \in Services : tree'[s] \in roots' \cup Later' \cup unread'
    BY <1>1, <1>2, <1>5 DEF LoadInv, TreeInv
  <2>2. ASSUME NEW s \in Services
        PROVE  IF parent'[s] = NoService
                 THEN tree'[s] = s ELSE tree'[parent'[s]] = tree'[s]
    <3>1. CASE s = svc
      BY <3>1, <1>1, <1>2, <1>3, ServicesAssumption
    <3>2. CASE s # svc
      <4>1. parent'[s] = parent[s]
        BY <3>2, <1>3
      <4>2. CASE parent[s] = NoService
        BY <4>1, <4>2, <3>2 DEF LoadInv, TreeInv
      <4>3. CASE parent[s] # NoService
        <5>1. parent[s] \in Services /\ tree[parent[s]] = tree[s]
          BY <4>3, <1>3 DEF LoadInv, TreeInv
        <5> QED
          BY <4>1, <4>3, <5>1
      <4> QED
        BY <4>2, <4>3
    <3> QED
      BY <3>1, <3>2
  <2>3. Acyclic(Services, Up)'
    <3>1. \A s \in Services : s # svc => Up'[s] = Up[s]
      BY <1>3 DEF Up
    <3>2. Up'[svc] = {p}
      BY <1>1, <1>2, <1>3, ServicesAssumption DEF Up
    <3>3. Acyclic(Services, Up')
      BY <1>1, <1>2, <3>1, <3>2, AcyclicAttach DEF LoadInv
    <3> QED
      BY <3>3 DEF Acyclic, Circular
  <2> QED
    BY <2>1, <2>2, <2>3 DEF TreeInv
<1>7. DeferredInv' /\ NamesInv'
  BY DEF LoadInv, DeferredInv, NamesInv, Deferred
<1>8. ParentInv'
  <2>1. Attached' = Attached \cup {svc}
    <3>1. 1..next' = 1..next \cup {next + 1}
      BY <1>1
    <3> QED
      BY <3>1 DEF Attached, svc
  <2>2. Asked' = Asked
    BY DEF Asked, Named, Deferred
  <2>3. ASSUME NEW s \in Services
        PROVE  IF file.local[s] = NoService /\ s \notin Attached \cup {svc}
                 THEN parent'[s] = NoService
                 ELSE Asked[s] = {parent'[s]} /\ parent'[s] \in Services
    <3>1. CASE s = svc
      BY <3>1, <1>1, <1>2, <1>3
    <3>2. CASE s # svc
      BY <3>2, <1>3 DEF LoadInv, ParentInv
    <3> QED
      BY <3>1, <3>2
  <2> QED
    BY <2>1, <2>2, <2>3 DEF ParentInv
<1>9. Complete' /\ RejectsOnlyBroken'
  BY DEF Complete, RejectsOnlyBroken
<1> QED
  BY <1>4, <1>6, <1>7, <1>8, <1>9 DEF LoadInv

\* A parent that is not found is missing, or waits for svc itself.
LEMMA MissingIsBroken ==
  ASSUME LoadInv, unread = {}, next < Len(deferred), External = {},
         Named(svc) # {}
  PROVE  \E C \in SUBSET Services : Circular(C, Asked)
<1>1. PICK p \in Services : p \in Named(svc) /\ file.name[p] = file.external[svc]
  BY SvcFacts DEF Named
<1>2. tree[p] = svc
  <2>1. tree[p] \in roots \cup Later
    BY DEF LoadInv, TreeInv
  <2>2. ~InCombined(p) /\ ~Waiting(p)
    BY <1>1 DEF External
  <2> QED
    BY <2>1, <2>2, SvcFacts DEF InCombined, Waiting
<1> DEFINE C == {s \in Services : tree[s] = svc}
<1>3. ASSUME NEW s \in C PROVE Asked[s] \cap C # {}
  <2>1. CASE s = svc
    <3>1. p \in Asked[s]
      BY <2>1, <1>1 DEF Asked
    <3> QED
      BY <3>1, <1>2
  <2>2. CASE s # svc
    <3>1. parent[s] # NoService
      BY <2>2 DEF LoadInv, TreeInv
    <3>2. tree[parent[s]] = svc
      BY <3>1 DEF LoadInv, TreeInv
    <3>3. Asked[s] = {parent[s]} /\ parent[s] \in Services
      BY <3>1 DEF LoadInv, ParentInv
    <3> QED
      BY <3>2, <3>3
  <2> QED
    BY <2>1, <2>2
<1>4. svc \in C
  BY SvcFacts
<1>5. Circular(C, Asked) /\ C \in SUBSET Services
  BY <1>3, <1>4 DEF Circular
<1> QED
  BY <1>5

LEMMA AttachLoadInv ==
  ASSUME LoadInv, Attach
  PROVE  LoadInv'
<1>1. CASE External = {} /\ Fails("unknown parent")
  <2>1. Named(svc) = {} \/ \E C \in SUBSET Services : Circular(C, Asked)
    BY <1>1, MissingIsBroken DEF Attach
  <2>2. Asked' = Asked /\ Named(svc)' = Named(svc)
    BY <1>1 DEF Fails, Asked, Named, Deferred, svc
  <2>3. RejectsOnlyBroken'
    BY <2>1, <2>2 DEF RejectsOnlyBroken, Circular
  <2> QED
    BY <1>1, <2>3, FailsLoadInv DEF Attach
<1>2. CASE ~(External = {} /\ Fails("unknown parent"))
  BY <1>2, AttachedLoadInv DEF Attach
<1> QED
  BY <1>1, <1>2

LEMMA FinishLoadInv ==
  ASSUME LoadInv, Finish
  PROVE  LoadInv'
<1>1. Later = {}
  BY LenProperties DEF LoadInv, TypeOK, Later, Finish
<1>2. \A s \in Services : tree[s] \in roots
  BY <1>1 DEF LoadInv, TreeInv, Finish
<1>3. ASSUME NEW s \in Services PROVE Up[s] = Asked[s]
  <2>1. CASE file.local[s] = NoService /\ s \notin Attached
    <3>1. parent[s] = NoService
      BY <2>1 DEF LoadInv, ParentInv
    <3>2. s \in roots
      BY <3>1, <1>2 DEF LoadInv, TreeInv
    <3>3. ~Deferred(s)
      BY <3>2 DEF LoadInv, DeferredInv
    <3> QED
      BY <2>1, <3>1, <3>3 DEF Up, Asked, Named
  <2>2. CASE ~(file.local[s] = NoService /\ s \notin Attached)
    BY <2>2, ServicesAssumption DEF LoadInv, ParentInv, Up
  <2> QED
    BY <2>1, <2>2
<1>4. Complete'
  <2>1. Up' = Up /\ Asked' = Asked /\ tree' = tree /\ roots' = roots
    BY DEF Finish, Up, Asked, Named, Deferred
  <2> QED
    BY <2>1, <1>2, <1>3 DEF LoadInv, TreeInv, Complete, Acyclic, Circular
<1>5. TypeOK'
  <2>1. stamped' \in [Services -> Marks]
    BY InheritsType DEF Finish, LoadInv, TypeOK
  <2> QED
    BY <2>1 DEF Finish, LoadInv, TypeOK, Tops
<1>6. TreeInv' /\ DeferredInv' /\ NamesInv' /\ ParentInv'
  <2>1. Asked' = Asked /\ Attached' = Attached
    BY DEF Finish, Asked, Named, Deferred, Attached
  <2>2. TreeInv'
    BY DEF Finish, LoadInv, TreeInv, Later, Up
  <2>3. DeferredInv' /\ NamesInv'
    BY DEF Finish, LoadInv, DeferredInv, NamesInv, Deferred
  <2>4. ParentInv'
    BY <2>1 DEF Finish, LoadInv, ParentInv
  <2> QED
    BY <2>2, <2>3, <2>4
<1>7. RejectsOnlyBroken'
  BY DEF Finish, RejectsOnlyBroken
<1> QED
  BY <1>4, <1>5, <1>6, <1>7 DEF LoadInv

LEMMA StutterLoadInv ==
  ASSUME LoadInv, UNCHANGED vars
  PROVE  LoadInv'
<1> USE DEF vars
<1>1. Asked' = Asked /\ Attached' = Attached /\ Later' = Later /\ Up' = Up
  BY DEF Asked, Named, Deferred, Attached, Later, Up
<1>2. Named(svc)' = Named(svc)
  BY DEF Named, Deferred, svc
<1>3. TypeOK'
  BY DEF LoadInv, TypeOK, Tops
<1>4. TreeInv' /\ NamesInv' /\ ParentInv'
  BY <1>1 DEF LoadInv, TreeInv, NamesInv, ParentInv, Acyclic, Circular
<1>5. DeferredInv'
  BY DEF LoadInv, DeferredInv, Deferred
<1>6. Complete' /\ RejectsOnlyBroken'
  BY <1>1, <1>2 DEF LoadInv, Complete, RejectsOnlyBroken, Acyclic, Circular
<1> QED
  BY <1>3, <1>4, <1>5, <1>6 DEF LoadInv

-----------------------------------------------------------------------------

(* Handing down the mark *)

LEMMA ReadStamps ==
  ASSUME LoadInv, StampInv, NEW t \in Services, Read(t)
  PROVE  StampInv' /\ StampsInherited'
<1>1. CASE NestedExternal(t) \/ Duplicate(t)
  BY <1>1 DEF Read, Fails, StampInv, StampsInherited, Inherited
<1>2. CASE ~NestedExternal(t) /\ ~Duplicate(t)
  <2>1. /\ result = "none" /\ UNCHANGED <<file, result>> /\ t \in unread
        /\ unread' = unread \ {t}
        /\ Inherits(In(t), file.local)
    BY <1>2 DEF Read, Fails
  <2>2. PICK T \in SUBSET {s \in In(t) : stamped[s] = "unset"} :
          /\ stamped' = [s \in Services |-> IF s \in T THEN "yes" ELSE stamped[s]]
          /\ \A s \in In(t) : stamped[s] = "unset" =>
               (s \in T <=> file.local[s] # NoService /\ stamped'[file.local[s]] = "yes")
    BY <2>1 DEF Inherits
  <2>3. \A s \in Services : file.local[s] # NoService =>
          file.local[s] \in Services /\ file.top[file.local[s]] = file.top[s]
    BY DEF LoadInv, TypeOK, IsFile, IsForest
  <2>4. ASSUME NEW s \in Services
        PROVE  stamped'[s] = IF file.top[s] \in unread' THEN file.declared[s]
                                                        ELSE Inherited(s, file.local)'
    <3>1. CASE s \in In(t)
      <4>1. file.top[s] = t /\ stamped[s] = file.declared[s]
        BY <3>1, <2>1 DEF In, StampInv
      <4> QED
        BY <3>1, <4>1, <2>1, <2>2 DEF Inherited
    <3>2. CASE s \notin In(t)
      <4>1. stamped'[s] = stamped[s] /\ file.top[s] # t
        BY <3>2, <2>2 DEF In
      <4>2. file.local[s] # NoService => stamped'[file.local[s]] = stamped[file.local[s]]
        BY <4>1, <2>2, <2>3 DEF In
      <4> QED
        BY <4>1, <4>2, <2>1 DEF StampInv, Inherited
    <3> QED
      BY <3>1, <3>2
  <2> QED
    BY <2>1, <2>4 DEF StampInv, StampsInherited
<1> QED
  BY <1>1, <1>2

\* Marks written by the walk of a file do not block the walk of the forest:
\* their service's parent is the one in the file, and it is stamped.
LEMMA FinishStamps ==
  ASSUME LoadInv, StampInv, Finish
  PROVE  StampInv' /\ StampsInherited'
<1>1. /\ result = "none" /\ result' = "ok" /\ UNCHANGED <<file, parent>>
      /\ unread = {}
      /\ Inherits(Services, parent)
  BY DEF Finish
<1>2. PICK T \in SUBSET {s \in Services : stamped[s] = "unset"} :
        /\ stamped' = [s \in Services |-> IF s \in T THEN "yes" ELSE stamped[s]]
        /\ \A s \in Services : stamped[s] = "unset" =>
             (s \in T <=> parent[s] # NoService /\ stamped'[parent[s]] = "yes")
  BY <1>1 DEF Inherits
<1>3. \A s \in Services : stamped[s] = Inherited(s, file.local)
  BY <1>1 DEF StampInv
<1>4. /\ parent \in [Services -> Services \cup {NoService}]
      /\ \A s \in Services : file.local[s] # NoService => parent[s] = file.local[s]
  BY DEF LoadInv, TypeOK, ParentInv, Asked, Named
<1>5. ASSUME NEW s \in Services PROVE stamped'[s] = Inherited(s, parent)'
  <2>1. CASE file.declared[s] # "unset"
    <3>1. stamped[s] = file.declared[s] /\ s \notin T
      BY <2>1, <1>2, <1>3 DEF Inherited
    <3> QED
      BY <2>1, <3>1, <1>1, <1>2 DEF Inherited
  <2>2. CASE file.declared[s] = "unset" /\ stamped[s] # "unset"
    <3>1. stamped[s] = "yes" /\ file.local[s] # NoService /\ stamped[file.local[s]] = "yes"
      BY <2>2, <1>3 DEF Inherited
    <3>2. parent[s] = file.local[s] /\ parent[s] \in Services /\ parent[s] # NoService
      BY <3>1, <1>4
    <3>3. stamped'[parent[s]] = "yes" /\ stamped'[s] = "yes"
      BY <3>1, <3>2, <1>2
    <3> QED
      BY <2>2, <3>2, <3>3, <1>1 DEF Inherited
  <2>3. CASE file.declared[s] = "unset" /\ stamped[s] = "unset"
    BY <2>3, <1>1, <1>2 DEF Inherited
  <2> QED
    BY <2>1, <2>2, <2>3
<1> QED
  BY <1>1, <1>5 DEF StampInv, StampsInherited

LEMMA NextIInv == IInv /\ [Next]_vars => IInv'
<1> SUFFICES ASSUME IInv, [Next]_vars PROVE IInv'
  OBVIOUS
<1>1. LoadInv'
  BY ReadLoadInv, AttachLoadInv, FinishLoadInv, StutterLoadInv DEF Next, IInv
<1>2. StampInv' /\ StampsInherited'
  <2>1. ASSUME NEW t \in Services, Read(t) PROVE StampInv' /\ StampsInherited'
    BY <2>1, ReadStamps DEF IInv
  <2>2. CASE Attach
    BY <2>2 DEF Attach, Fails, IInv, StampInv, StampsInherited, Inherited
  <2>3. CASE Finish
    BY <2>3, FinishStamps DEF IInv
  <2>4. CASE UNCHANGED vars
    BY <2>4 DEF vars, IInv, StampInv, StampsInherited, Inherited
  <2> QED
    BY <2>1, <2>2, <2>3, <2>4 DEF Next
<1> QED
  BY <1>1, <1>2 DEF IInv

-----------------------------------------------------------------------------
(* The theorems *)

\* What holds between any two steps of LoadCombined.
THEOREM LoadInvariant == Spec => []IInv
<1>1. Init => IInv
  <2> SUFFICES ASSUME Init PROVE StampInv /\ StampsInherited
    BY InitLoadInv DEF IInv
  <2>1. \A s \in Services : file.top[s] \in unread
    BY FilesAssumption DEF Init, IsFile, IsForest, Tops
  <2> QED
    BY <2>1 DEF Init, StampInv, StampsInherited
<1> QED
  BY <1>1, NextIInv, PTL DEF Spec

\* No service is lost, every one is under the parent its file names, and the
\* combined topology is a forest.
THEOREM LoadComplete == Spec => []Complete
<1>1. IInv => Complete
  BY DEF IInv, LoadInv
<1> QED
  BY <1>1, LoadInvariant, PTL

\* A missing parent is reported only for files that name none or a circle.
THEOREM LoadSound == Spec => []RejectsOnlyBroken
<1>1. IInv => RejectsOnlyBroken
  BY DEF IInv, LoadInv
<1> QED
  BY <1>1, LoadInvariant, PTL

\* Two walks of PropagateStamped hand down the mark as one would.
THEOREM StampsHandedDown == Spec => []StampsInherited
<1>1. IInv => StampsInherited
  BY DEF IInv
<1> QED
  BY <1>1, LoadInvariant, PTL

\* Whatever the files and the order they are read in, they are put together right.
THEOREM LoadCorrect == Spec => []LoadsRightly
<1>1. IInv => LoadsRightly
  BY DEF IInv, LoadInv, LoadsRightly
<1> QED
  BY <1>1, LoadInvariant, PTL

-----------------------------------------------------------------------------
(* CycleDetection: detectCycles answers "cycle" exactly when there is one, for     *)
(* every graph.  That it ends is a liveness property, and left to TLC.            *)
\* The stack without its last element.
LEMMA PopPath ==
  ASSUME NEW S, NEW p \in Seq(S), p # << >>
  PROVE  /\ Len(p) \in Nat \ {0}
         /\ SubSeq(p, 1, Len(p) - 1) \in Seq(S)
         /\ Len(SubSeq(p, 1, Len(p) - 1)) = Len(p) - 1
         /\ \A i \in 1..Len(p) - 1 : SubSeq(p, 1, Len(p) - 1)[i] = p[i]
         /\ \A i \in 1..Len(p) : p[i] \in S
<1>1. Len(p) \in Nat \ {0} /\ \A i \in 1..Len(p) : p[i] \in S
  BY EmptySeq, LenProperties
<1>2. Len(p) - 1 \in Int /\ \A i \in 1..Len(p) - 1 : p[i] \in S
  BY <1>1
<1>3. /\ SubSeq(p, 1, Len(p) - 1) \in Seq(S)
      /\ Len(SubSeq(p, 1, Len(p) - 1)) =
           IF 1 <= Len(p) - 1 THEN Len(p) - 1 - 1 + 1 ELSE 0
      /\ \A i \in 1..Len(p) - 1 - 1 + 1 :
           SubSeq(p, 1, Len(p) - 1)[i] = p[1 + i - 1]
  BY <1>2, SubSeqProperties
<1>4. Len(p) - 1 - 1 + 1 = Len(p) - 1 /\ \A i \in Int : 1 + i - 1 = i
  BY <1>1
<1>5. \A i \in 1..Len(p) - 1 : i \in Int
  BY <1>1
<1> QED
  BY <1>1, <1>3, <1>4, <1>5

\* The stack with one more.
LEMMA PushPath ==
  ASSUME NEW S, NEW p \in Seq(S), NEW x \in S
  PROVE  /\ Len(p) \in Nat
         /\ Append(p, x) \in Seq(S)
         /\ Len(Append(p, x)) = Len(p) + 1
         /\ \A i \in 1..Len(p) : Append(p, x)[i] = p[i]
         /\ Append(p, x)[Len(p) + 1] = x
         /\ \A i \in 1..Len(p) : p[i] \in S
OBVIOUS

\* A node all of whose successors are finished can be added to an acyclic set
\* that nothing leads out of.
LEMMA AcyclicExtends ==
  ASSUME NEW B, NEW n, NEW succ, n \notin B,
         Acyclic(B, succ), \A m \in B : succ[m] \subseteq B,
         succ[n] \subseteq B
  PROVE  Acyclic(B \cup {n}, succ)
<1> SUFFICES ASSUME NEW C \in SUBSET (B \cup {n}), Circular(C, succ)
             PROVE  FALSE
  BY DEF Acyclic
<1>1. CASE C \ {n} = {}
  BY <1>1 DEF Circular
<1>2. CASE C \ {n} # {}
  <2>1. \A m \in C \ {n} : succ[m] \cap (C \ {n}) # {}
    BY DEF Circular
  <2> QED
    BY <1>2, <2>1 DEF Circular, Acyclic
<1> QED
  BY <1>1, <1>2

LEMMA InitIInv == CycleInit => CycleIInv
<1> SUFFICES ASSUME CycleInit PROVE CycleIInv
  OBVIOUS
<1>1. CycleTypeOK
  BY DEF CycleInit, CycleTypeOK, Colors, Results
<1>2. Gray = {} /\ Black = {} /\ Len(path) = 0
  BY DEF CycleInit, Gray, Black
<1>3. PathInv /\ TodoInv
  BY <1>2 DEF PathInv, TodoInv
<1>4. BlackInv
  BY <1>2 DEF BlackInv, Acyclic, Circular
<1>5. DetectsExactly
  BY DEF CycleInit, DetectsExactly
<1> QED
  BY <1>1, <1>3, <1>4, <1>5 DEF CycleIInv

-----------------------------------------------------------------------------
(* The search goes down *)

\* visit(n) begins: from the loop over all nodes, or as a child of the last.
LEMMA VisitPath ==
  ASSUME CycleTypeOK, PathInv, NEW n \in nodes, color[n] = "white", Visit(n),
         UNCHANGED <<nodes, children>>,
         path # << >> => n \in children[LastOnPath]
  PROVE  /\ path' \in Seq(nodes) /\ Len(path') = Len(path) + 1
         /\ \A i \in 1..Len(path) : path'[i] = path[i] /\ path[i] # n
         /\ path'[Len(path) + 1] = n
         /\ Len(path) \in Nat /\ \A i \in 1..Len(path) : path[i] \in nodes
         /\ color' \in [nodes -> Colors]
         /\ Black' = Black /\ n \notin Black
         /\ PathInv'
<1>1. /\ path' \in Seq(nodes) /\ Len(path') = Len(path) + 1
      /\ Len(path) \in Nat /\ \A i \in 1..Len(path) : path[i] \in nodes
      /\ path'[Len(path) + 1] = n
      /\ \A i \in 1..Len(path) : path'[i] = path[i]
  BY PushPath DEF CycleTypeOK, Visit
<1>2. color' \in [nodes -> Colors]
  BY DEF CycleTypeOK, Visit, Colors
<1>3. Black' = Black /\ n \notin Black /\ n \notin Gray /\ Gray' = Gray \cup {n}
  BY DEF CycleTypeOK, Visit, Black, Gray, Colors
<1>4. \A i \in 1..Len(path) : path[i] # n
  BY <1>3 DEF PathInv
<1>5. 1..Len(path') = 1..Len(path) \cup {Len(path) + 1}
  BY <1>1
<1>6. Gray' = {path'[i] : i \in 1..Len(path')}
  <2>1. {path'[i] : i \in 1..Len(path')}
          = {path[i] : i \in 1..Len(path)} \cup {n}
    BY <1>1, <1>5
  <2> QED
    BY <2>1, <1>3 DEF PathInv
<1>7. ASSUME NEW i \in 1..Len(path') - 1
      PROVE  path'[i + 1] \in children[path'[i]]
  <2>1. i \in 1..Len(path)
    BY <1>1
  <2>2. CASE i = Len(path)
    <3>1. path # << >>
      BY <2>1, <2>2, EmptySeq
    <3> QED
      BY <3>1, <2>1, <2>2, <1>1 DEF LastOnPath
  <2>3. CASE i # Len(path)
    <3>1. i \in 1..Len(path) - 1 /\ i + 1 \in 1..Len(path)
      BY <2>1, <2>3, <1>1
    <3> QED
      BY <3>1, <2>1, <1>1 DEF PathInv
  <2> QED
    BY <2>2, <2>3
<1>8. ASSUME NEW i \in 1..Len(path'), NEW j \in 1..Len(path'),
             path'[i] = path'[j]
      PROVE  i = j
  BY <1>8, <1>1, <1>4, <1>5 DEF PathInv
<1> QED
  BY <1>1, <1>2, <1>3, <1>4, <1>6, <1>7, <1>8 DEF PathInv

LEMMA StartIInv ==
  ASSUME CycleIInv, NEW n \in nodes, StartAt(n)
  PROVE  CycleIInv'
<1>1. /\ path' \in Seq(nodes) /\ Len(path) = 0 /\ Len(path') = 1
      /\ path'[1] = n /\ color' \in [nodes -> Colors]
      /\ Black' = Black /\ PathInv'
  <2>1. Len(path) = 0
    BY EmptySeq DEF StartAt
  <2> QED
    BY <2>1, VisitPath DEF CycleIInv, StartAt
<1>2. CycleTypeOK'
  BY <1>1 DEF CycleIInv, CycleTypeOK, StartAt
<1>3. TodoInv'
  BY <1>1 DEF CycleIInv, CycleTypeOK, TodoInv, StartAt
<1>4. BlackInv' /\ DetectsExactly'
  BY <1>1 DEF CycleIInv, BlackInv, DetectsExactly, StartAt
<1> QED
  BY <1>1, <1>2, <1>3, <1>4 DEF CycleIInv

\* The child is white: the search goes on from there.
LEMMA DescendIInv ==
  ASSUME CycleIInv, NEW c \in nodes, answer = "none", path # << >>,
         c \in todo[LastOnPath], color[c] = "white", Visit(c),
         todo' = [todo EXCEPT ![LastOnPath] = @ \ {c}, ![c] = children[c]],
         UNCHANGED <<nodes, children, answer>>
  PROVE  CycleIInv'
<1> DEFINE k == Len(path)
<1>0. k \in Nat \ {0} /\ LastOnPath = path[k] /\ LastOnPath \in nodes
  BY PopPath DEF CycleIInv, CycleTypeOK, LastOnPath
<1>1. c \in children[LastOnPath]
  BY <1>0 DEF CycleIInv, TodoInv
<1>2. /\ path' \in Seq(nodes) /\ Len(path') = k + 1
      /\ \A i \in 1..k : path'[i] = path[i] /\ path[i] # c /\ path[i] \in nodes
      /\ path'[k + 1] = c /\ color' \in [nodes -> Colors]
      /\ Black' = Black /\ PathInv'
  BY <1>1, VisitPath DEF CycleIInv
<1>3. CycleTypeOK'
  BY <1>0, <1>2 DEF CycleIInv, CycleTypeOK
<1>4. TodoInv'
  <2> DEFINE T(i) ==
        /\ todo'[path'[i]] \subseteq children[path'[i]]
        /\ \A m \in children[path'[i]] \ todo'[path'[i]] :
             m \in Black \/ (i < k + 1 /\ m = path'[i + 1])
  <2>1. T(k + 1)
    BY <1>2 DEF CycleIInv, CycleTypeOK
  <2>2. T(k)
    <3>1. todo'[LastOnPath] = todo[LastOnPath] \ {c}
      BY <1>0, <1>2 DEF CycleIInv, CycleTypeOK
    <3>2. /\ \A m \in children[LastOnPath] \ todo[LastOnPath] : m \in Black
          /\ todo[LastOnPath] \subseteq children[LastOnPath]
      BY <1>0 DEF CycleIInv, TodoInv
    <3>3. path'[k] = LastOnPath /\ path'[k + 1] = c /\ k < k + 1
      BY <1>0, <1>2
    <3> QED
      BY <3>1, <3>2, <3>3
  <2>3. ASSUME NEW i \in 1..k - 1 PROVE T(i)
    <3>1. i \in 1..k /\ i + 1 \in 1..k /\ i < k + 1 /\ k \in 1..k /\ i # k
      BY <1>0
    <3>2. path[i] # LastOnPath /\ path[i] # c /\ path[i] \in nodes
      BY <3>1, <1>0, <1>2 DEF CycleIInv, PathInv
    <3>3. todo'[path[i]] = todo[path[i]]
      BY <3>2 DEF CycleIInv, CycleTypeOK
    <3>4. /\ todo[path[i]] \subseteq children[path[i]]
          /\ \A m \in children[path[i]] \ todo[path[i]] :
               m \in Black \/ m = path[i + 1]
      BY <3>1 DEF CycleIInv, TodoInv
    <3>5. path'[i] = path[i] /\ path'[i + 1] = path[i + 1]
      BY <3>1, <1>2
    <3> QED
      BY <3>1, <3>3, <3>4, <3>5
  <2>4. 1..k + 1 = 1..k - 1 \cup {k, k + 1}
    BY <1>0
  <2>5. \A i \in 1..k + 1 : T(i)
    BY <2>1, <2>2, <2>3, <2>4
  <2> QED
    BY <2>5, <1>2 DEF TodoInv
<1>5. BlackInv' /\ DetectsExactly'
  BY <1>2 DEF CycleIInv, BlackInv, DetectsExactly
<1> QED
  BY <1>2, <1>3, <1>4, <1>5 DEF CycleIInv

-----------------------------------------------------------------------------
(* Finished children, answers, and the way back *)

\* The child is black: nothing new to see.
LEMMA SkipIInv ==
  ASSUME CycleIInv, NEW c \in nodes, path # << >>, color[c] = "black",
         todo' = [todo EXCEPT ![LastOnPath] = @ \ {c}],
         UNCHANGED <<nodes, children, color, path, answer>>
  PROVE  CycleIInv'
<1>0. LastOnPath \in nodes
  BY PopPath DEF CycleIInv, CycleTypeOK, LastOnPath
<1>1. /\ PathInv' /\ BlackInv' /\ DetectsExactly' /\ Black' = Black
      /\ CycleTypeOK'
  <2>1. CycleTypeOK'
    BY <1>0 DEF CycleIInv, CycleTypeOK
  <2>2. PathInv' /\ BlackInv' /\ DetectsExactly' /\ Black' = Black
    BY DEF CycleIInv, PathInv, BlackInv, DetectsExactly, Black, Gray
  <2> QED
    BY <2>1, <2>2
<1>2. c \in Black
  BY DEF Black
<1>3. ASSUME NEW i \in 1..Len(path)
      PROVE  /\ todo'[path[i]] \subseteq todo[path[i]]
             /\ todo[path[i]] \subseteq todo'[path[i]] \cup {c}
  <2>1. path[i] \in nodes
    BY PopPath DEF CycleIInv, CycleTypeOK
  <2> QED
    BY <2>1 DEF CycleIInv, CycleTypeOK
<1>4. TodoInv'
  BY <1>1, <1>2, <1>3 DEF CycleIInv, TodoInv
<1> QED
  BY <1>1, <1>4 DEF CycleIInv

\* A gray child closes a cycle: the part of the stack from there.
LEMMA CycleFoundIInv ==
  ASSUME CycleIInv, NEW c \in nodes, path # << >>, c \in todo[LastOnPath],
         color[c] = "gray", answer' = "cycle",
         UNCHANGED <<nodes, children, color, path, todo>>
  PROVE  CycleIInv'
<1> DEFINE k == Len(path)
<1>0. /\ k \in Nat \ {0} /\ LastOnPath = path[k]
      /\ \A i \in 1..k : path[i] \in nodes
  BY PopPath DEF CycleIInv, CycleTypeOK, LastOnPath
<1>1. c \in children[LastOnPath]
  BY <1>0 DEF CycleIInv, TodoInv
<1>2. PICK l \in 1..k : path[l] = c
  BY DEF CycleIInv, PathInv, Gray
<1> DEFINE C == {path[i] : i \in l..k}
<1>3. C \in SUBSET nodes /\ c \in C
  BY <1>0, <1>2
<1>4. ASSUME NEW i \in l..k PROVE children[path[i]] \cap C # {}
  <2>1. CASE i = k
    BY <2>1, <1>0, <1>1, <1>3
  <2>2. CASE i # k
    <3>1. i \in 1..k - 1 /\ i + 1 \in l..k
      BY <2>2, <1>0, <1>2
    <3>2. path[i + 1] \in children[path[i]]
      BY <3>1 DEF CycleIInv, PathInv
    <3> QED
      BY <3>1, <3>2
  <2> QED
    BY <2>1, <2>2
<1>5. Circular(C, children)
  BY <1>3, <1>4 DEF Circular
<1>6. DetectsExactly'
  BY <1>3, <1>5 DEF DetectsExactly
<1>7. CycleTypeOK' /\ PathInv' /\ TodoInv' /\ BlackInv'
  BY DEF CycleIInv, CycleTypeOK, Results, PathInv, TodoInv, BlackInv, Black, Gray
<1> QED
  BY <1>6, <1>7 DEF CycleIInv

LEMMA ReturnIInv ==
  ASSUME CycleIInv, Return
  PROVE  CycleIInv'
<1> DEFINE k == Len(path)
<1>0. /\ k \in Nat \ {0} /\ LastOnPath = path[k] /\ LastOnPath \in nodes
      /\ path' \in Seq(nodes) /\ Len(path') = k - 1
      /\ \A i \in 1..k - 1 : path'[i] = path[i]
      /\ \A i \in 1..k : path[i] \in nodes
  BY PopPath DEF CycleIInv, CycleTypeOK, LastOnPath, Return
<1>1. CycleTypeOK'
  BY <1>0 DEF CycleIInv, CycleTypeOK, Return, Colors
<1>2. color[LastOnPath] = "gray"
  BY <1>0 DEF CycleIInv, PathInv, Gray
<1>3. /\ Black' = Black \cup {LastOnPath} /\ LastOnPath \notin Black
      /\ Gray' = Gray \ {LastOnPath}
  BY <1>0, <1>2 DEF CycleIInv, CycleTypeOK, Return, Black, Gray
<1>4. 1..k = 1..k - 1 \cup {k} /\ k \notin 1..k - 1
  BY <1>0
<1>5. PathInv'
  <2>1. Gray' = {path[i] : i \in 1..k - 1}
    BY <1>0, <1>3, <1>4 DEF CycleIInv, PathInv
  <2>2. \A i \in 1..k - 1 - 1 : path[i + 1] \in children[path[i]]
                               /\ i \in 1..k - 1 /\ i + 1 \in 1..k - 1
    BY <1>0 DEF CycleIInv, PathInv
  <2>3. \A i, j \in 1..k - 1 : path[i] = path[j] => i = j
    BY <1>4 DEF CycleIInv, PathInv
  <2>4. {path'[i] : i \in 1..k - 1} = {path[i] : i \in 1..k - 1}
    BY <1>0
  <2>5. children' = children
    BY DEF Return
  <2> QED
    BY <2>1, <2>2, <2>3, <2>4, <2>5, <1>0 DEF PathInv
<1>6. \A m \in children[LastOnPath] : m \in Black
  BY <1>0 DEF CycleIInv, TodoInv, Return
<1>7. TodoInv'
  <2> SUFFICES ASSUME NEW i \in 1..k - 1
               PROVE  /\ todo[path[i]] \subseteq children[path[i]]
                      /\ \A m \in children[path[i]] \ todo[path[i]] :
                           \/ m \in Black \cup {LastOnPath}
                           \/ i < k - 1 /\ m = path'[i + 1]
    BY <1>0, <1>3 DEF TodoInv, Return
  <2>1. /\ todo[path[i]] \subseteq children[path[i]]
        /\ \A m \in children[path[i]] \ todo[path[i]] :
             m \in Black \/ m = path[i + 1]
    BY <1>4 DEF CycleIInv, TodoInv
  <2>2. CASE i = k - 1
    BY <2>1, <2>2, <1>0
  <2>3. CASE i # k - 1
    <3>1. i < k - 1 /\ i + 1 \in 1..k - 1
      BY <2>3, <1>0
    <3> QED
      BY <3>1, <2>1, <1>0
  <2> QED
    BY <2>2, <2>3
<1>8. BlackInv'
  <2>1. \A n \in Black \cup {LastOnPath} : children[n] \subseteq Black \cup {LastOnPath}
    BY <1>6 DEF CycleIInv, BlackInv
  <2>2. Acyclic(Black \cup {LastOnPath}, children)
    BY <1>3, <1>6, AcyclicExtends DEF CycleIInv, BlackInv
  <2> QED
    BY <2>1, <2>2, <1>3 DEF BlackInv, Return
<1>9. DetectsExactly'
  BY DEF Return, DetectsExactly
<1> QED
  BY <1>1, <1>5, <1>7, <1>8, <1>9 DEF CycleIInv

LEMMA DoneIInv ==
  ASSUME CycleIInv, Done
  PROVE  CycleIInv'
<1>1. Gray = {}
  BY EmptySeq DEF CycleIInv, PathInv, Done
<1>2. Black = nodes
  BY <1>1 DEF CycleIInv, CycleTypeOK, Colors, Black, Gray, Done
<1>3. DetectsExactly'
  BY <1>2 DEF CycleIInv, BlackInv, DetectsExactly, Done
<1>4. CycleTypeOK' /\ PathInv' /\ TodoInv' /\ BlackInv'
  BY DEF Done, CycleIInv, CycleTypeOK, Results, PathInv, TodoInv, BlackInv, Black, Gray
<1> QED
  BY <1>3, <1>4 DEF CycleIInv

LEMMA ChildIInv ==
  ASSUME CycleIInv, NEW c \in Ids, Child(c)
  PROVE  CycleIInv'
<1>1. CASE c \notin nodes
  <2>1. answer' = "missing" /\ UNCHANGED <<nodes, children, color, path, todo>>
    BY <1>1 DEF Child
  <2> QED
    BY <2>1 DEF CycleIInv, CycleTypeOK, Results, PathInv, TodoInv, BlackInv,
                DetectsExactly, Black, Gray
<1>2. CASE c \in nodes
  BY <1>2, SkipIInv, CycleFoundIInv, DescendIInv DEF Child, Finished
<1> QED
  BY <1>1, <1>2

-----------------------------------------------------------------------------

\* What holds between any two steps of the search: the stack is a path of the
\* graph, and the finished nodes are closed and acyclic.
THEOREM SearchInvariant == CycleSpec => []CycleIInv
<1>1. CycleIInv /\ [CycleNext]_cycleVars => CycleIInv'
  <2> SUFFICES ASSUME CycleIInv, [CycleNext]_cycleVars PROVE CycleIInv'
    OBVIOUS
  <2>1. CASE UNCHANGED cycleVars
    BY <2>1 DEF cycleVars, CycleIInv, CycleTypeOK, PathInv, TodoInv, BlackInv,
                DetectsExactly, Black, Gray
  <2> QED
    BY <2>1, StartIInv, ChildIInv, ReturnIInv, DoneIInv DEF CycleNext
<1> QED
  BY <1>1, InitIInv, PTL DEF CycleSpec

\* detectCycles reports a cycle only if there is one, and returns nil only
\* for a graph without cycles and without edges to unknown nodes.
THEOREM DetectionCorrect == CycleSpec => []DetectsExactly
<1>1. CycleIInv => DetectsExactly
  BY DEF CycleIInv
<1> QED
  BY <1>1, SearchInvariant, PTL

-----------------------------------------------------------------------------
(* TopologyValidation: one file, of any number of services *)

Walked == {i \in Nodes : i < place}

\* What the walk hands down is what is written at the parent.
IsBelow(j) == topology.parent[j] \in Walked /\ topology.stamped[topology.parent[j]] = "yes"

Rejections == {"group", "opts out", "no default", "invalid"}

\* propagateStamped has left nothing open below a stamped service.
MarkedInv ==
  /\ marked # Size(topology) => place = 1 /\ verdict = "none"
  /\ \A j \in 1..marked :
       topology.parent[j] # 0 /\ topology.stamped[topology.parent[j]] = "yes"
         => topology.stamped[j] # "unset"

\* What the walk has seen and found in order.
WalkedInv ==
  /\ \A j \in Nodes : below[j] <=> IsBelow(j)
  /\ \A i \in Walked : /\ topology.name[i] \notin BadNames
                       /\ topology.purpose[i] # "absent" /\ topology.pipeline[i] # "absent"
                       /\ ~(below[i] /\ topology.stamped[i] = "no")
  /\ verdict \in {"none", "ok"} =>
       /\ seenNames = {topology.name[i] : i \in Walked}
       /\ duplicates = {} <=> \A i, j \in Walked : i # j => topology.name[i] # topology.name[j]

VerdictInv ==
  /\ verdict = "ok" => /\ place = Size(topology) + 1 /\ duplicates = {}
                       /\ topology.entrypoints \subseteq seenNames
  /\ verdict \in Rejections => ~WellFormed

FileInv == TopoTypeOK /\ MarkedInv /\ WalkedInv /\ VerdictInv

LEMMA NodesAreNumbered ==
  ASSUME TopoTypeOK
  PROVE  /\ Size(topology) \in Nat /\ Nodes = 1..Size(topology)
         /\ \A i \in Nodes : topology.parent[i] \in 0..(i - 1)
BY LenProperties DEF TopoTypeOK, IsTopology, Nodes, Size

LEMMA InitFile == TopoInit => FileInv
<1> SUFFICES ASSUME TopoInit PROVE FileInv
  OBVIOUS
<1>1. IsTopology(topology)
  BY TopologiesAssumption DEF TopoInit
<1>2. TopoTypeOK
  <2>1. Size(topology) \in Nat
    BY <1>1, LenProperties DEF IsTopology, Size
  <2> QED BY <1>1, <2>1 DEF TopoInit, TopoTypeOK
<1>3. Walked = {}
  BY <1>2, NodesAreNumbered DEF TopoInit, Walked
<1>4. MarkedInv
  BY DEF TopoInit, MarkedInv
<1>5. WalkedInv
  BY <1>3 DEF TopoInit, WalkedInv, IsBelow
<1> QED BY <1>2, <1>4, <1>5 DEF TopoInit, VerdictInv, Rejections, FileInv

\* One mark: of the topology only stamped[marked + 1] changes.
LEMMA LoadFile ==
  ASSUME FileInv, Load
  PROVE  FileInv'
<1> DEFINE i == marked + 1
<1>1. /\ marked' = i /\ place = 1 /\ verdict = "none" /\ TopoTypeOK
      /\ topology' = [topology EXCEPT !.stamped[i] = Propagated(i)]
      /\ UNCHANGED <<place, below, seenNames, duplicates, verdict>>
  <2>1. TopoTypeOK /\ Size(topology) \in Nat /\ marked \in 0..Size(topology) /\ marked < Size(topology)
    BY NodesAreNumbered DEF Load, FileInv, TopoTypeOK
  <2>2. marked # Size(topology)
    BY <2>1
  <2> QED BY <2>1, <2>2 DEF Load, FileInv, MarkedInv
<1>2. /\ i \in Nodes /\ Size(topology) \in Nat /\ Nodes = 1..Size(topology) /\ marked \in 0..Size(topology)
      /\ \A j \in Nodes : topology.parent[j] \in 0..(j - 1)
  BY <1>1, NodesAreNumbered DEF Load, TopoTypeOK
<1>3. /\ DOMAIN topology' = DOMAIN topology
      /\ \A field \in DOMAIN topology \ {"stamped"} : topology'[field] = topology[field]
      /\ topology'.stamped = [topology.stamped EXCEPT ![i] = Propagated(i)]
  BY <1>1 DEF TopoTypeOK, IsTopology
<1>4. /\ DOMAIN topology'.stamped = Nodes
      /\ topology'.stamped[i] = Propagated(i)
      /\ \A j \in Nodes \ {i} : topology'.stamped[j] = topology.stamped[j]
  BY <1>1, <1>2, <1>3 DEF TopoTypeOK, IsTopology, Nodes
<1> HIDE DEF i
<1>5. Propagated(i) \in {"yes", "no", "unset"}
  BY <1>1, <1>2 DEF TopoTypeOK, IsTopology, Propagated, Nodes
<1>6. /\ topology'.parent = topology.parent /\ topology'.name = topology.name
      /\ topology'.purpose = topology.purpose /\ topology'.pipeline = topology.pipeline
      /\ DOMAIN topology' = {"parent", "name", "stamped", "entrypoints", "purpose", "pipeline"}
  BY <1>1, <1>3 DEF TopoTypeOK, IsTopology
<1>7. IsTopology(topology')
  BY <1>1, <1>4, <1>5, <1>6 DEF TopoTypeOK, IsTopology, Nodes
<1>8. Nodes' = Nodes /\ Size(topology') = Size(topology)
  BY <1>6 DEF Nodes, Size
<1>9. TopoTypeOK'
  <2>1. i \in 0..Size(topology)
    BY <1>2
  <2> QED BY <1>1, <1>7, <1>8, <2>1 DEF TopoTypeOK
<1>10. MarkedInv'
  <2> SUFFICES ASSUME NEW j \in 1..i, topology.parent[j] # 0,
                      topology'.stamped[topology.parent[j]] = "yes"
               PROVE  topology'.stamped[j] # "unset"
    BY <1>1, <1>6 DEF MarkedInv
  <2>1. /\ j \in Nodes /\ topology.parent[j] \in Nodes \ {i}
        /\ j # i => j \in 1..marked
    BY <1>2 DEF i
  <2>2. topology.stamped[topology.parent[j]] = "yes"
    BY <1>4, <2>1
  <2>3. CASE j = i
    BY <1>1, <1>4, <2>2, <2>3, <2>1 DEF Propagated
  <2>4. CASE j # i
    BY <1>4, <2>1, <2>2, <2>4 DEF FileInv, MarkedInv
  <2> QED BY <2>3, <2>4
<1>11. Walked = {} /\ Walked' = {}
  BY <1>1, <1>2, <1>8 DEF Walked
<1>12. WalkedInv'
  BY <1>1, <1>8, <1>11 DEF FileInv, WalkedInv, IsBelow
<1> QED BY <1>1, <1>9, <1>10, <1>12 DEF FileInv, VerdictInv, Rejections

LEMMA WalkFile ==
  ASSUME FileInv, Walk
  PROVE  FileInv'
<1> DEFINE i == place
           name == topology.name[i]
           bad == ~HasOrDefaults(topology.purpose[i]) \/ ~HasOrDefaults(topology.pipeline[i])
           out == below[i] /\ topology.stamped[i] = "no"
<1>1. /\ marked = Size(topology) /\ i \in Nodes /\ verdict = "none" /\ TopoTypeOK
      /\ UNCHANGED <<topology, marked>>
  BY DEF Walk, FileInv
<1>2. /\ Size(topology) \in Nat /\ Nodes = 1..Size(topology) /\ place \in Nat
      /\ \A j \in Nodes : topology.parent[j] \in 0..(j - 1)
  BY <1>1, NodesAreNumbered
<1>3. /\ Nodes' = Nodes /\ Size(topology') = Size(topology) /\ WellFormed' = WellFormed
  BY <1>1 DEF Nodes, Size, WellFormed, Children
<1>4. /\ seenNames = {topology.name[j] : j \in Walked}
      /\ duplicates = {} <=> \A j, k \in Walked : j # k => topology.name[j] # topology.name[k]
      /\ \A j \in Nodes : below[j] <=> IsBelow(j)
  BY <1>1 DEF FileInv, WalkedInv
<1>5. MarkedInv'
  BY <1>1, <1>3 DEF FileInv, MarkedInv
<1>6. CASE name \in BadNames \/ out \/ bad
  <2>1. /\ verdict' \in {"group", "opts out", "no default"} /\ UNCHANGED <<place, below>>
        /\ duplicates' \subseteq seenNames'
    BY <1>1, <1>6 DEF Walk, TopoTypeOK, Seen
  <2>2. ~WellFormed
    <3>1. CASE name \in BadNames
      BY <1>1, <3>1 DEF WellFormed
    <3>2. CASE out
      <4>1. topology.parent[i] \in Nodes /\ topology.stamped[topology.parent[i]] = "yes"
        BY <1>1, <1>4, <3>2 DEF IsBelow, Walked
      <4> QED BY <1>1, <3>2, <4>1 DEF WellFormed, Children
    <3>3. CASE bad
      <4>1. topology.purpose[i] = "absent" \/ topology.pipeline[i] = "absent"
        BY <1>1, <3>3 DEF HasOrDefaults, TopoTypeOK, IsTopology, Nodes
      <4> QED BY <1>1, <4>1 DEF WellFormed
    <3> QED BY <1>6, <3>1, <3>2, <3>3
  <2>3. TopoTypeOK'
    BY <1>1, <1>3, <2>1 DEF TopoTypeOK
  <2>4. WalkedInv'
    BY <1>1, <1>3, <2>1 DEF FileInv, WalkedInv, Walked, IsBelow
  <2> QED BY <1>3, <1>5, <2>1, <2>2, <2>3, <2>4 DEF FileInv, VerdictInv, Rejections
<1>7. CASE ~(name \in BadNames \/ out \/ bad)
  <2>1. /\ verdict' = "none" /\ place' = place + 1
        /\ duplicates' = duplicates \cup ({name} \cap seenNames)
        /\ seenNames' = seenNames \cup {name}
        /\ below' = [j \in Nodes |-> IF topology.parent[j] = i THEN Handed(i) ELSE below[j]]
    BY <1>1, <1>7 DEF Walk, Seen
  <2>2. Walked' = Walked \cup {i} /\ i \notin Walked
    BY <1>1, <1>2, <1>3, <2>1 DEF Walked
  <2>3. TopoTypeOK'
    <3>1. Handed(i) \in BOOLEAN
      BY DEF Handed
    <3>2. place' \in 1..(Size(topology) + 1)
      BY <1>1, <1>2, <2>1
    <3> QED BY <1>1, <1>3, <2>1, <3>1, <3>2 DEF TopoTypeOK
  \* What is handed down is what is written: nothing below a stamped service is open.
  <2>4. Handed(i) <=> topology.stamped[i] = "yes"
    <3>1. below[i] => topology.stamped[i] = "yes"
      <4> SUFFICES ASSUME below[i] PROVE topology.stamped[i] = "yes"
        OBVIOUS
      <4>1. topology.parent[i] \in Nodes /\ topology.stamped[topology.parent[i]] = "yes"
        BY <1>1, <1>4 DEF IsBelow, Walked
      <4>2. topology.stamped[i] # "unset"
        BY <1>1, <1>2, <4>1 DEF FileInv, MarkedInv
      <4>3. topology.stamped[i] # "no"
        BY <1>7
      <4> QED BY <1>1, <4>2, <4>3 DEF TopoTypeOK, IsTopology, Nodes
    <3> QED BY <3>1 DEF Handed
  <2>5. ASSUME NEW j \in Nodes
        PROVE  below'[j] <=> IsBelow(j)'
    <3>1. IsBelow(j)' <=> topology.parent[j] \in Walked' /\ topology.stamped[topology.parent[j]] = "yes"
      BY <1>1 DEF IsBelow
    <3>2. CASE topology.parent[j] = i
      BY <2>1, <2>2, <2>4, <3>1, <3>2
    <3>3. CASE topology.parent[j] # i
      BY <1>4, <2>1, <2>2, <3>1, <3>3 DEF IsBelow
    <3> QED BY <3>2, <3>3
  <2>6. ASSUME NEW j \in Walked'
        PROVE  /\ topology.name[j] \notin BadNames
               /\ topology.purpose[j] # "absent" /\ topology.pipeline[j] # "absent"
               /\ ~(below'[j] /\ topology.stamped[j] = "no")
    <3>0. j \in Nodes /\ j \in Nat /\ ~(i < j)
      BY <1>1, <1>2, <2>2 DEF Walked
    <3>1. topology.parent[j] # i
      BY <1>2, <3>0
    <3>2. below'[j] = below[j]
      BY <2>1, <2>2, <3>1, <1>1 DEF Walked
    <3>3. CASE j = i
      BY <1>7, <3>2, <3>3 DEF HasOrDefaults
    <3>4. CASE j \in Walked
      BY <3>2, <3>4 DEF FileInv, WalkedInv
    <3> QED BY <2>2, <3>3, <3>4
  <2>7. seenNames' = {topology.name[j] : j \in Walked'}
    BY <1>4, <2>1, <2>2
  <2>8. duplicates' = {} <=> \A j, k \in Walked' : j # k => topology.name[j] # topology.name[k]
    <3>1. {name} \cap seenNames = {} <=> \A j \in Walked : topology.name[j] # name
      BY <1>4
    <3> QED BY <1>4, <2>1, <2>2, <3>1
  <2>9. WalkedInv'
    BY <1>1, <1>3, <2>1, <2>5, <2>6, <2>7, <2>8 DEF WalkedInv
  <2> QED BY <1>5, <2>1, <2>3, <2>9 DEF FileInv, VerdictInv, Rejections
<1> QED BY <1>6, <1>7

LEMMA AllWalked ==
  ASSUME FileInv, place = Size(topology) + 1
  PROVE  Walked = Nodes
BY NodesAreNumbered DEF FileInv, Walked

LEMMA ConcludeFile ==
  ASSUME FileInv, Conclude
  PROVE  FileInv'
<1>1. /\ verdict = "none" /\ place = Size(topology) + 1 /\ Walked = Nodes
      /\ verdict' = IF duplicates = {} /\ topology.entrypoints \subseteq seenNames
                    THEN "ok" ELSE "invalid"
      /\ UNCHANGED <<topology, marked, place, below, seenNames, duplicates>>
  BY AllWalked DEF Conclude
<1>2. /\ Nodes' = Nodes /\ Size(topology') = Size(topology) /\ WellFormed' = WellFormed
      /\ Walked' = Walked /\ \A j : IsBelow(j)' = IsBelow(j)
  BY <1>1 DEF Nodes, Size, WellFormed, Children, Walked, IsBelow
<1>3. verdict' = "invalid" => ~WellFormed
  BY <1>1 DEF FileInv, WalkedInv, WellFormed
<1>4. TopoTypeOK' /\ MarkedInv'
  BY <1>1, <1>2 DEF FileInv, TopoTypeOK, MarkedInv, Conclude
<1>5. WalkedInv'
  BY <1>1, <1>2 DEF FileInv, WalkedInv
<1> QED BY <1>1, <1>2, <1>3, <1>4, <1>5 DEF FileInv, VerdictInv, Rejections

\* At every step of Load and Validate it is known of each service walked that it is
\* in order, and what is handed down to the next.
THEOREM FileInvariant == TopoSpec => []FileInv
<1>1. ASSUME FileInv, [TopoNext]_topoVars
      PROVE  FileInv'
  <2>1. CASE UNCHANGED topoVars
    <3>1. /\ Nodes' = Nodes /\ Size(topology') = Size(topology) /\ WellFormed' = WellFormed
          /\ Walked' = Walked /\ \A j : IsBelow(j)' = IsBelow(j)
      BY <2>1 DEF topoVars, Nodes, Size, WellFormed, Children, Walked, IsBelow
    <3>2. TopoTypeOK' /\ MarkedInv'
      BY <1>1, <2>1, <3>1 DEF topoVars, FileInv, TopoTypeOK, MarkedInv
    <3>3. WalkedInv' /\ VerdictInv'
      BY <1>1, <2>1, <3>1 DEF topoVars, FileInv, WalkedInv, VerdictInv
    <3> QED BY <3>2, <3>3 DEF FileInv
  <2> QED BY <1>1, <2>1, LoadFile, WalkFile, ConcludeFile DEF TopoNext
<1> QED BY <1>1, InitFile, PTL DEF TopoSpec

\* A file is accepted exactly when it is in order, and read as it was checked
\* (Load, Validate).
THEOREM FilesAreJudged == TopoSpec => []ValidatesRightly
<1>1. FileInv => ValidatesRightly
  <2> SUFFICES ASSUME FileInv PROVE ValidatesRightly
    OBVIOUS
  <2>1. ASSUME verdict = "ok"
        PROVE  /\ WellFormed
               /\ \A i \in Nodes : topology.stamped[i] = "yes" =>
                    \A j \in Children(i) : topology.stamped[j] = "yes"
    <3>1. Walked = Nodes /\ Nodes = 1..Size(topology)
      BY <2>1, AllWalked, NodesAreNumbered DEF FileInv, VerdictInv
    <3>2. marked = Size(topology)
      BY <2>1 DEF FileInv, MarkedInv
    <3>3. ASSUME NEW i \in Nodes, topology.stamped[i] = "yes", NEW j \in Children(i)
          PROVE  topology.stamped[j] = "yes"
      <4>1. j \in Nodes /\ topology.parent[j] = i /\ i # 0
        BY <3>1, NodesAreNumbered DEF Children, FileInv
      <4>2. below[j]
        BY <3>1, <3>3, <4>1 DEF FileInv, WalkedInv, IsBelow
      <4>3. topology.stamped[j] # "no"
        BY <3>1, <4>1, <4>2 DEF FileInv, WalkedInv
      <4>4. topology.stamped[j] # "unset"
        BY <3>1, <3>2, <3>3, <4>1 DEF FileInv, MarkedInv
      <4> QED BY <4>1, <4>3, <4>4 DEF FileInv, TopoTypeOK, IsTopology, Nodes
    <3>4. WellFormed
      BY <2>1, <3>1, <3>3 DEF WellFormed, FileInv, WalkedInv, VerdictInv
    <3> QED BY <3>3, <3>4
  <2>2. verdict \notin {"none", "ok"} => ~WellFormed
    BY DEF FileInv, TopoTypeOK, VerdictInv, Rejections
  <2> QED BY <2>1, <2>2 DEF ValidatesRightly, VerdictIsRight, StampsReachDown
<1> QED BY <1>1, FileInvariant, PTL

-----------------------------------------------------------------------------
(* PipelineDefinition: what the sorting of dependsOn leaves in it *)

LEMMA BeforeOrders ==
  /\ \A a, b, c \in Identifiers : Before(a, b) /\ Before(b, c) => Before(a, c)
  /\ \A a \in Identifiers : ~Before(a, a)
  /\ \A a, b \in Identifiers : a # b => Before(a, b) \/ Before(b, a)
<1>1. \A a \in Identifiers : a[1] \in Nat /\ a[2] \in Nat /\ a = <<a[1], a[2]>>
  BY DEF Identifiers
<1> QED BY <1>1 DEF Before

LEMMA EarlierRises ==
  ASSUME NEW deps \in SUBSET Identifiers, IsFiniteSet(deps),
         NEW d \in deps, NEW e \in deps, Before(d, e)
  PROVE  /\ Cardinality(Earlier(d, deps)) \in Nat /\ Cardinality(Earlier(e, deps)) \in Nat
         /\ Cardinality(Earlier(d, deps)) < Cardinality(Earlier(e, deps))
<1> DEFINE D == Earlier(d, deps)
           E == Earlier(e, deps)
<1>1. D \subseteq deps /\ E \subseteq deps /\ d \in E
  BY DEF Earlier
<1>2. D \subseteq E \ {d}
  BY BeforeOrders DEF Earlier
<1> HIDE DEF D, E
<1>3. IsFiniteSet(D) /\ IsFiniteSet(E)
  BY <1>1, FS_Subset
<1>4. IsFiniteSet(E \ {d}) /\ Cardinality(E \ {d}) = Cardinality(E) - 1
  BY <1>1, <1>3, FS_RemoveElement
<1>5. Cardinality(D) <= Cardinality(E \ {d})
  BY <1>2, <1>4, FS_Subset
<1>6. Cardinality(D) \in Nat /\ Cardinality(E) \in Nat
  BY <1>3, FS_CardinalityType
<1>7. Cardinality(D) < Cardinality(E)
  BY <1>4, <1>5, <1>6
<1> QED BY <1>6, <1>7 DEF D, E

\* Every place in the order is that of one of them: it is counted right.
LEMMA OrderIsFilled ==
  ASSUME NEW deps \in SUBSET Identifiers, IsFiniteSet(deps)
  PROVE  /\ Cardinality(deps) \in Nat
         /\ \A i \in 1 .. Cardinality(deps) :
              \E d \in deps : Cardinality(Earlier(d, deps)) = i - 1
<1> DEFINE n == Cardinality(deps)
           rank == [d \in deps |-> Cardinality(Earlier(d, deps)) + 1]
<1>1. n \in Nat
  BY FS_CardinalityType
<1>2. ASSUME NEW d \in deps PROVE rank[d] \in 1 .. n
  <2>1. Earlier(d, deps) \subseteq deps \ {d}
    BY BeforeOrders DEF Earlier
  <2>2. IsFiniteSet(deps \ {d}) /\ Cardinality(deps \ {d}) = n - 1
    BY FS_RemoveElement
  <2>3. /\ IsFiniteSet(Earlier(d, deps))
        /\ Cardinality(Earlier(d, deps)) <= Cardinality(deps \ {d})
    BY <2>1, <2>2, FS_Subset
  <2>4. Cardinality(Earlier(d, deps)) \in Nat
    BY <2>3, FS_CardinalityType
  <2>5. Cardinality(Earlier(d, deps)) + 1 \in 1 .. n
    BY <1>1, <2>2, <2>3, <2>4
  <2> QED BY <2>5
<1>3. ASSUME NEW d \in deps, NEW e \in deps, rank[d] = rank[e] PROVE d = e
  <2> SUFFICES ASSUME d # e PROVE FALSE
    OBVIOUS
  <2>1. /\ Cardinality(Earlier(d, deps)) \in Nat /\ Cardinality(Earlier(e, deps)) \in Nat
        /\ Cardinality(Earlier(d, deps)) # Cardinality(Earlier(e, deps))
    BY BeforeOrders, EarlierRises
  <2>2. Cardinality(Earlier(d, deps)) + 1 = Cardinality(Earlier(e, deps)) + 1
    BY <1>3
  <2> QED BY <2>1, <2>2
<1>4. rank \in Injection(deps, 1 .. n)
  BY <1>2, <1>3 DEF Injection, IsInjective
<1>5. IsFiniteSet(1 .. n) /\ Cardinality(1 .. n) = n
  BY <1>1, FS_Interval
<1>6. rank \in Surjection(deps, 1 .. n)
  <2> HIDE DEF rank
  <2> QED BY <1>4, <1>5, FS_Injection
<1>7. \A i \in 1 .. n : \E d \in deps : rank[d] = i
  <2> HIDE DEF rank
  <2> QED BY <1>6 DEF Surjection
<1>8. \A d \in deps : Cardinality(Earlier(d, deps)) \in Nat
  <2> TAKE d \in deps
  <2>1. IsFiniteSet(Earlier(d, deps))
    BY FS_Subset DEF Earlier
  <2> QED BY <2>1, FS_CardinalityType
<1>9. ASSUME NEW i \in 1 .. n PROVE \E d \in deps : Cardinality(Earlier(d, deps)) = i - 1
  <2>1. PICK d \in deps : rank[d] = i
    BY <1>7
  <2>2. Cardinality(Earlier(d, deps)) + 1 = i
    BY <2>1
  <2>3. Cardinality(Earlier(d, deps)) = i - 1
    BY <1>8, <2>2
  <2> QED BY <2>3
<1> QED BY <1>1, <1>9

LEMMA InOrderHolds ==
  ASSUME NEW deps \in SUBSET Identifiers, IsFiniteSet(deps)
  PROVE  /\ InOrder(deps) \in Seq(deps) /\ Len(InOrder(deps)) = Cardinality(deps)
         /\ \A i \in 1 .. Cardinality(deps) : InOrder(deps)[i] \in deps
<1> DEFINE n == Cardinality(deps)
<1>1. n \in Nat /\ \A i \in 1 .. n : \E d \in deps : Cardinality(Earlier(d, deps)) = i - 1
  BY OrderIsFilled
<1>2. \A i \in 1 .. n : (CHOOSE d \in deps : Cardinality(Earlier(d, deps)) = i - 1) \in deps
  BY <1>1
<1>3. /\ DOMAIN InOrder(deps) = 1 .. n
      /\ \A i \in 1 .. n : InOrder(deps)[i] \in deps
      /\ InOrder(deps) = [i \in 1 .. n |-> InOrder(deps)[i]]
  BY <1>2 DEF InOrder
<1>4. InOrder(deps) \in [1 .. n -> deps]
  <2> HIDE DEF n
  <2> QED BY <1>3
<1>5. InOrder(deps) \in Seq(deps)
  BY <1>1, <1>4, SeqDef
<1>6. Len(InOrder(deps)) = n
  BY <1>1, <1>3, <1>5, LenProperties
<1> QED BY <1>3, <1>5, <1>6

LEMMA SetOfListIsFinite ==
  ASSUME NEW S, NEW s \in Seq(S)
  PROVE  IsFiniteSet(ToSet(s)) /\ ToSet(s) \subseteq S
<1>1. Len(s) \in Nat /\ DOMAIN s = 1 .. Len(s) /\ s \in [1 .. Len(s) -> S]
  BY LenProperties
<1>2. ToSet(s) = {s[i] : i \in 1 .. Len(s)}
  BY <1>1 DEF ToSet
<1>3. s \in Surjection(1 .. Len(s), ToSet(s))
  BY <1>1, <1>2 DEF Surjection
<1>4. IsFiniteSet(1 .. Len(s))
  BY <1>1, FS_Interval
<1> QED BY <1>1, <1>2, <1>3, <1>4, FS_Surjection

LEMMA IdentityKinds == \A step : TypeOf(step).identity \in {"none", "plain", "optional"}
<1>1. \A fields, identity : Type(fields, identity).identity = identity
  BY DEF Type
<1>2. \A a \in DOMAIN Actions : Actions[a].identity \in {"none", "plain", "optional"}
  BY <1>1 DEF Actions, ShellStep, SafeFlyStep, HelmStep, ARMStep, ARMStackStep,
    DelegateChildZoneStep, SetCertificateIssuerStep, CreateCertificateStep,
    ResourceProviderRegistrationStep, ImageMirrorStep, LogsStep, FeatureRegistrationStep,
    ProviderFeatureRegistrationStep, Ev2RegistrationStep, SecretSyncStep, KustoStep, Pav2Step,
    PublishGenevaActionStep, RunGenevaActionStep, GenevaHealthStep, PublishGenevaAutomationStep,
    ProwJobStep, GrafanaDashboardsStep, GrafanaManageStep, GrafanaDatasourcesStep,
    KustoEntityGroupsStep, IstioUpgradeStep
<1> QED BY <1>1, <1>2 DEF TypeOf, GenericStep

\* What a step waits for are identifiers, and finitely many.
LEMMA DependsOnIdentifiers ==
  ASSUME NEW step, IsStep(step)
  PROVE  DependsOn(step) \subseteq Identifiers /\ IsFiniteSet(DependsOn(step))
<1> DEFINE F == TypeOf(step).asked \cap DOMAIN step.inputs
           T == {step.inputs[f] : f \in F}
           in == [f \in F |-> step.inputs[f]]
<1>1. IsFiniteSet(F) /\ \A f \in F : IsFiniteSet(step.inputs[f])
                                     /\ step.inputs[f] \subseteq Identifiers
  <2>1. F \subseteq DOMAIN step.inputs /\ IsFiniteSet(DOMAIN step.inputs)
    BY DEF IsStep
  <2>2. IsFiniteSet(F)
    <3> HIDE DEF F
    <3> QED BY <2>1, FS_Subset
  <2> QED BY <2>1, <2>2 DEF IsStep
<1>2. AskedFor(step) = UNION T
  BY DEF AskedFor
<1> HIDE DEF F
<1>3. in \in Surjection(F, T)
  BY DEF Surjection
<1>4. IsFiniteSet(T)
  <2> HIDE DEF in, T
  <2> QED BY <1>1, <1>3, FS_Surjection
<1>5. \A t \in T : IsFiniteSet(t)
  BY <1>1
<1>6. IsFiniteSet(UNION T)
  <2> HIDE DEF T
  <2> QED BY <1>4, <1>5, FS_UNION
<1>7. UNION T \subseteq Identifiers
  BY <1>1
<1>8. IsFiniteSet({step.identity}) /\ IsFiniteSet({step.identity} \ {NoStep})
      /\ IsFiniteSet({}) /\ step.identity \in Identifiers
  BY FS_Singleton, FS_RemoveElement, FS_EmptySet DEF IsStep
<1>9. PICK I : /\ RequiredInputs(step) = AskedFor(step) \cup I
               /\ IsFiniteSet(I) /\ I \subseteq Identifiers
  <2>1. CASE TypeOf(step).identity = "none"
    BY <1>8, <2>1 DEF RequiredInputs
  <2>2. CASE TypeOf(step).identity = "plain"
    BY <1>8, <2>2 DEF RequiredInputs
  <2>3. CASE TypeOf(step).identity = "optional"
    BY <1>8, <2>3 DEF RequiredInputs
  <2> QED BY <2>1, <2>2, <2>3, IdentityKinds
<1>10. IsFiniteSet(RequiredInputs(step)) /\ RequiredInputs(step) \subseteq Identifiers
  BY <1>2, <1>6, <1>7, <1>9, FS_Union
<1>11. IsFiniteSet(ToSet(step.dependsOn)) /\ ToSet(step.dependsOn) \subseteq Identifiers
  BY SetOfListIsFinite DEF IsStep
<1> QED BY <1>10, <1>11, FS_Union DEF DependsOn

\* The array that nodesFor has worked on holds what the step waits for, and NoStep.
LEMMA RearrangedHolds ==
  ASSUME NEW step, IsStep(step)
  PROVE  /\ Rearranged(step) \in Seq(Identifiers)
         /\ ToSet(Rearranged(step)) \subseteq DependsOn(step) \cup {NoStep}
<1> DEFINE n == Len(step.dependsOn)
           s == InOrder(DependsOn(step))
           after == [i \in 1 .. n |-> IF i <= Len(s) THEN s[i] ELSE NoStep]
<1>1. n \in Nat /\ step.dependsOn \in Seq(Identifiers)
      /\ ToSet(step.dependsOn) \subseteq DependsOn(step)
  BY LenProperties DEF IsStep, DependsOn
<1>2. DependsOn(step) \subseteq Identifiers /\ IsFiniteSet(DependsOn(step))
  BY DependsOnIdentifiers
<1>3. Len(s) \in Nat /\ \A i \in 1 .. Len(s) : s[i] \in DependsOn(step)
  BY <1>2, InOrderHolds, FS_CardinalityType
<1>4. NoStep \in Identifiers
  BY DEF NoStep, Identifiers
<1> HIDE DEF n, s
<1>5. \A i \in 1 .. n : after[i] \in DependsOn(step) \cup {NoStep}
  BY <1>1, <1>3
<1>6. after \in [1 .. n -> Identifiers]
  BY <1>2, <1>4, <1>5
<1>7. after \in Seq(Identifiers)
  BY <1>1, <1>6, SeqDef
<1>8. ToSet(after) \subseteq DependsOn(step) \cup {NoStep}
  BY <1>5 DEF ToSet
<1>9. Rearranged(step) = after \/ Rearranged(step) = step.dependsOn
  BY DEF Rearranged, n, s
<1> HIDE DEF after
<1> QED BY <1>1, <1>7, <1>8, <1>9

-----------------------------------------------------------------------------
(* PipelineDefinition: any pipeline, and any number of graphs built of it *)

\* What the graphs built so far make the steps wait for.
AwaitedIn(edges) ==
  \A p \in Places : \A d \in RequiredInputs(StepAt(p)) : <<d, IdAt(p)>> \in edges

\* Nothing has got into the lists of the steps but NoStep.
AwaitsKnown ==
  \A p \in Places : DependsOn(StepAt(p)) \subseteq StepIds \cup {NoStep}

DefInv ==
  /\ IsDocument(pipeline)
  /\ \E S : built \in Seq(S)
  /\ stage \in {"read", "accepted", "rejected"} /\ Len(built) <= MaxBuilds
  /\ stage = "accepted" /\ built = << >> => ReferencesExist
  /\ stage = "accepted" => AwaitsKnown
  /\ OnlyNoStepStrays
  /\ built # << >> => /\ stage = "accepted" /\ EdgesResolve
                      /\ AwaitedIn(built[1]) /\ AwaitedIn(built[Len(built)])
  /\ \A r \in resolved : /\ built # << >>
                         /\ \A d \in RequiredInputs(r[2]) : <<d, r[1]>> \in built[1]

\* The lists of inputs written by hand leave out no field.
LEMMA AllFieldsAsked == \A step : TypeOf(step).fields \subseteq TypeOf(step).asked
<1>1. \A fields, identity : Type(fields, identity).fields = Type(fields, identity).asked
  BY DEF Type
<1>2. \A a \in DOMAIN Actions : Actions[a].fields = Actions[a].asked
  BY <1>1 DEF Actions, ShellStep, SafeFlyStep, HelmStep, ARMStep, ARMStackStep,
    DelegateChildZoneStep, SetCertificateIssuerStep, CreateCertificateStep,
    ResourceProviderRegistrationStep, ImageMirrorStep, LogsStep, FeatureRegistrationStep,
    ProviderFeatureRegistrationStep, Ev2RegistrationStep, SecretSyncStep, KustoStep, Pav2Step,
    PublishGenevaActionStep, RunGenevaActionStep, GenevaHealthStep, PublishGenevaAutomationStep,
    ProwJobStep, GrafanaDashboardsStep, GrafanaManageStep, GrafanaDatasourcesStep,
    KustoEntityGroupsStep, IstioUpgradeStep
<1> QED BY <1>1, <1>2 DEF TypeOf, GenericStep

\* A resolved image mirror step consumes nothing that it did not before.
LEMMA ShellAsksNoMore ==
  ASSUME NEW step, IsStep(step), step.action = "ImageMirror"
  PROVE  RequiredInputs(AsShell(step)) \subseteq RequiredInputs(step)
<1> DEFINE given(fs) == UNION {step.inputs[f] : f \in fs \cap DOMAIN step.inputs}
           inputs == [variables |-> given(MirrorVariables(step)),
                      shellIdentity |-> given({"shellIdentity"})]
<1>1. AsShell(step).action = "Shell" /\ AsShell(step).inputs = inputs
  BY DEF AsShell, IsStep
<1>2. TypeOf(AsShell(step)) = ShellStep /\ TypeOf(step) = ImageMirrorStep
  BY <1>1 DEF TypeOf, Actions
<1>3. /\ ShellStep.asked = {"variables", "dryRunVariables", "shellIdentity"}
      /\ ShellStep.identity = "none"
  BY DEF ShellStep, Type
<1>4. MirrorVariables(step) \cup {"shellIdentity"} \subseteq ImageMirrorStep.asked
  BY DEF MirrorVariables, ImageMirrorStep, Type
<1>5. /\ DOMAIN inputs = {"variables", "shellIdentity"}
      /\ inputs.variables = given(MirrorVariables(step))
      /\ inputs.shellIdentity = given({"shellIdentity"})
  OBVIOUS
<1>6. AskedFor(AsShell(step)) \subseteq inputs.variables \cup inputs.shellIdentity
  <2> HIDE DEF inputs
  <2> QED BY <1>1, <1>2, <1>3, <1>5 DEF AskedFor
<1>7. inputs.variables \cup inputs.shellIdentity \subseteq AskedFor(step)
  <2> HIDE DEF inputs
  <2> QED BY <1>2, <1>4, <1>5 DEF AskedFor
<1>8. RequiredInputs(AsShell(step)) = AskedFor(AsShell(step))
  BY <1>2, <1>3 DEF RequiredInputs
<1> HIDE DEF inputs
<1> QED BY <1>6, <1>7, <1>8 DEF RequiredInputs

LEMMA InitDef == DefInit => DefInv
<1> SUFFICES ASSUME DefInit PROVE DefInv
  OBVIOUS
<1>1. built \in Seq({}) /\ Len(built) = 0
  BY EmptySeq DEF DefInit
<1>2. DOMAIN built = {}
  BY <1>1, LenProperties
<1>3. Len(built) <= MaxBuilds
  BY <1>1, BuildsAssumption
<1> QED
  BY <1>1, <1>2, <1>3, DocumentsAssumption DEF DefInit, DefInv, OnlyNoStepStrays

LEMMA SameDef ==
  ASSUME DefInv, UNCHANGED <<pipeline, built, resolved>>,
         \/ stage' = stage
         \/ /\ stage = "read" /\ stage' \in {"accepted", "rejected"}
            /\ stage' = "accepted" => ReferencesExist
  PROVE  DefInv'
<1>1. /\ Places' = Places /\ StepIds' = StepIds /\ ReferencesExist' = ReferencesExist
      /\ \A edges : AwaitedIn(edges)' = AwaitedIn(edges)
      /\ EdgesResolve' = EdgesResolve /\ AwaitsKnown' = AwaitsKnown
      /\ OnlyNoStepStrays' = OnlyNoStepStrays
  BY DEF Places, StepIds, ReferencesExist, AwaitedIn, EdgesResolve, IdAt, Id, StepAt,
         AwaitsKnown, OnlyNoStepStrays
<1>2. built' \in Seq({}) \/ \E S : built' \in Seq(S)
  BY DEF DefInv
<1>3. ReferencesExist => AwaitsKnown
  BY DEF ReferencesExist, AwaitsKnown
<1> QED BY <1>1, <1>2, <1>3 DEF DefInv

LEMMA AlikeAskAlike ==
  ASSUME NEW s, NEW t, s.action = t.action, s.inputs = t.inputs, s.identity = t.identity
  PROVE  RequiredInputs(s) = RequiredInputs(t)
<1>1. TypeOf(s) = TypeOf(t)
  BY DEF TypeOf
<1>2. AskedFor(s) = AskedFor(t)
  BY <1>1 DEF AskedFor
<1> QED BY <1>1, <1>2 DEF RequiredInputs

\* Building a graph leaves the steps as they are, but for what they name in dependsOn.
LEMMA BuildKeeps ==
  ASSUME IsDocument(pipeline), Build
  PROVE  /\ IsDocument(pipeline') /\ Places' = Places /\ StepIds' = StepIds
         /\ \A p \in Places : /\ IdAt(p)' = IdAt(p)
                              /\ RequiredInputs(StepAt(p)') = RequiredInputs(StepAt(p))
                              /\ DependsOn(StepAt(p)') \subseteq DependsOn(StepAt(p)) \cup {NoStep}
<1> DEFINE after(g, j) == [pipeline[g].steps[j] EXCEPT !.dependsOn = Rearranged(pipeline[g].steps[j])]
           group(g) == [pipeline[g] EXCEPT !.steps = [j \in DOMAIN @ |->
                          [@[j] EXCEPT !.dependsOn = Rearranged(pipeline[g].steps[j])]]]
<1>1. pipeline' = [g \in DOMAIN pipeline |-> group(g)]
  BY DEF Build
<1>2. ASSUME NEW g \in DOMAIN pipeline
      PROVE  /\ DOMAIN group(g) = DOMAIN pipeline[g] /\ group(g).name = pipeline[g].name
             /\ group(g).steps = [j \in DOMAIN pipeline[g].steps |-> after(g, j)]
  BY DEF IsDocument
<1> HIDE DEF group
<1>3. DOMAIN pipeline' = DOMAIN pipeline
  BY <1>1
<1>4. ASSUME NEW g \in DOMAIN pipeline
      PROVE  /\ DOMAIN pipeline'[g] = DOMAIN pipeline[g] /\ pipeline'[g].name = pipeline[g].name
             /\ DOMAIN pipeline'[g].steps = DOMAIN pipeline[g].steps
             /\ \A j \in DOMAIN pipeline[g].steps : pipeline'[g].steps[j] = after(g, j)
  BY <1>1, <1>2
<1>5. ASSUME NEW g \in DOMAIN pipeline, NEW j \in DOMAIN pipeline[g].steps
      PROVE  /\ IsStep(after(g, j))
             /\ after(g, j).name = pipeline[g].steps[j].name
             /\ after(g, j).action = pipeline[g].steps[j].action
             /\ after(g, j).inputs = pipeline[g].steps[j].inputs
             /\ after(g, j).identity = pipeline[g].steps[j].identity
             /\ after(g, j).dependsOn = Rearranged(pipeline[g].steps[j])
  <2> DEFINE s == pipeline[g].steps[j]
             t == [s EXCEPT !.dependsOn = Rearranged(s)]
  <2>1. IsStep(s)
    BY DEF IsDocument
  <2> HIDE DEF s
  <2>2. Rearranged(s) \in Seq(Identifiers)
    BY <2>1, RearrangedHolds
  <2>3. /\ DOMAIN t = DOMAIN s /\ t.name = s.name /\ t.action = s.action
        /\ t.inputs = s.inputs /\ t.identity = s.identity /\ t.dependsOn = Rearranged(s)
    BY <2>1 DEF IsStep
  <2> HIDE DEF t
  <2>4. IsStep(t)
    BY <2>1, <2>2, <2>3 DEF IsStep
  <2> QED BY <2>3, <2>4 DEF s, t
<1> HIDE DEF after
<1>6. IsDocument(pipeline')
  BY <1>3, <1>4, <1>5 DEF IsDocument
<1>7. Places' = Places
  BY <1>3, <1>4 DEF Places
<1>8. ASSUME NEW p \in Places
      PROVE  /\ IdAt(p)' = IdAt(p)
             /\ RequiredInputs(StepAt(p)') = RequiredInputs(StepAt(p))
             /\ DependsOn(StepAt(p)') \subseteq DependsOn(StepAt(p)) \cup {NoStep}
  <2>1. p[1] \in DOMAIN pipeline /\ p[2] \in DOMAIN pipeline[p[1]].steps
    BY DEF Places
  <2>2. StepAt(p)' = after(p[1], p[2])
    BY <1>4, <2>1 DEF StepAt
  <2>3. IdAt(p)' = IdAt(p)
    BY <1>4, <1>5, <2>1 DEF IdAt, Id
  <2>4. RequiredInputs(after(p[1], p[2])) = RequiredInputs(StepAt(p))
    BY <1>5, <2>1, AlikeAskAlike DEF StepAt
  <2>5. /\ IsStep(StepAt(p))
        /\ after(p[1], p[2]).dependsOn = Rearranged(StepAt(p))
    BY <1>5, <2>1 DEF StepAt, IsDocument
  <2>6. ToSet(Rearranged(StepAt(p))) \subseteq DependsOn(StepAt(p)) \cup {NoStep}
    BY <2>5, RearrangedHolds
  <2>7. DependsOn(after(p[1], p[2])) \subseteq DependsOn(StepAt(p)) \cup {NoStep}
    BY <2>4, <2>5, <2>6 DEF DependsOn
  <2> QED BY <2>2, <2>3, <2>4, <2>7
<1>9. StepIds' = StepIds
  BY <1>7, <1>8 DEF StepIds
<1> QED BY <1>6, <1>7, <1>8, <1>9

LEMMA EdgesAwait ==
  /\ AwaitedIn(Edges)
  /\ ReferencesExist => Edges \subseteq StepIds \X StepIds
  /\ AwaitsKnown => Edges \subseteq (StepIds \cup {NoStep}) \X StepIds
BY DEF AwaitedIn, Edges, DependsOn, ReferencesExist, AwaitsKnown, StepIds

LEMMA BuildDef ==
  ASSUME DefInv, Build
  PROVE  DefInv'
<1>1. /\ stage = "accepted" /\ built' = Append(built, Edges) /\ UNCHANGED <<stage, resolved>>
      /\ IsDocument(pipeline) /\ Len(built) < MaxBuilds
  BY DEF Build, DefInv
<1>2. /\ IsDocument(pipeline') /\ Places' = Places /\ StepIds' = StepIds
      /\ \A p \in Places : /\ IdAt(p)' = IdAt(p)
                           /\ RequiredInputs(StepAt(p)') = RequiredInputs(StepAt(p))
                           /\ DependsOn(StepAt(p)') \subseteq DependsOn(StepAt(p)) \cup {NoStep}
  BY <1>1, BuildKeeps
<1>3. PICK S : built \in Seq(S)
  BY DEF DefInv
<1>4. built \in Seq(S \cup {Edges}) /\ Len(built) \in Nat
  <2>1. Seq(S) \subseteq Seq(S \cup {Edges})
    BY SeqDef
  <2> QED BY <1>3, <2>1, LenProperties
<1>5. /\ built' \in Seq(S \cup {Edges}) /\ Len(built') = Len(built) + 1
      /\ built'[Len(built) + 1] = Edges /\ \A i \in 1..Len(built) : built'[i] = built[i]
      /\ built' # << >>
  BY <1>1, <1>4, AppendProperties, EmptySeq
<1>6. built # << >> => built'[1] = built[1]
  BY <1>4, <1>5, EmptySeq
<1>7. built = << >> => built'[1] = Edges
  BY <1>4, <1>5, EmptySeq
<1>8. built'[Len(built')] = Edges
  BY <1>5
<1>9. built'[1] \subseteq StepIds \X StepIds /\ AwaitedIn(built'[1])
  <2>1. CASE built = << >>
    BY <1>1, <1>7, <2>1, EdgesAwait DEF DefInv
  <2>2. CASE built # << >>
    <3>1. Len(built) > 0
      BY <1>4, <2>2, EmptySeq
    <3> QED BY <1>6, <2>2, <3>1 DEF DefInv, EdgesResolve
  <2> QED BY <2>1, <2>2
<1>10. \A edges : AwaitedIn(edges) => /\ \A p \in Places' : \A d \in RequiredInputs(StepAt(p)') :
                                           <<d, IdAt(p)'>> \in edges
  BY <1>2 DEF AwaitedIn
<1>11. AwaitedIn(built[1])' /\ AwaitedIn(built[Len(built)])'
  BY <1>8, <1>9, <1>10, EdgesAwait DEF AwaitedIn
<1>12. \A r \in resolved : \A d \in RequiredInputs(r[2]) : <<d, r[1]>> \in built'[1]
  BY <1>6 DEF DefInv
<1>13. Len(built') <= MaxBuilds
  BY <1>1, <1>4, <1>5, BuildsAssumption
<1>14. AwaitsKnown'
  BY <1>1, <1>2 DEF DefInv, AwaitsKnown
<1>15. OnlyNoStepStrays'
  <2>1. /\ DOMAIN built = 1..Len(built) /\ DOMAIN built' = 1..Len(built')
        /\ Edges \subseteq (StepIds \cup {NoStep}) \X StepIds
    BY <1>1, <1>4, <1>5, LenProperties, EdgesAwait DEF DefInv
  <2>2. ASSUME NEW k \in DOMAIN built'
        PROVE  built'[k] \subseteq (StepIds \cup {NoStep}) \X StepIds
    <3>1. k = Len(built) + 1 \/ k \in 1..Len(built)
      BY <1>4, <1>5, <2>1
    <3> QED BY <1>5, <2>1, <3>1 DEF DefInv, OnlyNoStepStrays
  <2> QED BY <1>2, <2>2 DEF OnlyNoStepStrays
<1> QED
  BY <1>1, <1>2, <1>5, <1>9, <1>11, <1>12, <1>13, <1>14, <1>15 DEF DefInv, EdgesResolve

LEMMA ResolveDef ==
  ASSUME DefInv, NEW p \in Places, Resolve(p)
  PROVE  DefInv'
<1>1. /\ built # << >> /\ StepAt(p).action = "ImageMirror"
      /\ resolved' = resolved \cup {<<IdAt(p), AsShell(StepAt(p))>>}
      /\ UNCHANGED <<pipeline, stage, built>>
  BY EmptySeq DEF Resolve
<1>2. /\ Places' = Places /\ StepIds' = StepIds /\ ReferencesExist' = ReferencesExist
      /\ \A edges : AwaitedIn(edges)' = AwaitedIn(edges)
      /\ EdgesResolve' = EdgesResolve /\ AwaitsKnown' = AwaitsKnown
      /\ OnlyNoStepStrays' = OnlyNoStepStrays
  BY <1>1 DEF Places, StepIds, ReferencesExist, AwaitedIn, EdgesResolve, IdAt, Id, StepAt,
              AwaitsKnown, OnlyNoStepStrays
<1>3. IsStep(StepAt(p))
  BY DEF DefInv, IsDocument, Places, StepAt
<1>4. \A d \in RequiredInputs(AsShell(StepAt(p))) : <<d, IdAt(p)>> \in built[1]
  BY <1>1, <1>3, ShellAsksNoMore DEF DefInv, AwaitedIn
<1>5. \A r \in resolved' : \A d \in RequiredInputs(r[2]) : <<d, r[1]>> \in built[1]
  <2> SUFFICES ASSUME NEW r \in resolved' PROVE \A d \in RequiredInputs(r[2]) : <<d, r[1]>> \in built[1]
    OBVIOUS
  <2>1. CASE r \in resolved
    BY <2>1 DEF DefInv
  <2>2. CASE r = <<IdAt(p), AsShell(StepAt(p))>>
    BY <1>4, <2>2
  <2> QED BY <1>1, <2>1, <2>2
<1>6. \E S : built' \in Seq(S)
  BY <1>1 DEF DefInv
<1> QED BY <1>1, <1>2, <1>5, <1>6 DEF DefInv

\* What a step asks for is awaited in every graph, and by what it is resolved to.
THEOREM DefinitionInvariant == DefSpec => []DefInv
<1>1. ASSUME DefInv, [DefNext]_defVars
      PROVE  DefInv'
  <2>1. CASE Validate
    BY <1>1, <2>1, SameDef DEF Validate, Validates
  <2>2. CASE UNCHANGED defVars
    BY <1>1, <2>2, SameDef DEF defVars
  <2> QED BY <1>1, <2>1, <2>2, BuildDef, ResolveDef DEF DefNext
<1> QED BY <1>1, InitDef, PTL DEF DefSpec

\* Each step waits for all that it reads, and for nothing that is not there
\* (RequiredInputs, Validate, nodesFor, ResolveImageMirrorStep).
THEOREM StepsAreServed == DefSpec => []GraphServesSteps
<1>1. DefInv => GraphServesSteps
  <2> SUFFICES ASSUME DefInv PROVE GraphServesSteps
    OBVIOUS
  <2>1. PICK S : built \in Seq(S)
    BY DEF DefInv
  <2>2. Len(built) \in Nat /\ (Len(built) > 0 <=> built # << >>)
    BY <2>1, LenProperties, EmptySeq
  <2>3. EdgesResolve
    BY <2>2 DEF DefInv, EdgesResolve
  <2>4. InputsAwaited
    <3> SUFFICES ASSUME built # << >>, NEW p \in Places,
                        NEW f \in TypeOf(StepAt(p)).fields \cap DOMAIN StepAt(p).inputs,
                        NEW d \in StepAt(p).inputs[f]
                 PROVE  <<d, IdAt(p)>> \in Last(built)
      BY <2>2 DEF InputsAwaited
    <3>1. d \in RequiredInputs(StepAt(p))
      BY AllFieldsAsked DEF RequiredInputs, AskedFor
    <3> QED BY <3>1 DEF DefInv, AwaitedIn, Last
  <2>5. ResolvedAwaitsNoMore
    BY DEF DefInv, ResolvedAwaitsNoMore
  <2> QED BY <2>3, <2>4, <2>5 DEF GraphServesSteps, DefInv
<1> QED BY <1>1, DefinitionInvariant, PTL
-----------------------------------------------------------------------------
(* ConfigPaths: a later layer wins, at every depth and for any number of layers. *)

LEMMA LeadsOn == ASSUME NEW p, NEW q, NEW r, Leads(r, q), Leads(q, p)
                 PROVE  Leads(r, p)
  BY DEF Leads

LEMMA LeadsToItself == ASSUME NEW p PROVE Leads(p, p)
  BY DEF Leads

\* What ends the way to a path ends that of all beyond it.
LEMMA EndsOn == ASSUME NEW c, NEW p, NEW q, Leads(q, p), Ends(c, q)
                PROVE  Ends(c, p)
<1>1. PICK r \in Paths : Leads(r, q) /\ HasValue(c, r)
  BY DEF Ends
<1>2. Leads(r, p)
  BY <1>1, LeadsOn
<1> QED BY <1>1, <1>2 DEF Ends

\* What a layer says without having a value on the way, it has a map for.
LEMMA NotEnded == ASSUME NEW c, NEW q \in Paths, q \in DOMAIN c, ~Ends(c, q)
                  PROVE  c[q] = MapHere
  BY LeadsToItself DEF Ends, HasValue

LEMMA OverlayDomain ==
  ASSUME NEW base, NEW override
  PROVE  /\ DOMAIN Overlay(base, override)
              = DOMAIN override \cup {p \in DOMAIN base : ~Ends(override, p)}
         /\ \A p \in DOMAIN override : Overlay(base, override)[p] = override[p]
         /\ \A p \in DOMAIN Overlay(base, override) :
              p \notin DOMAIN override => Overlay(base, override)[p] = base[p]
  BY DEF Overlay

\* MergeConfiguration makes a configuration of two: no path hangs in the air.
LEMMA OverlayConfigures ==
  ASSUME NEW base, NEW override, IsConfiguration(base), IsConfiguration(override)
  PROVE  IsConfiguration(Overlay(base, override))
<1> DEFINE new == Overlay(base, override)
<1>1. DOMAIN new \subseteq Paths /\ << >> \in DOMAIN new
  BY OverlayDomain DEF IsConfiguration
<1>2. ASSUME NEW p \in DOMAIN new, NEW q \in Paths, Leads(q, p), q # p
      PROVE  q \in DOMAIN new /\ new[q] = MapHere
  <2> /\ \A r \in DOMAIN override : new[r] = override[r]
      /\ DOMAIN new = DOMAIN override \cup {r \in DOMAIN base : ~Ends(override, r)}
      /\ \A r \in DOMAIN new : r \notin DOMAIN override => new[r] = base[r]
    BY OverlayDomain
  <2> HIDE DEF new
  <2>1. CASE p \in DOMAIN override
    <3>1. q \in DOMAIN override /\ override[q] = MapHere
      BY <1>2, <2>1 DEF IsConfiguration, HasValue
    <3> QED BY <3>1
  <2>2. CASE p \notin DOMAIN override
    <3>1. p \in DOMAIN base /\ ~Ends(override, p)
      BY <1>2, <2>2
    <3>2. ~Ends(override, q)
      BY <1>2, <3>1, EndsOn
    <3>3. q \in DOMAIN base /\ base[q] = MapHere
      BY <1>2, <3>1 DEF IsConfiguration, HasValue
    <3>4. q \in DOMAIN new
      BY <3>2, <3>3
    <3>5. q \in DOMAIN override => new[q] = MapHere
      BY <3>2, NotEnded
    <3>6. q \notin DOMAIN override => new[q] = MapHere
      BY <3>3, <3>4
    <3> QED BY <3>4, <3>5, <3>6
  <2> QED BY <2>1, <2>2
<1> HIDE DEF new
<1>3. IsConfiguration(new)
  BY <1>1, <1>2 DEF IsConfiguration, HasValue
<1> QED BY <1>3 DEF new

\* Nothing but the root leads to the root.
LEMMA RootIsFirst ==
  ASSUME NEW Keys, NEW q \in Seq(Keys), Leads(q, << >>)
  PROVE  q = << >>
<1>1. Len(<< >>) = 0 /\ << >> \in Seq(Keys)
  BY EmptySeq
<1>2. DOMAIN << >> = 1 .. Len(<< >>) /\ DOMAIN q = 1 .. Len(q) /\ Len(q) \in Nat
  BY <1>1, LenProperties
<1>3. 1 .. Len(q) \subseteq 1 .. 0
  BY <1>1, <1>2 DEF Leads
<1>4. Len(q) = 0
  BY <1>2, <1>3
<1> QED BY <1>4, EmptySeq

LEMMA InitPaths ==
  ASSUME NEW Keys, << >> \in Paths, Paths \subseteq Seq(Keys), LayersInit
  PROVE  LayersInv
<1>1. DOMAIN cfg = {<< >>} /\ cfg[<< >>] = MapHere
  BY DEF LayersInit, JustAMap
<1>2. 1 .. level = {} /\ level \in Nat
  BY DEF LayersInit
<1>3. StaysConfiguration
  BY <1>1, RootIsFirst DEF StaysConfiguration, IsConfiguration
<1>4. LastLayerWins /\ LayersExplain
  BY <1>1, <1>2 DEF LastLayerWins, LayersExplain
<1> QED BY <1>2, <1>3, <1>4 DEF LayersInit, LayersInv

\* A step of the merge: the layer that comes is the last.
LEMMA MergeKeeps == ASSUME LayersInv, MergeNext PROVE LayersInv'
<1> DEFINE new == layers[level + 1]
<1>1. level + 1 \in DOMAIN layers /\ level' = level + 1 /\ layers' = layers
      /\ cfg' = Overlay(cfg, new)
  BY DEF MergeNext
<1>2. level \in Nat /\ level' \in Nat /\ 1 .. level \subseteq DOMAIN layers
      /\ IsConfiguration(new) /\ IsConfiguration(cfg)
  BY <1>1 DEF LayersInv, StaysConfiguration
<1>3. /\ level' \in 1 .. level' /\ level' + 1 .. level' = {}
      /\ \A i \in 1 .. level' : i = level' \/ i \in 1 .. level
      /\ \A i \in 1 .. level : i \in 1 .. level' /\ level' \in i + 1 .. level'
      /\ \A i \in 1 .. level : \A j : j \in i + 1 .. level' <=> j \in i + 1 .. level \/ j = level'
  BY <1>1, <1>2
<1>4. 1 .. level' \subseteq DOMAIN layers'
  BY <1>1, <1>2, <1>3
<1>5. StaysConfiguration'
  <2>1. IsConfiguration(Overlay(cfg, new))
    BY <1>2, OverlayConfigures
  <2> QED BY <1>1, <2>1 DEF StaysConfiguration, IsConfiguration, HasValue
<1>6. /\ DOMAIN cfg' = DOMAIN new \cup {p \in DOMAIN cfg : ~Ends(new, p)}
      /\ \A p \in DOMAIN new : cfg'[p] = new[p]
      /\ \A p \in DOMAIN cfg' : p \notin DOMAIN new => cfg'[p] = cfg[p]
  <2> HIDE DEF new
  <2>1. cfg' = Overlay(cfg, new)
    BY <1>1
  <2> QED BY <2>1 DEF Overlay
<1>7. DOMAIN cfg' \subseteq Paths /\ DOMAIN cfg \subseteq Paths /\ DOMAIN new \subseteq Paths
  BY <1>2, <1>6 DEF IsConfiguration
<1>8. layers'[level'] = new /\ \A i : layers'[i] = layers[i]
  BY <1>1
<1> HIDE DEF new
<1>9. ASSUME NEW p \in Paths \ {<< >>}
      PROVE  p \in DOMAIN cfg' <=> \E i \in 1 .. level' : Stands(i, p)'
  <2>1. ASSUME NEW i \in 1 .. level', i = level'
        PROVE  Stands(i, p)' <=> p \in DOMAIN new
    BY <1>3, <1>8, <2>1 DEF Stands, Says
  <2>2. ASSUME NEW i \in 1 .. level
        PROVE  Stands(i, p)' <=> Stands(i, p) /\ ~Ends(new, p)
    <3>1. Stands(i, p)' <=> /\ p \in DOMAIN layers[i]
                            /\ \A j \in i + 1 .. level' : ~Ends(layers'[j], p)
      BY <1>8 DEF Stands, Says, Ends, HasValue
    <3>2. (\A j \in i + 1 .. level' : ~Ends(layers'[j], p))
            <=> (\A j \in i + 1 .. level : ~Ends(layers[j], p)) /\ ~Ends(new, p)
      BY <1>3, <1>8
    <3> QED BY <3>1, <3>2 DEF Stands, Says
  <2>3. p \in DOMAIN cfg <=> \E i \in 1 .. level : Stands(i, p)
    BY DEF LayersInv, LastLayerWins
  <2>4. (\E i \in 1 .. level' : Stands(i, p)')
          => p \in DOMAIN new \/ (~Ends(new, p) /\ \E i \in 1 .. level : Stands(i, p))
    BY <1>3, <2>1, <2>2
  <2>5. p \in DOMAIN new => \E i \in 1 .. level' : Stands(i, p)'
    BY <1>3, <2>1
  <2>6. (~Ends(new, p) /\ \E i \in 1 .. level : Stands(i, p))
          => \E i \in 1 .. level' : Stands(i, p)'
    BY <1>3, <2>2
  <2> QED BY <1>6, <2>3, <2>4, <2>5, <2>6
<1>10. ASSUME NEW p \in DOMAIN cfg', NEW i \in 1 .. level', Says(i, p)',
              \A j \in i + 1 .. level' : ~Says(j, p)'
       PROVE  cfg'[p] = layers'[i][p]
  <2>1. CASE i = level'
    BY <1>6, <1>8, <1>10, <2>1 DEF Says
  <2>2. CASE i \in 1 .. level
    <3>1. p \notin DOMAIN new
      BY <1>3, <1>8, <1>10, <2>2 DEF Says
    <3>2. p \in DOMAIN cfg /\ cfg'[p] = cfg[p]
      BY <1>6, <3>1
    <3>3. Says(i, p) /\ \A j \in i + 1 .. level : ~Says(j, p)
      BY <1>3, <1>8, <1>10, <2>2 DEF Says
    <3> QED BY <1>8, <2>2, <3>2, <3>3 DEF LayersInv, LastLayerWins
  <2> QED BY <1>3, <2>1, <2>2
<1>11. LastLayerWins'
  BY <1>9, <1>10 DEF LastLayerWins
<1>12. ASSUME NEW p \in Paths \ {<< >>}, Straight(p)'
       PROVE  p \in DOMAIN cfg' <=> \E i \in 1 .. level' : Says(i, p)'
  <2>1. /\ Ends(new, p) => p \in DOMAIN new
        /\ \A i \in 1 .. level : Ends(layers[i], p) => p \in DOMAIN layers[i]
    BY <1>3, <1>8, <1>12 DEF Straight, Says, Ends, HasValue
  <2>2. p \in DOMAIN cfg <=> \E i \in 1 .. level : Says(i, p)
    BY <2>1 DEF LayersInv, LayersExplain, Straight, Says
  <2>3. (\E i \in 1 .. level' : Says(i, p)')
          <=> p \in DOMAIN new \/ \E i \in 1 .. level : Says(i, p)
    BY <1>3, <1>8 DEF Says
  <2> QED BY <1>6, <2>1, <2>2, <2>3
<1>13. LayersExplain'
  <2> SUFFICES ASSUME NEW p \in Paths \ {<< >>}, Straight(p)',
                      NEW i \in 1 .. level', Says(i, p)',
                      \A j \in i + 1 .. level' : ~Says(j, p)'
               PROVE  cfg'[p] = layers'[i][p]
    BY <1>12 DEF LayersExplain
  <2>1. p \in DOMAIN cfg'
    BY <1>12
  <2> QED BY <1>10, <2>1
<1>14. \A i \in DOMAIN layers' : IsConfiguration(layers'[i])
  BY <1>1 DEF LayersInv
<1> QED BY <1>2, <1>4, <1>5, <1>11, <1>13, <1>14 DEF LayersInv, IsConfiguration, HasValue

LEMMA LayersInvariant ==
  ASSUME NEW CONSTANT Keys, << >> \in Paths, Paths \subseteq Seq(Keys)
  PROVE  LayersSpec => []LayersInv
<1>1. LayersInit => LayersInv
  BY InitPaths
<1>2. LayersInv /\ [MergeNext]_layersVars => LayersInv'
  <2> SUFFICES ASSUME LayersInv, [MergeNext]_layersVars PROVE LayersInv'
    OBVIOUS
  <2>1. CASE UNCHANGED layersVars
    BY <2>1 DEF layersVars, LayersInv, StaysConfiguration, LastLayerWins, LayersExplain,
                IsConfiguration, HasValue, Straight, Stands, Says, Ends
  <2> QED BY <2>1, MergeKeeps
<1> QED BY <1>1, <1>2, PTL DEF LayersSpec

\* What is merged is a configuration, its later layers win, and the layers that
\* say something of a path account for it (MergeConfiguration, GetRegionConfi-
\* guration): for any paths, any depth and any number of layers.
THEOREM LayersAccount ==
  ASSUME NEW CONSTANT Keys, << >> \in Paths, Paths \subseteq Seq(Keys)
  PROVE  LayersSpec => [](StaysConfiguration /\ LastLayerWins /\ LayersExplain)
<1>1. LayersInv => StaysConfiguration /\ LastLayerWins /\ LayersExplain
  BY DEF LayersInv
<1> QED BY <1>1, LayersInvariant, PTL

-----------------------------------------------------------------------------
(* SchemaPaths: a reference that is rewritten means what it meant. *)

\* A bounded set of numbers has a largest.
LEMMA LargestExists ==
  ASSUME NEW n \in Nat, NEW S \in SUBSET (0 .. n), S # {}
  PROVE  \E m \in S : \A s \in S : s <= m
<1> DEFINE D == {k \in 1 .. n : \E s \in S : k <= s}
           c == Cardinality(D)
<1>1. D \subseteq 1 .. n /\ IsFiniteSet(1 .. n)
  BY FS_Interval
<1>2. IsFiniteSet(D)
  <2> HIDE DEF D
  <2> QED BY <1>1, FS_Subset
<1>3. c \in Nat
  <2> HIDE DEF D
  <2> QED BY <1>2, FS_CardinalityType
<1>4. ASSUME NEW s \in S PROVE s <= c
  <2>1. s \in Nat /\ 1 .. s \subseteq D
    OBVIOUS
  <2>2. Cardinality(1 .. s) = s
    BY <2>1, FS_Interval
  <2> HIDE DEF D
  <2>3. Cardinality(1 .. s) <= c
    BY <1>2, <2>1, FS_Subset
  <2> QED BY <2>2, <2>3
<1>5. \A k \in D : k <= c
  BY <1>3, <1>4
<1>6. IsFiniteSet(1 .. c) /\ Cardinality(1 .. c) = c
  BY <1>3, FS_Interval
<1>7. D = 1 .. c
  <2>1. D \subseteq 1 .. c
    BY <1>1, <1>5, <1>3
  <2> HIDE DEF D
  <2>2. Cardinality(1 .. c) = Cardinality(D)
    BY <1>6
  <2> HIDE DEF c
  <2> QED BY <1>6, <2>1, <2>2, FS_Subset
<1>8. CASE c = 0
  <2>1. PICK s \in S : TRUE
    OBVIOUS
  <2> HIDE DEF c, D
  <2> QED BY <1>4, <1>8, <2>1
<1>9. CASE c > 0
  <2>1. c \in D
    <3> HIDE DEF c, D
    <3> QED BY <1>3, <1>7, <1>9
  <2>2. PICK s \in S : c <= s
    BY <2>1
  <2>3. s = c
    BY <1>3, <1>4, <2>2
  <2> HIDE DEF c, D
  <2> QED BY <1>4, <2>3
<1> QED BY <1>3, <1>8, <1>9

\* What two paths have in common, they have from the beginning.
LEMMA SharedBeginning ==
  ASSUME NEW Entries, NEW a \in Seq(Entries), NEW b \in Seq(Entries)
  PROVE  LET m == Len(LongestCommonPrefix({a, b}))
         IN  /\ m \in Nat /\ m <= Len(a) /\ m <= Len(b)
             /\ SubSeq(a, 1, m) = SubSeq(b, 1, m)
<1> DEFINE C == CommonPrefixes({a, b})
           lens == {Len(c) : c \in C}
<1>1. Len(a) \in Nat /\ Len(b) \in Nat
  BY LenProperties
<1>2. C = {p \in Prefixes(a) \cup Prefixes(b) : IsPrefix(p, a) /\ IsPrefix(p, b)}
  <2>1. UNION {Prefixes(s) : s \in {a, b}} = Prefixes(a) \cup Prefixes(b)
    OBVIOUS
  <2> QED BY <2>1 DEF CommonPrefixes
<1>3. ASSUME NEW s \in {a, b}, NEW l \in 0 .. Len(s)
      PROVE  Len(SubSeq(s, 1, l)) = l
  <2>1. s \in Seq(Entries) /\ Len(s) \in Nat /\ l \in Nat /\ l <= Len(s)
    BY <1>1
  <2>2. \A i \in 1 .. l : s[i] \in Entries
    BY <2>1, ElementOfSeq
  <2>3. Len(SubSeq(s, 1, l)) = IF 1 <= l THEN l - 1 + 1 ELSE 0
    BY <2>1, <2>2, SubSeqProperties
  <2> QED BY <2>1, <2>3
<1>4. \A c \in C : Len(c) \in 0 .. Len(a)
  <2> SUFFICES ASSUME NEW c \in C PROVE Len(c) \in 0 .. Len(a)
    OBVIOUS
  <2>1. PICK s \in {a, b} : \E l \in 0 .. Len(s) : c = SubSeq(s, 1, l)
    BY <1>2 DEF Prefixes
  <2>2. PICK l \in 0 .. Len(s) : c = SubSeq(s, 1, l)
    BY <2>1
  <2>3. Len(c) = l /\ Len(c) <= Len(a)
    BY <1>2, <1>3, <2>2 DEF IsPrefix
  <2> QED BY <1>1, <2>2, <2>3
<1>5. << >> \in C
  <2>1. SubSeq(a, 1, 0) = << >> /\ SubSeq(b, 1, 0) = << >> /\ Len(<< >>) = 0
    BY SubSeqEmpty, EmptySeq
  <2>2. << >> \in Prefixes(a)
    BY <1>1, <2>1 DEF Prefixes
  <2>3. SubSeq(<< >>, 1, 0) = << >>
    BY SubSeqEmpty
  <2>4. IsPrefix(<< >>, a) /\ IsPrefix(<< >>, b)
    BY <1>1, <2>1, <2>3 DEF IsPrefix
  <2> QED BY <1>2, <2>2, <2>4
<1>6. PICK longest \in C : \A c \in C : Len(c) <= Len(longest)
  <2>1. lens \subseteq 0 .. Len(a) /\ lens # {}
    BY <1>4, <1>5
  <2> HIDE DEF lens
  <2>2. PICK m \in lens : \A l \in lens : l <= m
    BY <1>1, <2>1, LargestExists
  <2> QED BY <2>2 DEF lens
<1>7. LongestCommonPrefix({a, b}) \in C
  BY <1>6 DEF LongestCommonPrefix
<1> DEFINE lcp == LongestCommonPrefix({a, b})
           m == Len(lcp)
<1> HIDE DEF C, lcp
<1>8. m \in Nat /\ m <= Len(a)
  BY <1>1, <1>4, <1>7 DEF lcp
<1>9. IsPrefix(lcp, a) /\ IsPrefix(lcp, b)
  BY <1>2, <1>7 DEF lcp
<1>10. m <= Len(b) /\ SubSeq(a, 1, m) = SubSeq(b, 1, m)
  BY <1>9 DEF IsPrefix
<1> QED BY <1>8, <1>10 DEF lcp

LEMMA RelToLeadsThere ==
  ASSUME NEW Entries, NEW dir \in Seq(Entries), NEW goal \in Seq(Entries)
  PROVE  /\ RelTo(dir, goal).kind = "rel"
         /\ Join(dir, RelTo(dir, goal)) = goal
<1> DEFINE m == Len(LongestCommonPrefix({dir, goal}))
           down == SubSeq(goal, m + 1, Len(goal))
           up == Len(dir) - m
<1>1. m \in Nat /\ m <= Len(dir) /\ m <= Len(goal)
      /\ SubSeq(dir, 1, m) = SubSeq(goal, 1, m)
  BY SharedBeginning
<1>2. Len(dir) \in Nat /\ Len(goal) \in Nat
  BY LenProperties
<1>3. RelTo(dir, goal) = Rel(up, down)
  BY DEF RelTo
<1> HIDE DEF m
<1>4. (IF up < Len(dir) THEN Len(dir) - up ELSE 0) = m
  BY <1>1, <1>2
<1> HIDE DEF down
<1>5. Rel(up, down).kind = "rel" /\ Rel(up, down).up = up /\ Rel(up, down).down = down
  BY DEF Rel
<1>6. Join(dir, Rel(up, down)) = SubSeq(dir, 1, m) \o down
  BY <1>4, <1>5 DEF Join
<1>7. SubSeq(goal, 1, m) \o SubSeq(goal, m + 1, Len(goal)) = SubSeq(goal, 1, Len(goal))
  <2>1. /\ 1 \in 1 .. Len(goal) + 1 /\ m \in 1 - 1 .. Len(goal)
        /\ Len(goal) \in m .. Len(goal)
    BY <1>1, <1>2
  <2> QED BY <2>1, ConcatAdjacentSubSeq
<1>8. SubSeq(goal, 1, Len(goal)) = goal
  BY SubSeqFull
<1> QED BY <1>1, <1>3, <1>5, <1>6, <1>7, <1>8 DEF down

LEMMA JoinIsPath ==
  ASSUME NEW Entries, NEW dir \in Seq(Entries), NEW u \in Nat, NEW s \in Seq(Entries)
  PROVE  Join(dir, Rel(u, s)) \in Seq(Entries)
<1> DEFINE l == IF u < Len(dir) THEN Len(dir) - u ELSE 0
<1>1. Len(dir) \in Nat
  BY LenProperties
<1>2. l \in Nat /\ l <= Len(dir)
  BY <1>1
<1>3. Join(dir, Rel(u, s)) = SubSeq(dir, 1, l) \o s
  BY DEF Join, Rel
<1> HIDE DEF l
<1>4. \A i \in 1 .. l : dir[i] \in Entries
  BY <1>1, <1>2, ElementOfSeq
<1>5. SubSeq(dir, 1, l) \in Seq(Entries)
  BY <1>2, <1>4, SubSeqProperties
<1> QED BY <1>3, <1>5, ConcatProperties

\* resolveSchemaPath: from its new place a reference leads where it led.
LEMMA ResolvedMeansTheSame ==
  ASSUME NEW Entries, NEW p, IsPath(p, Entries), p \notin {NoSchema, Blank},
         NEW from \in Seq(Entries), NEW to \in Seq(Entries)
  PROVE  Join(to, ResolveSchemaPath(p, from, to)) = Join(from, p)
<1>1. CASE \E s \in Seq(Entries) : p = Abs(s)
  BY <1>1 DEF Abs, ResolveSchemaPath, Join
<1>2. CASE \E u \in Nat, s \in Seq(Entries) : p = Rel(u, s)
  <2>1. p.kind = "rel" /\ Join(from, p) \in Seq(Entries)
    BY <1>2, JoinIsPath DEF Rel
  <2> QED BY <2>1, RelToLeadsThere DEF ResolveSchemaPath
<1> QED BY <1>1, <1>2 DEF IsPath

SchemaInv(Entries) ==
  /\ target \in Seq(Entries) /\ Len(files) \in Nat /\ DOMAIN files = 1 .. Len(files)
  /\ \A i \in DOMAIN files : files[i].dir \in Seq(Entries) /\ IsPath(files[i].schema, Entries)
  /\ reached \in 0 .. Len(files) /\ SchemaMeans

LEMMA InitSchema == ASSUME NEW Entries, SchemaInit(Entries) PROVE SchemaInv(Entries)
<1>1. Len(files) \in Nat /\ DOMAIN files = 1 .. Len(files)
  BY LenProperties DEF SchemaInit
<1>2. reached = 0 /\ 1 .. reached = {}
  BY DEF SchemaInit
<1> QED BY <1>1, <1>2 DEF SchemaInit, SchemaInv, SchemaMeans

LEMMA StepSchema == ASSUME NEW Entries, SchemaInv(Entries), NextSchema PROVE SchemaInv(Entries)'
<1> DEFINE f == files[reached + 1]
<1>1. /\ reached' = reached + 1 /\ files' = files /\ target' = target
      /\ reached < Len(files)
      /\ schema' = IF f.schema = NoSchema THEN schema
                   ELSE ResolveSchemaPath(f.schema, f.dir, target)
  BY DEF NextSchema
<1>2. /\ reached \in Nat /\ reached + 1 \in DOMAIN files /\ reached' \in 0 .. Len(files)
      /\ f.dir \in Seq(Entries) /\ IsPath(f.schema, Entries)
  BY <1>1 DEF SchemaInv
<1>3. ASSUME NEW i \in 1 .. reached', Decides(i)'
      PROVE  Join(target, schema') = Join(files[i].dir, files[i].schema)
  <2>1. /\ files[i].schema \notin {NoSchema, Blank}
        /\ \A k \in i + 1 .. reached + 1 : files[k].schema = NoSchema
    BY <1>1, <1>3 DEF Decides
  <2>2. CASE i = reached + 1
    <3>1. schema' = ResolveSchemaPath(files[i].schema, files[i].dir, target)
      BY <1>1, <2>1, <2>2
    <3> QED BY <1>2, <2>1, <2>2, <3>1, ResolvedMeansTheSame DEF SchemaInv
  <2>3. CASE i \in 1 .. reached
    <3>1. f.schema = NoSchema
      BY <1>2, <2>1, <2>3
    <3>2. Decides(i)
      BY <1>2, <2>1, <2>3 DEF Decides
    <3> QED BY <1>1, <2>3, <3>1, <3>2 DEF SchemaInv, SchemaMeans
  <2> QED BY <1>1, <1>2, <2>2, <2>3
<1>4. SchemaMeans'
  BY <1>1, <1>3 DEF SchemaMeans
<1> QED BY <1>1, <1>2, <1>4 DEF SchemaInv

\* The reference to the schema, rewritten file by file for where the merged file is
\* to lie, leads to where the last file that names one leads from its own directory
\* (MergeRawConfigurationFiles, resolveSchemaPath): for any directories and files.
THEOREM SchemaIsFound ==
  ASSUME NEW CONSTANT Entries
  PROVE  SchemaSpec(Entries) => []SchemaMeans
<1>1. SchemaInit(Entries) => SchemaInv(Entries)
  BY InitSchema
<1>2. SchemaInv(Entries) /\ [NextSchema]_schemaVars => SchemaInv(Entries)'
  <2> SUFFICES ASSUME SchemaInv(Entries), [NextSchema]_schemaVars PROVE SchemaInv(Entries)'
    OBVIOUS
  <2>1. CASE UNCHANGED schemaVars
    BY <2>1 DEF schemaVars, SchemaInv, SchemaMeans, Decides
  <2> QED BY <2>1, StepSchema
<1>3. SchemaInv(Entries) => SchemaMeans
  BY DEF SchemaInv
<1> QED BY <1>1, <1>2, <1>3, PTL DEF SchemaSpec

-----------------------------------------------------------------------------
(* Side by side *)

LEMMA DocumentTyped ==
  ASSUME DefInv, NEW p \in Places, NEW i \in DOMAIN StepAt(p).dependsOn
  PROVE  StepAt(p).dependsOn[i] \in Identifiers
<1>1. StepAt(p).dependsOn \in Seq(Identifiers)
  BY DEF DefInv, IsDocument, IsStep, Places, StepAt
<1> QED BY <1>1, LenProperties

\* Whatever of pipelines, topology files, their combination and the search for
\* cycles is read at once, each is where its code can be and holds what it can
\* hold; dependsOn in particular holds identifiers, whatever has rearranged it.
THEOREM DefinitionTypes == DefinitionsSpec => []TypesOK
<1>1. DefInv => DefTypeOK
  BY DocumentTyped DEF DefInv, DefTypeOK
<1>2. FileInv => TopoTypeOK
  BY DEF FileInv
<1>3. IInv => TypeOK
  BY DEF IInv, LoadInv
<1>4. CycleIInv => CycleTypeOK
  BY DEF CycleIInv
<1>5. DefTypeOK /\ TopoTypeOK /\ TypeOK /\ CycleTypeOK => TypesOK
  BY DEF TypesOK
<1> QED
  BY <1>1, <1>2, <1>3, <1>4, <1>5, DefinitionInvariant, FileInvariant, LoadInvariant,
     SearchInvariant, PTL DEF DefinitionsSpec
=============================================================================
