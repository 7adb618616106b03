-------------------------- MODULE MCPipelineGraph ---------------------------
EXTENDS PipelineGraph, TLC
CONSTANTS A, B, C, s1, s2

MCServices == {A, B, C}
MCSteps    == {"a1", "b1", "b2", "c1", "c2"}
MCServiceOf == [t \in MCSteps |-> CASE t = "a1" -> A [] t \in {"b1", "b2"} -> B
                                    [] OTHER -> C]
\* B and C share the resource groups "x" and "y".
MCGroupOf  == [t \in MCSteps |-> CASE t = "a1" -> "g" [] t \in {"b1", "c1"} -> "x"
                                   [] OTHER -> "y"]
MCGroups   == {"g", "x", "y"}
MCStamps   == {s1, s2}

\* No input tells one stamp from the other.
Symmetry == Permutations(MCStamps)

Chain == [s \in MCServices |-> CASE s = A -> NoService [] s = B -> A [] s = C -> B]
Fork  == [s \in MCServices |-> IF s = A THEN NoService ELSE A]
Alone == [s \in MCServices |-> NoService]

\* Dependencies within B and within C, circular ones included.
DepChoices ==
  {[t \in MCSteps |->
      CASE t = "b1" -> b1 [] t = "b2" -> b2 [] t = "c1" -> c1 [] t = "c2" -> c2
        [] t = "a1" -> {}] :
     b1 \in SUBSET {"b2"}, b2 \in SUBSET {"b1"},
     c1 \in SUBSET {"c2"}, c2 \in SUBSET {"c1"}}

AcyclicChoices == {d \in DepChoices : d["b1"] = {} /\ d["c1"] = {}}

NoExternal == [t \in MCSteps |-> {}]
SameMeta   == [s \in MCServices |-> 1]
NoGroups   == [s \in MCServices |-> {}]

\* All services declare the same groups as stamped.
SameGroups == {[s \in MCServices |-> g \cap (IF s = A THEN {"g"} ELSE {"x", "y"})] :
                 g \in SUBSET MCGroups}

Record(p, e, st, ss, ld, gs, me, pr, de, ex, om) ==
  [parent |-> p, entrypoints |-> e, stamped |-> st, stamps |-> ss, loaded |-> ld,
   stampedGroups |-> gs, meta |-> me, provisions |-> pr, deps |-> de,
   external |-> ex, omitted |-> om]

\* The order of services: trees, stamps, omitted steps.
OrderInputs ==
  {Record(p, {A}, st, ss, MCServices, gs, SameMeta, {}, de, NoExternal, om) :
     p \in {Chain, Fork}, st \in {{}, {C}, {B, C}, MCServices},
     ss \in {{}, MCStamps}, gs \in SameGroups,
     de \in {d \in DepChoices : d["c1"] = {}}, om \in SUBSET {"a1", "b1"}}

\* One or two dependencies across services, in a tree and among single ones.
ExternalChoices ==
  {[t \in MCSteps |-> (IF t = u THEN {d} ELSE {}) \cup (IF t = v THEN {e} ELSE {})] :
     u \in {"a1", "b2"}, d \in {"b1", "c2"}, v \in {"b1", "c1"},
     e \in {"a1", "b2", "c2"}}

ExternalInputs ==
  {Record(p, e, st, ss, MCServices, gs, SameMeta, {}, de, ex, {"b1"}) :
     p \in {Chain, Alone}, e \in {{A}, MCServices}, st \in {{}, {B, C}},
     ss \in {{}, MCStamps}, gs \in {gs \in SameGroups : gs[A] = {}},
     de \in AcyclicChoices, ex \in ExternalChoices}

\* Pipelines that do not go together.
ConflictInputs ==
  {Record(Fork, e, st, MCStamps, ld, gs, me, pr, de, NoExternal, {}) :
     e \in {{A}, {A, B}}, st \in {{B}, {B, C}}, ld \in {{A, B}, MCServices},
     gs \in [MCServices -> {{}, {"x"}}],
     me \in [MCServices -> {1, 2}], pr \in SUBSET {B, C},
     de \in {d \in AcyclicChoices : d["c2"] = {}}}

AllInputs == OrderInputs \cup ExternalInputs \cup ConflictInputs

\* A step that names itself.
SelfInputs ==
  {Record(Chain, {A}, {}, {}, MCServices, NoGroups, SameMeta, {}, de,
          [t \in MCSteps |-> IF t \in ex THEN {t} ELSE {}], {}) :
     de \in DepChoices, ex \in SUBSET MCSteps}
=============================================================================
