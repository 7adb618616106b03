---------------------------- MODULE MCPipelineDefinition ----------------------
EXTENDS PipelineDefinition

\* Resource group 1 has the steps 1 and 2, and what group 2 says varies.
NoInputs == [f \in {} |-> {}]
Step(n, a, d, in, id) ==
  [name |-> n, action |-> a, dependsOn |-> d, inputs |-> in, identity |-> id,
   copyFrom |-> "", publicSource |-> FALSE]
Plain(n) == Step(n, "ARM", << >>, NoInputs, NoStep)
Group(n, s, v) == [name |-> n, subscription |-> TRUE, steps |-> s, validation |-> v]

First == Group(1, <<Plain(1), Plain(2)>>, << >>)

OutputIds == {<<1, 1>>, <<1, 2>>, <<2, 1>>}
Declared == {<< >>, << <<1, 2>>, <<1, 1>> >>, << <<2, 2>>, <<1, 2>>, <<1, 1>> >>,
             << <<1, 2>>, <<1, 2>>, <<1, 2>> >>}

Of(step) == <<First, Group(2, <<step, Plain(2)>>, << >>)>>

\* Every field of every type of step, with every order of dependsOn.
ByField ==
  UNION {{Of(Step(3, a, d, [g \in {f} |-> {i}], id)) :
            f \in Actions[a].fields, d \in Declared, i \in OutputIds,
            id \in {NoStep, <<2, 2>>}} : a \in DOMAIN Actions}

\* Two outputs at once, in one field or two; no fields at all.
ByPair ==
  {Of(Step(3, "Shell", d, [variables |-> v, dryRunVariables |-> w], NoStep)) :
     d \in Declared, v \in SUBSET {<<1, 1>>, <<2, 2>>}, w \in SUBSET {<<1, 1>>, <<1, 2>>}}
Bare == {Of(Step(3, a, d, NoInputs, id)) :
           a \in DOMAIN Actions \cup {"other"}, d \in Declared, id \in {NoStep, <<1, 1>>}}

Mirrors ==
  {Of([Step(3, "ImageMirror", d, in, NoStep) EXCEPT !.copyFrom = c, !.publicSource = b]) :
     d \in {<< >>, << <<1, 2>> >>}, c \in {"", "oci-layout"}, b \in BOOLEAN,
     in \in {[f \in {g, "targetACR"} |-> IF f = g THEN {<<1, 1>>} ELSE {<<1, 2>>}] :
               g \in ImageMirrorStep.fields}}

\* Names that are duplicated or missing, in a group or between two.
Broken ==
  {<<First, [Group(g, <<Plain(s)>>, <<Plain(3), Plain(v)>>) EXCEPT !.subscription = b],
     Group(3, <<Plain(1), Plain(t)>>, << >>)>> :
     g \in {0, 1, 2}, s \in {1, 3}, v \in {1, 3}, t \in {1, 2}, b \in BOOLEAN}

MCDocuments == ByField \cup ByPair \cup Bare \cup Mirrors \cup Broken
===============================================================================
