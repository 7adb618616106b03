------------------------ MODULE MCCombinedTopology -------------------------
EXTENDS CombinedTopology
CONSTANTS sa, sb, sc, sd, n1, n2, n3, n4, n5

MCServices == {sa, sb, sc, sd}
MCNames    == {n1, n2, n3, n4, n5}

\* sa is always top-level; every forest on the others, every externalParent on
\* services of any depth, and names of which two may be the same.
Locals == {l \in [MCServices -> MCServices \cup {NoService}] :
             /\ l[sa] = NoService /\ l[sb] \in {sa, NoService}
             /\ l[sc] \in {sa, sb, NoService} /\ l[sd] \in {sb, sc, NoService}}

TopOf(l) == [s \in MCServices |->
  LET up(x) == IF l[x] = NoService THEN x ELSE l[x]
  IN  up(up(up(s)))]

NameMaps == {[s \in MCServices |->
                CASE s = sa -> n1 [] s = sb -> n2 [] s = sc -> n3
                  [] s = sd -> last] : last \in {n3, n4}}

None == [s \in MCServices |-> "unset"]

\* Marks for the top, the middle and the bottom of sa tree.
MarkChoices ==
  {[s \in MCServices |-> CASE s = sa -> x [] s = sb -> y [] s = sc -> z
                           [] OTHER -> "unset"] :
     x \in {"yes", "unset"}, y \in Marks, z \in {"no", "unset"}}

\* Parents that are above, beside, the service itself, ambiguous or missing.
Externals ==
  {e \in [MCServices -> {n1, n2, n4, n5, NoName}] :
     /\ e[sa] \in {n2, n4, NoName} /\ e[sc] # n2 /\ e[sd] \in {n1, n2, NoName}}

\* Parents for the top-level services but sa, when no two names are the same.
Distinct == [s \in MCServices |-> CASE s = sa -> n1 [] s = sb -> n2 [] s = sc -> n3 [] s = sd -> n4]
TopExternals(l) ==
  LET named == {s \in MCServices \ {sa} : l[s] = NoService}
  IN  {[s \in MCServices |-> IF s \in named THEN e[s] ELSE NoName] :
         e \in [named -> {n1, n2, n4, NoName}]}

File(l, m, e, g, k) ==
  [local |-> l, top |-> TopOf(l), name |-> m, external |-> e, single |-> g,
   declared |-> k]

\* Every way to name parents, without marks; and marks where sa forest results.
MCFiles ==
  {File(l, m, e, FALSE, None) : l \in Locals, m \in NameMaps,
                                e \in Externals}
  \cup
  {File(l, m, [s \in MCServices |-> IF x /\ l[s] = NoService THEN n1 ELSE NoName],
        TRUE, k) : l \in Locals, m \in NameMaps, k \in MarkChoices, x \in BOOLEAN}
  \cup
  UNION {{File(l, Distinct, e, FALSE, k) : k \in MarkChoices, e \in TopExternals(l)} : l \in Locals}
=============================================================================
