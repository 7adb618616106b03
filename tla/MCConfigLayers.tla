------------------------------- MODULE MCConfigLayers -------------------------
EXTENDS ConfigLayers

\* Trees with the keys a, a.b, a.c and a.c.d, their values marked with v.
Trees(v) ==
  LET deep == {Map([k \in {"d"} |-> Value(v)]), Value(v)}
      maps == {Map([k \in D |-> IF k = "b" THEN Value(v) ELSE c]) :
                 D \in SUBSET {"b", "c"}, c \in deep}
  IN  {Empty, Map([k \in {"a"} |-> Value(v)])} \cup
      {Map([k \in {"a"} |-> m]) : m \in maps}

MCPaths == {<<"a">>, <<"a", "b">>, <<"a", "c">>, <<"a", "c", "d">>}

MCOverrides ==
  {[defaults |-> d, cloud |-> c, env |-> e, region |-> r] :
     d \in Trees(1), c \in Trees(2) \cup {Absent}, e \in Trees(3) \cup {Absent},
     r \in Trees(4) \cup {Absent}}

MCInputs ==
  LET schemas == {NoSchema, Blank, Abs(<<"x", "s">>), Rel(0, <<"s">>),
                  Rel(1, <<"y", "s">>), Rel(3, <<"s">>)}
      fs == {[dir |-> d, schema |-> s, config |-> Map([k \in {"a"} |-> Value(1)])] :
               d \in {<<"x">>, <<"x", "y">>}, s \in schemas}
  IN  {[files |-> <<f, g>>, target |-> t] : f, g \in fs,
         t \in {<<>>, <<"x">>, <<"y", "z">>}}
===============================================================================
