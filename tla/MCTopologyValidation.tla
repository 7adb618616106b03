---------------------------- MODULE MCTopologyValidation ----------------------
EXTENDS TopologyValidation
CONSTANTS ta, tb, tc, bad

\* Preorder: a service is below the one before it, or below or beside one of
\* those that that is below.
MCShapes == {<< >>, <<0>>, <<0, 0>>, <<0, 1>>, <<0, 0, 0>>, <<0, 0, 2>>,
             <<0, 1, 0>>, <<0, 1, 1>>, <<0, 1, 2>>}
MCOwn == <<ta, tb, tc>>
MCTopology(p, m, s, e, f) ==
  [parent |-> p, name |-> m, stamped |-> s, entrypoints |-> e,
   purpose |-> [i \in DOMAIN p |-> "given"],
   pipeline |-> [i \in DOMAIN p |-> IF i = 1 THEN f ELSE "given"]]

\* Every way to name services, and every way to stamp those named differently.
MCTopologies ==
  UNION {{MCTopology(p, m, [i \in DOMAIN p |-> "unset"], e, f) :
            m \in {n \in [DOMAIN p -> {ta, tb, tc, bad}] :
                     \A i \in DOMAIN p : n[i] \in {bad, ta, MCOwn[i]}},
            e \in {{}, {tb}}, f \in {"given", "metadata", "absent"}} : p \in MCShapes}
  \cup
  UNION {{MCTopology(p, [i \in DOMAIN p |-> MCOwn[i]], s, {}, "metadata") :
            s \in [DOMAIN p -> {"yes", "no", "unset"}]} : p \in MCShapes}
===============================================================================
