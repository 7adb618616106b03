----------------------------- MODULE MCProwGate ------------------------------
EXTENDS ProwGate
CONSTANTS j1, j2, j3, t1, t2

MCJobs  == {j1, j2, j3}
MCTests == {t1, t2}

\* Nothing failed; a known issue; a known one and another; two known ones.
MCReports == {[failed |-> {}, allowed |-> {}],
              [failed |-> {t1}, allowed |-> {t1}],
              [failed |-> {t1, t2}, allowed |-> {t1}],
              [failed |-> {t1, t2}, allowed |-> {t1, t2}]}
=============================================================================
