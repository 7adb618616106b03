SPECIFICATION Spec
CONSTANTS
  j1 = j1
  j2 = j2
  j3 = j3
  t1 = t1
  t2 = t2
  NoJob = NoJob
  Jobs <- MCJobs
  Tests <- MCTests
  Reports <- MCReports
  Attempts = 3
  MaxFailures = 1
  MaxReruns = 0
CHECK_DEADLOCK FALSE
INVARIANT PermanentUnchanged
