--------------------------- MODULE ProwGate_proofs ---------------------------
(***************************************************************************)
(* A gate is passed only on success, and run again only for known issues:  *)
(* whatever Prow answers, loses or delays, and for any number of jobs.     *)
(***************************************************************************)
EXTENDS ProwGate, FiniteSetTheorems, TLAPS

LEMMA NoTries == 0 \in 0..Attempts
<1>1. Attempts \in Nat
  BY ParametersAssumption
<1> QED
  BY <1>1

LEMMA InitIInv == Init => IInv
<1> SUFFICES ASSUME Init PROVE IInv
  OBVIOUS
<1>0. Attempts \in Nat /\ MaxReruns \in Nat
  BY ParametersAssumption
<1>1. TypeOK
  <2>1. Nothing \in Report
    BY DEF Nothing, Report
  <2>2. jobs \in [Jobs -> States] /\ visible \subseteq Jobs
    BY DEF Init, States
  <2>3. report \in [Jobs -> Report]
    BY <2>1 DEF Init
  <2>4. tries \in 0..Attempts /\ reruns \in 0..MaxReruns
    BY <1>0 DEF Init
  <2> QED
    BY <2>2, <2>3, <2>4 DEF Init, TypeOK, Errors
<1> QED
  BY <1>1, ParametersAssumption DEF Init, IInv

\* The type in parts: the flags, Prow's, and the tool's.
FlagsType == gate \in BOOLEAN /\ allowRetry \in BOOLEAN
ProwType == jobs \in [Jobs -> States] /\ visible \subseteq Jobs
            /\ report \in [Jobs -> Report]
CallType == /\ tries \in 0..Attempts /\ lastErr \in Errors
            /\ transientErr \in BOOLEAN /\ id \in Jobs \cup {NoJob}
WaitType == /\ job \in {"nil", "running"} /\ expired \in BOOLEAN
            /\ pc \in {"submit", "poll", "select", "marker", "ended"}
            /\ outcome \in {"none", "ok", "failed", "retryable", "timeout",
                            "submit failed", "exhausted"}

LEMMA TypeParts == TypeOK <=> /\ FlagsType /\ ProwType /\ CallType /\ WaitType
                            /\ reruns \in 0..MaxReruns
BY DEF TypeOK, FlagsType, ProwType, CallType, WaitType

\* A call that failed is repeated within the budget, or ends the step.
LEMMA CallFailedStep ==
  ASSUME IInv, pc = "submit", NEW kind \in Errors \ {"nil"}, CallFailed(kind)
  PROVE  /\ CallType'
         /\ \/ UNCHANGED <<pc, outcome>> /\ tries' < Attempts
            \/ pc' = "ended" /\ outcome' \in {"exhausted", "submit failed"}
<1>1. /\ tries' = tries + 1 /\ lastErr' = kind /\ id' = id
      /\ transientErr' = (transientErr \/ kind = "transient")
  BY DEF CallFailed
<1>2. tries \in 0..Attempts /\ tries < Attempts /\ id \in Jobs \cup {NoJob}
  BY DEF IInv, TypeOK
<1>3. \/ UNCHANGED <<pc, outcome>> /\ tries' < Attempts
      \/ pc' = "ended" /\ outcome' \in {"exhausted", "submit failed"}
  <2>1. CASE kind = "transient" /\ tries' < Attempts
    BY <2>1 DEF CallFailed
  <2>2. CASE ~(kind = "transient" /\ tries' < Attempts)
    BY <2>2 DEF CallFailed, Return
  <2> QED
    BY <2>1, <2>2
<1>4. tries' \in 0..Attempts
  BY <1>1, <1>2, ParametersAssumption
<1>5. transientErr' \in BOOLEAN
  BY <1>1
<1> QED
  BY <1>1, <1>2, <1>3, <1>4, <1>5 DEF CallType, Errors

\* A new job, whatever becomes of the answer, touches no job a run waits for.
LEMMA AcceptType ==
  ASSUME ProwType, NEW j \in Jobs, Accept(j), UNCHANGED <<visible, report>>
  PROVE  ProwType'
BY DEF ProwType, Accept, States

LEMMA SubmittedStep ==
  ASSUME IInv, UNCHANGED <<gate, allowRetry>>, NEW j \in Jobs, Submitted(j)
  PROVE  IInv'
<1>0. ProwType
  BY DEF IInv, TypeOK, FlagsType, ProwType
<1>1. ProwType'
  BY <1>0, AcceptType DEF Submitted
<1>2. CallType' /\ WaitType' /\ reruns' \in 0..MaxReruns
  <2>1. CallType'
    BY NoTries DEF Submitted, CallType, Errors
  <2> QED
    BY <2>1 DEF Submitted, IInv, TypeOK, WaitType
<1>3. pc' = "poll" /\ id' \in Jobs /\ outcome' = "none"
  BY DEF Submitted, IInv
<1> QED
  BY <1>1, <1>2, <1>3, TypeParts DEF IInv, TypeOK, FlagsType, ProwType, CallType, WaitType

LEMMA FailedStep ==
  ASSUME IInv, UNCHANGED <<gate, allowRetry>>, pc = "submit", ProwType',
         UNCHANGED <<job, expired, reruns>>,
         \E kind \in Errors \ {"nil"} : CallFailed(kind)
  PROVE  IInv'
<1>1. PICK kind \in Errors \ {"nil"} : CallFailed(kind)
  OBVIOUS
<1>2. /\ CallType'
      /\ \/ UNCHANGED <<pc, outcome>> /\ tries' < Attempts
         \/ pc' = "ended" /\ outcome' \in {"exhausted", "submit failed"}
  BY <1>1, CallFailedStep
<1>3. WaitType' /\ reruns' \in 0..MaxReruns
  BY <1>2 DEF IInv, TypeOK, WaitType
<1>4. outcome = "none"
  BY DEF IInv
<1>5. TypeOK'
  BY <1>2, <1>3 DEF IInv, TypeOK, FlagsType, ProwType, CallType, WaitType
<1> QED
  BY <1>2, <1>4, <1>5 DEF IInv

LEMMA AnswerLostStep ==
  ASSUME IInv, UNCHANGED <<gate, allowRetry>>, NEW j \in Jobs, AnswerLost(j)
  PROVE  IInv'
<1>0. ProwType
  BY DEF IInv, TypeOK, FlagsType, ProwType
<1>1. ProwType'
  BY <1>0, AcceptType DEF AnswerLost
<1> QED
  BY <1>1, FailedStep DEF AnswerLost

LEMMA RefusedStep == ASSUME IInv, UNCHANGED <<gate, allowRetry>>, Refused PROVE IInv'
<1>1. ProwType'
  BY DEF Refused, NotReached, IInv, TypeOK, FlagsType, ProwType
<1> QED
  BY <1>1, FailedStep DEF Refused

\* The only way past a gate, and the only way to the marker.
LEMMA PollAnsweredStep ==
  ASSUME IInv, UNCHANGED <<gate, allowRetry>>, PollAnswered
  PROVE  IInv'
<1>1. /\ pc = "poll" /\ id \in Jobs /\ outcome = "none"
      /\ UNCHANGED <<jobs, visible, report, tries, lastErr, transientErr, id,
                     expired, reruns>>
  BY DEF PollAnswered, IInv, prow, call
<1>2. \/ Passes(jobs[id]) /\ pc' = "ended" /\ outcome' = "ok" /\ UNCHANGED job
      \/ ~Passes(jobs[id]) /\ Fail(jobs[id]) /\ UNCHANGED job
      \/ job' = "running" /\ pc' = "select" /\ UNCHANGED outcome
  BY DEF PollAnswered, Return
<1>3. TypeOK => ProwType' /\ CallType' /\ reruns' \in 0..MaxReruns /\ expired' \in BOOLEAN
  BY <1>1 DEF TypeOK, FlagsType, ProwType, CallType
<1>4. CASE Passes(jobs[id]) /\ pc' = "ended" /\ outcome' = "ok" /\ UNCHANGED job
  <2>1. TypeOK'
    BY <1>3, <1>4 DEF IInv, TypeOK, FlagsType, ProwType, CallType
  <2>2. gate => jobs'[id'] = "success" /\ id' \in Jobs
    BY <1>1, <1>4 DEF Passes
  <2> QED
    BY <1>4, <2>1, <2>2 DEF IInv, Known
<1>5. CASE ~Passes(jobs[id]) /\ Fail(jobs[id]) /\ UNCHANGED job
  <2>1. CASE jobs[id] = "failure" /\ allowRetry
    <3>1. pc' = "marker" /\ UNCHANGED outcome
      BY <1>5, <2>1 DEF Fail
    <3>2. TypeOK'
      BY <1>1, <1>3, <1>5, <3>1 DEF IInv, TypeOK, FlagsType, ProwType, CallType
    <3> QED
      BY <1>1, <2>1, <3>1, <3>2 DEF IInv, Known
  <2>2. CASE ~(jobs[id] = "failure" /\ allowRetry)
    <3>1. pc' = "ended" /\ outcome' = "failed"
      BY <1>5, <2>2 DEF Fail, Return
    <3>2. gate
      BY <1>5, ParametersAssumption DEF Passes
    <3>3. TypeOK'
      BY <1>1, <1>3, <1>5, <3>1 DEF IInv, TypeOK, FlagsType, ProwType, CallType
    <3> QED
      BY <3>1, <3>2, <3>3 DEF IInv
  <2> QED
    BY <2>1, <2>2
<1>6. CASE job' = "running" /\ pc' = "select" /\ UNCHANGED outcome
  <2>1. TypeOK'
    BY <1>1, <1>3, <1>6 DEF IInv, TypeOK, FlagsType, ProwType, CallType
  <2> QED
    BY <1>1, <1>6, <2>1 DEF IInv
<1> QED
  BY <1>2, <1>4, <1>5, <1>6

\* Steps of the wait that decide nothing.
LEMMA WaitStep ==
  ASSUME IInv, UNCHANGED <<gate, allowRetry>>, PollFailed \/ Tick \/ TimedOut \/ Expire
  PROVE  IInv'
<1>1. /\ UNCHANGED <<jobs, visible, report, tries, lastErr, transientErr, id, reruns>>
      /\ pc \in {"poll", "select"} /\ id \in Jobs /\ outcome = "none"
      /\ \/ pc' \in {"poll", "select"} /\ UNCHANGED outcome
         \/ pc' = "ended" /\ outcome' = "timeout"
      /\ job' \in {"nil", "running"} /\ expired' \in BOOLEAN
  BY DEF PollFailed, Tick, TimedOut, Expire, Return, IInv, TypeOK, prow, call
<1>2. TypeOK'
  BY <1>1 DEF IInv, TypeOK
<1> QED
  BY <1>1, <1>2 DEF IInv

LEMMA CheckMarkerStep ==
  ASSUME IInv, UNCHANGED <<gate, allowRetry>>, CheckMarker
  PROVE  IInv'
<1>1. /\ UNCHANGED <<jobs, visible, report, tries, lastErr, transientErr, id, job,
                     expired, reruns>>
      /\ pc = "marker" /\ pc' = "ended"
      /\ \/ outcome' = "failed"
         \/ outcome' = "retryable" /\ Eligible(report[id])
  BY DEF CheckMarker, Return, prow, call
<1>2. TypeOK'
  BY <1>1 DEF IInv, TypeOK
<1>3. allowRetry /\ Known("failure") /\ gate
  BY <1>1, ParametersAssumption DEF IInv
<1>4. Known("failure")' /\ (Eligible(report[id]) => Eligible(report[id])')
  BY <1>1, <1>3 DEF Known, Eligible
<1> QED
  BY <1>1, <1>2, <1>3, <1>4 DEF IInv

LEMMA RerunStep == ASSUME IInv, UNCHANGED <<gate, allowRetry>>, Rerun PROVE IInv'
<1>1. /\ UNCHANGED <<jobs, visible, report>> /\ reruns' = reruns + 1
      /\ reruns < MaxReruns /\ pc' = "submit" /\ tries' = 0 /\ lastErr' = "nil"
      /\ transientErr' = FALSE /\ id' = NoJob /\ job' = "nil" /\ expired' = FALSE
      /\ outcome' = "none"
  BY DEF Rerun, Start, prow
<1>2. ProwType' /\ CallType' /\ WaitType'
  <2>1. CallType'
    BY <1>1, NoTries DEF CallType, Errors
  <2> QED
    BY <1>1, <2>1 DEF IInv, TypeOK, FlagsType, ProwType, WaitType
<1>3. reruns' \in 0..MaxReruns
  <2>1. MaxReruns \in Nat
    BY ParametersAssumption
  <2>2. reruns \in 0..MaxReruns /\ reruns < MaxReruns /\ reruns' = reruns + 1
    BY <1>1 DEF IInv, TypeOK
  <2> QED
    BY <2>1, <2>2
<1>4. TypeOK'
  BY <1>2, <1>3 DEF IInv, TypeOK, FlagsType, ProwType, CallType, WaitType
<1> QED
  BY <1>1, <1>4, ParametersAssumption DEF IInv

\* Prow's steps leave a job that has ended, and its report, as they are.
LEMMA ProwStep ==
  ASSUME IInv, UNCHANGED <<gate, allowRetry>>, NEW j \in Jobs, Listed(j) \/ Ends(j)
  PROVE  IInv'
<1>1. UNCHANGED <<pc, tries, lastErr, transientErr, id, job, expired, outcome, reruns>>
  BY DEF Listed, Ends, call
<1>2. ProwType' /\ \A k \in Jobs : jobs[k] \in Ended => jobs'[k] = jobs[k] /\ report'[k] = report[k]
  <2>1. CASE Listed(j)
    BY <2>1 DEF Listed, IInv, TypeOK, FlagsType, ProwType
  <2>2. CASE Ends(j)
    <3>1. PICK s \in Ended, r \in Reports :
            jobs' = [jobs EXCEPT ![j] = s] /\ report' = [report EXCEPT ![j] = r]
      BY <2>2 DEF Ends
    <3>2. jobs[j] \notin Ended /\ UNCHANGED visible
      BY <2>2 DEF Ends, Ended
    <3>3. r \in Report /\ s \in States
      BY ReportsAssumption DEF States
    <3> QED
      BY <3>1, <3>2, <3>3 DEF IInv, TypeOK, FlagsType, ProwType
  <2> QED
    BY <2>1, <2>2
<1>3. TypeOK'
  BY <1>1, <1>2 DEF IInv, TypeOK, FlagsType, ProwType
<1>4. \A state \in Ended : Known(state) => Known(state)' /\ report'[id'] = report[id]
  BY <1>1, <1>2 DEF Known
<1>5. "success" \in Ended /\ "failure" \in Ended
  BY DEF Ended
<1>6. Known("failure") /\ Eligible(report[id]) => Eligible(report[id])'
  BY <1>4, <1>5 DEF Eligible
<1> QED
  BY <1>1, <1>3, <1>4, <1>5, <1>6 DEF IInv

LEMMA NextIInv == IInv /\ [Next]_vars => IInv'
<1> SUFFICES ASSUME IInv, [Next]_vars PROVE IInv'
  OBVIOUS
<1>0. UNCHANGED <<gate, allowRetry>>
  BY DEF Next, Tool, Submitted, AnswerLost, Refused, PollAnswered, PollFailed, Tick,
         TimedOut, CheckMarker, Expire, Rerun, Listed, Ends, vars, flags
<1>1. ASSUME NEW j \in Jobs, Submitted(j) \/ AnswerLost(j) PROVE IInv'
  BY <1>0, <1>1, SubmittedStep, AnswerLostStep
<1>2. CASE Refused
  BY <1>0, <1>2, RefusedStep
<1>3. CASE PollAnswered
  BY <1>0, <1>3, PollAnsweredStep
<1>4. CASE PollFailed \/ Tick \/ TimedOut \/ Expire
  BY <1>0, <1>4, WaitStep
<1>5. CASE CheckMarker
  BY <1>0, <1>5, CheckMarkerStep
<1>6. CASE Rerun
  BY <1>0, <1>6, RerunStep
<1>7. ASSUME NEW j \in Jobs, Listed(j) \/ Ends(j) PROVE IInv'
  BY <1>0, <1>7, ProwStep
<1>8. CASE UNCHANGED vars
  BY <1>8 DEF vars, flags, prow, call, IInv, TypeOK, Known, Eligible
<1> QED
  BY <1>1, <1>2, <1>3, <1>4, <1>5, <1>6, <1>7, <1>8 DEF Next, Tool

\* The inductive invariant: whatever becomes of requests and answers, the tool
\* ends a run on what it has seen of the very job it waited for.
THEOREM StepInvariant == Spec => []IInv
<1>1. Init => IInv
  BY InitIInv
<1>2. IInv /\ [Next]_vars => IInv'
  BY NextIInv
<1> QED
  BY <1>1, <1>2, PTL DEF Spec

\* A gate is passed only on a job of this run of the step that has succeeded.
THEOREM GateSafe == Spec => []GateHolds
<1>1. IInv => GateHolds
  BY DEF IInv, GateHolds, Known
<1> QED
  BY <1>1, StepInvariant, PTL

\* Without a gate, no end of a job stops the rollout.
THEOREM OpenNeverBlocks == Spec => []NeverBlocks
<1>1. IInv => NeverBlocks
  BY ParametersAssumption DEF IInv, NeverBlocks
<1> QED
  BY <1>1, StepInvariant, PTL

\* The gate decides on the end of this run's job, and on nothing else.
THEOREM GateCorrect == Spec => []GateDecides
<1>1. GateHolds /\ NeverBlocks => GateDecides
  BY DEF GateDecides
<1> QED
  BY <1>1, GateSafe, OpenNeverBlocks, PTL

\* A report that is eligible names at least one failure, and few.
LEMMA EligibleCount ==
  ASSUME NEW r \in Report, Eligible(r)
  PROVE  Cardinality(r.failed) \in 1..MaxFailures
<1>1. r.failed \subseteq Tests
  BY DEF Report
<1>2. IsFiniteSet(r.failed)
  BY <1>1, ReportsAssumption, FS_Subset
<1>3. Cardinality(r.failed) \in Nat
  BY <1>2, FS_CardinalityType
<1>4. Cardinality(r.failed) # 0
  BY <1>2, FS_EmptySet DEF Eligible
<1> QED
  BY <1>3, <1>4, ParametersAssumption DEF Eligible

\* EV2 runs the step again only after a failure made of known issues, and few.
THEOREM RerunsSafe == Spec => RerunsKnownIssues
<1> DEFINE Known1 == /\ gate /\ allowRetry /\ jobs[id] = "failure"
                     /\ Cardinality(report[id].failed) \in 1..MaxFailures
                     /\ \A t \in report[id].failed : t \in report[id].allowed
<1>1. IInv /\ [Next]_vars => [reruns' # reruns => Known1]_vars
  <2> SUFFICES ASSUME IInv, Next, reruns' # reruns PROVE Known1
    OBVIOUS
  <2>1. Rerun
    BY DEF Next, Tool, Submitted, AnswerLost, Refused, PollAnswered, PollFailed, Tick,
           TimedOut, CheckMarker, Expire, Listed, Ends
  <2>2. allowRetry /\ Known("failure") /\ Eligible(report[id]) /\ gate
    BY <2>1, ParametersAssumption DEF Rerun, IInv
  <2>3. report[id] \in Report
    BY <2>2 DEF IInv, TypeOK, Known
  <2>4. Cardinality(report[id].failed) \in 1..MaxFailures
    BY <2>2, <2>3, EligibleCount
  <2> QED
    BY <2>2, <2>4 DEF Known, Eligible
<1> QED
  BY <1>1, StepInvariant, PTL DEF Spec, RerunsKnownIssues
=============================================================================
