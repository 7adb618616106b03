------------------------------ MODULE ProwGate -------------------------------
(***************************************************************************)
(* tools/prow-job-executor: the gating step of an EV2 rollout.  It submits *)
(* a Prow job (ExecuteAndWait, through retry.WithValue), watches it until  *)
(* it ends or time runs out, and then lets the rollout pass, stops it, or  *)
(* fails with the marker that makes EV2 run the whole step again.          *)
(*                                                                         *)
(* Prow and the network are the environment: a request may be lost on the  *)
(* way there or on the way back, a job shows up in the status API some     *)
(* time after it was accepted, and ends some time or never.                *)
(***************************************************************************)
EXTENDS Integers, FiniteSets

CONSTANTS
  Jobs, NoJob,    \* execution IDs that Prow gives out: bounds the jobs
  Attempts,       \* Steps of submitBackoff
  MaxFailures,    \* --max-ev2-auto-retry-failures
  MaxReruns,      \* EV2: maximumRetryCount of the step's automatedRetry
  Tests,
  Reports         \* the lists that the finished.json of a job may hold

Report  == [failed : SUBSET Tests, allowed : SUBSET Tests]
Nothing == [failed |-> {}, allowed |-> {}]

ASSUME ParametersAssumption ==
  /\ NoJob \notin Jobs
  /\ Attempts \in Nat \ {0} /\ MaxFailures \in Nat \ {0} /\ MaxReruns \in Nat
ASSUME ReportsAssumption == IsFiniteSet(Tests) /\ Reports \subseteq Report

VARIABLES
  gate, allowRetry,         \* --gate-promotion, --allow-ev2-retry: never changed
  jobs, visible, report,    \* Prow's: state, whether listed, finished.json
  pc,
  tries, lastErr,           \* of WithValue: calls made; kind of the last error
  transientErr,             \* of WithValue: its lastErr is not nil
  id,                       \* prowExecutionID
  job,                      \* what the last poll returned, "nil" for an error
  expired,                  \* the context of waitForCompletion has timed out
  outcome,
  reruns

flags == <<gate, allowRetry>>
prow == <<jobs, visible, report>>
call == <<tries, lastErr, transientErr>>
vars == <<flags, prow, pc, call, id, job, expired, outcome, reruns>>

Ended  == {"success", "failure", "error", "aborted"}
States == {"absent", "running"} \cup Ended
Errors == {"nil", "transient", "permanent"}

TypeOK ==
  /\ gate \in BOOLEAN /\ allowRetry \in BOOLEAN
  /\ jobs \in [Jobs -> States] /\ visible \subseteq Jobs
  /\ report \in [Jobs -> Report]
  /\ pc \in {"submit", "poll", "select", "marker", "ended"}
  /\ tries \in 0..Attempts /\ lastErr \in Errors /\ transientErr \in BOOLEAN
  /\ id \in Jobs \cup {NoJob}
  /\ job \in {"nil", "running"} /\ expired \in BOOLEAN
  /\ outcome \in {"none", "ok", "failed", "retryable", "timeout",
                  "submit failed", "exhausted"}
  /\ reruns \in 0..MaxReruns

Start ==
  /\ pc' = "submit" /\ tries' = 0 /\ lastErr' = "nil" /\ transientErr' = FALSE
  /\ id' = NoJob /\ job' = "nil" /\ expired' = FALSE /\ outcome' = "none"

\* Validate: the marker is for gated rollouts only.
Init ==
  /\ gate \in BOOLEAN /\ allowRetry \in BOOLEAN /\ (allowRetry => gate)
  /\ jobs = [j \in Jobs |-> "absent"] /\ visible = {}
  /\ report = [j \in Jobs |-> Nothing]
  /\ pc = "submit" /\ tries = 0 /\ lastErr = "nil" /\ transientErr = FALSE
  /\ id = NoJob /\ job = "nil" /\ expired = FALSE /\ outcome = "none"
  /\ reruns = 0

-----------------------------------------------------------------------------
(* SubmitJob: WithValue around submitJobOnce *)

\* Prow takes the job, or the request did not get there.
Accept(j)  == jobs[j] = "absent" /\ jobs' = [jobs EXCEPT ![j] = "running"]
NotReached == UNCHANGED jobs

Return(o) == pc' = "ended" /\ outcome' = o

\* What WithValue makes of a call that failed.
CallFailed(kind) ==
  /\ tries' = tries + 1 /\ lastErr' = kind
  /\ transientErr' = (transientErr \/ kind = "transient")
  /\ IF kind = "transient" /\ tries' < Attempts
       THEN UNCHANGED <<pc, outcome>>
       ELSE Return(IF transientErr' THEN "exhausted" ELSE "submit failed")
  /\ UNCHANGED id

\* The answer arrives.
Submitted(j) ==
  /\ pc = "submit" /\ Accept(j)
  /\ id' = j /\ pc' = "poll"
  /\ tries' = 0 /\ lastErr' = "nil" /\ transientErr' = FALSE
  /\ UNCHANGED <<flags, visible, report, job, expired, outcome, reruns>>

\* The job is accepted, and the answer is lost or a 5xx (transient), or
\* cannot be decoded (permanent).
AnswerLost(j) ==
  /\ pc = "submit" /\ Accept(j)
  /\ \E kind \in Errors \ {"nil"} : CallFailed(kind)
  /\ UNCHANGED <<flags, visible, report, job, expired, reruns>>

\* Rate limit, 5xx or network (transient); any other 4xx (permanent).
Refused ==
  /\ pc = "submit" /\ NotReached
  /\ \E kind \in Errors \ {"nil"} : CallFailed(kind)
  /\ UNCHANGED <<flags, visible, report, job, expired, reruns>>

-----------------------------------------------------------------------------
(* waitForCompletion *)

\* Mutant: whatever is not a failure of the tests lets the rollout pass.
PassesUnlessFailure(state) == state # "failure" \/ ~gate
\* What a job that has ended means for the rollout.
Passes(state) == state = "success" \/ ~gate

\* ExecuteAndWait looks at finished.json for a job in the failure state only.
Fail(state) ==
  IF state = "failure" /\ allowRetry THEN pc' = "marker" /\ UNCHANGED outcome
                                     ELSE Return("failed")

\* GetJobStatus returns a job.
PollAnswered ==
  /\ pc = "poll" /\ ~expired /\ id \in visible
  /\ LET state == jobs[id] IN
     \/ state \in Ended /\ Passes(state) /\ Return("ok") /\ UNCHANGED job
     \/ state \in Ended /\ ~Passes(state) /\ Fail(state) /\ UNCHANGED job
     \/ state \notin Ended /\ job' = "running" /\ pc' = "select" /\ UNCHANGED outcome
  /\ UNCHANGED <<flags, prow, call, id, expired, reruns>>

\* After its own retries: not found yet, unreachable, forbidden, timed out.
PollFailed ==
  /\ pc = "poll"
  /\ job' = "nil" /\ pc' = "select"
  /\ UNCHANGED <<flags, prow, call, id, expired, outcome, reruns>>

Tick ==
  /\ pc = "select" /\ pc' = "poll"
  /\ UNCHANGED <<flags, prow, call, id, job, expired, outcome, reruns>>

\* Mutant: only a timeout with a job to report ends the wait.
StopsIfJob == expired /\ job # "nil"
Stops == expired

TimedOut ==
  /\ pc = "select" /\ Stops
  /\ Return("timeout")
  /\ UNCHANGED <<flags, prow, call, id, job, expired, reruns>>

Expire ==
  /\ pc \in {"poll", "select"} /\ ~expired
  /\ expired' = TRUE
  /\ UNCHANGED <<flags, prow, pc, call, id, job, outcome, reruns>>

-----------------------------------------------------------------------------
(* The retry marker, and EV2 *)

\* Mutant: one failure with the label is enough.
EligibleAny(r) ==
  /\ Cardinality(r.failed) <= MaxFailures
  /\ r.failed \cap r.allowed # {}
\* ev2RetryEligible
Eligible(r) ==
  /\ r.failed # {} /\ Cardinality(r.failed) <= MaxFailures
  /\ r.failed \subseteq r.allowed

\* finished.json is read; or it is not there, too large or malformed, and then
\* the failure stands, as it does for one that is not eligible.
CheckMarker ==
  /\ pc = "marker"
  /\ \/ Eligible(report[id]) /\ Return("retryable")
     \/ Return("failed")
  /\ UNCHANGED <<flags, prow, call, id, job, expired, reruns>>

\* EV2 finds the marker in the output of the step.
Rerun ==
  /\ pc = "ended" /\ outcome = "retryable" /\ reruns < MaxReruns
  /\ reruns' = reruns + 1
  /\ Start /\ UNCHANGED <<flags, prow>>

Tool == \/ \E j \in Jobs : Submitted(j) \/ AnswerLost(j)
        \/ Refused
        \/ PollAnswered \/ PollFailed \/ Tick \/ TimedOut
        \/ CheckMarker

-----------------------------------------------------------------------------
(* Prow *)

Listed(j) ==
  /\ jobs[j] # "absent" /\ j \notin visible
  /\ visible' = visible \cup {j}
  /\ UNCHANGED <<flags, jobs, report, pc, call, id, job, expired, outcome, reruns>>

Ends(j) ==
  /\ jobs[j] = "running"
  /\ \E s \in Ended : jobs' = [jobs EXCEPT ![j] = s]
  /\ \E r \in Reports : report' = [report EXCEPT ![j] = r]
  /\ UNCHANGED <<flags, visible, pc, call, id, job, expired, outcome, reruns>>

Next == Tool \/ Expire \/ Rerun \/ \E j \in Jobs : Listed(j) \/ Ends(j)

Spec == Init /\ [][Next]_vars

\* The tool runs, its timer fires, and Go's select, which picks at random,
\* does not ignore for ever that it has.  Jobs need not end.
ProwFairness == /\ WF_vars(Tool) /\ WF_vars(Expire) /\ SF_vars(TimedOut)
                /\ WF_vars(Rerun)

-----------------------------------------------------------------------------
(* Safety *)

\* A gate is passed only on a job, of this very run of the step, that ended in
\* success: not on an earlier run's, not on an error in finding out.
GateHolds == gate /\ outcome = "ok" => id \in Jobs /\ jobs[id] = "success"

\* Without a gate no end of a job stops the rollout, aborted or in error.
NeverBlocks == ~gate => outcome \notin {"failed", "retryable"}

\* The gate decides on the job alone: one that is set lets only this run's
\* success pass, and one that is not set stops nothing.
GateDecides == GateHolds /\ NeverBlocks

\* EV2 runs the step again only after a run of which all failures are known
\* issues, and few; while the job that failed is no longer running.
RerunsKnownIssues ==
  [][reruns' # reruns =>
       /\ gate /\ allowRetry /\ jobs[id] = "failure"
       /\ Cardinality(report[id].failed) \in 1..MaxFailures
       /\ \A t \in report[id].failed : t \in report[id].allowed]_vars

\* Whatever Prow and the network do, the step comes to an end.
ComesToAnEnd == <>[](pc = "ended")

-----------------------------------------------------------------------------
(* The inductive invariant: what is known of the job that was waited for *)

Known(state) == id \in Jobs /\ jobs[id] = state

IInv ==
  /\ TypeOK
  /\ allowRetry => gate
  /\ pc \in {"poll", "select", "marker"} => id \in Jobs
  /\ pc = "submit" => tries < Attempts
  /\ pc = "marker" => allowRetry /\ Known("failure")
  /\ pc # "ended" => outcome = "none"
  /\ outcome = "ok" /\ gate => Known("success")
  /\ outcome = "failed" => gate
  /\ outcome = "retryable" =>
       allowRetry /\ Known("failure") /\ Eligible(report[id])

-----------------------------------------------------------------------------
(* What comments of the code promise *)

\* retry.go:34: a permanent failure is propagated "unchanged", and only an
\* exhausted budget is reported as one.
PermanentUnchanged == outcome = "exhausted" => lastErr = "transient"
=============================================================================
