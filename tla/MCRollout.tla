------------------------------- MODULE MCRollout -------------------------------
(* The tools that rollouts and people run, each on its own: they share no state, *)
(* so one is active and the others rest.                                         *)
EXTENDS RolloutTools

CONSTANTS n1, n2, a, b, c, vault, s1, s2, k1, k2, rp, rq, f, g, j1, j2, j3, t1, t2

VARIABLE active   \* the tool that is checked

-----------------------------------------------------------------------------
(* Helm *)

MCNamespaceFiles == {n1}
MCObjects    == {a, b, c}
MCManifest   == {a, b}

\* An object of another release, which has the old manager as well.
MCCluster == managers[c] = {"helm"}

\* Names of which some are prefixes of others.
MCNames == {<<1>>, <<1, 1>>, <<1, 2>>}

Owners  == [kind : {"owner"}, space : {n1}, name : MCNames]
Single  == Owners \cup [kind : {"pod", "other", "broken", "owner"}, space : {n2},
                        name : {<<1, 1>>}]
Lists   == {[items |-> s] : s \in {<< >>} \cup (Owners \X Single)}
MCReleases == UNION {[1..k -> Single \cup Lists] : k \in 0..1}
              \cup (Single \X Single \X Single) \cup (Lists \X Single)

-----------------------------------------------------------------------------
(* Secrets *)

\* Half a text may be no config, have no key any more, or end in the secret of
\* another text, with another key.
MCTorn == {Unreadable, vault :> EmptyVault,
           vault :> [key |-> k1, secrets |-> (s1 :> [key |-> k2, value |-> 1])],
           vault :> [key |-> NoKey, secrets |-> (s2 :> [key |-> k1, value |-> 2])]}

-----------------------------------------------------------------------------
(* Providers and features *)

MCFeatures == (rp :> <<f, g>>) @@ (rq :> <<f>>)
MCPolled   == {rp, <<rp, f>>, <<rq, f>>}

-----------------------------------------------------------------------------
(* The Prow gate *)

MCJobs  == {j1, j2, j3}
MCTests == {t1, t2}

\* One job is like another, and so they get their names in this order.
NamedInOrder == /\ jobs[j1] = "absent" => jobs[j2] = "absent"
                /\ jobs[j2] = "absent" => jobs[j3] = "absent"

\* Nothing failed; a known issue; one and another; two known ones.
MCReports == {[failed |-> {}, allowed |-> {}], [failed |-> {t1}, allowed |-> {t1}],
              [failed |-> {t1, t2}, allowed |-> {t1}],
              [failed |-> {t1, t2}, allowed |-> {t1, t2}]}

-----------------------------------------------------------------------------

\* A state of each to rest in, where all is as it should be.
HelmRests == /\ asked = TRUE /\ checking = TRUE /\ history = << >> /\ live = {}
             /\ applied = {} /\ moved = FALSE /\ faults = MaxFaults
             /\ managers = [o \in Objects |-> Absent]
             /\ step = "done" /\ dryRun = TRUE /\ attempt = 0 /\ todo = {}
             /\ read = << >> /\ failed = FALSE /\ helmOutcome = "ok"
             /\ alone = {}
DiagRests == DiagInit /\ reported = << >> /\ kusto = {}
SyncRests == SyncInit /\ current = [v \in Vaults |-> CHOOSE k \in Keys : TRUE]
RegRests  == RegInit /\ standing = [t \in Things |-> "registered"]
ProwRests ==
  /\ gate = TRUE /\ allowRetry = TRUE
  /\ jobs = [j \in Jobs |-> "absent"] /\ visible = {}
  /\ report = [j \in Jobs |-> Nothing]
  /\ pc = "ended" /\ tries = 0 /\ lastErr = "nil" /\ transientErr = FALSE
  /\ id = NoJob /\ job = "nil" /\ expired = FALSE
  /\ outcome = "submit failed" /\ reruns = 0

MCInit ==
  /\ active \in {"helm", "diagnostics", "secrets", "registration", "prow"}
  /\ IF active = "helm" THEN HelmInit /\ MCCluster ELSE HelmRests
  /\ IF active = "diagnostics" THEN DiagInit ELSE DiagRests
  /\ IF active = "secrets" THEN SyncInit ELSE SyncRests
  /\ IF active = "registration" THEN RegInit ELSE RegRests
  /\ IF active = "prow" THEN Init ELSE ProwRests

\* Only the active one does something.
Helm(act) == /\ active = "helm" /\ act
             /\ UNCHANGED <<active, diagVars, syncVars, regVars, vars>>
Diag(act) == /\ active = "diagnostics" /\ act
             /\ UNCHANGED <<active, helmVars, syncVars, regVars, vars>>
Sync(act) == /\ active = "secrets" /\ act
             /\ UNCHANGED <<active, helmVars, diagVars, regVars, vars>>
Reg(act)  == /\ active = "registration" /\ act
             /\ UNCHANGED <<active, helmVars, diagVars, syncVars, vars>>
Prow(act) == /\ active = "prow" /\ act
             /\ UNCHANGED <<active, helmVars, diagVars, syncVars, regVars>>

MCNext == \/ Helm(HelmNext) \/ Diag(DiagNext) \/ Sync(SyncNext) \/ Reg(RegNext)
          \/ Prow(Next) /\ NamedInOrder'

\* HelmFairness, SyncFairness, RegFairness and ProwFairness: as one tool acts, one
\* condition can hold a step of each.  Writes and registrations come to an end for
\* all, if they do for some as long as there are any; and with one vault, that
\* populate goes on is enough for it to be run again for each.
all == <<active, helmVars, diagVars, syncVars, regVars, vars>>

First(s) == sync # Idle /\ sync.todo = DOMAIN sync.secrets /\ Decrypt(s)

MCSpec ==
  /\ MCInit /\ [][MCNext]_all
  /\ WF_all(Helm(Deploy) \/ Sync(Populating) \/ Reg(RegStep) \/ Prow(Tool))
  /\ WF_all(\/ Helm(RunAgain) \/ Reg(Unfinished /\ BeginRegister)
            \/ Prow(Expire) \/ Prow(Rerun))
  /\ WF_all(\/ Helm(OtherEnds) \/ Sync(\E p \in People : Write(p))
            \/ Reg(\E t \in Things : Registers(t)))
  /\ WF_all(Helm(TimePasses))
  /\ SF_all(Helm(OperatorDeletesLock) \/ Sync(First(s1)) \/ Prow(TimedOut))
  /\ SF_all(Sync(First(s2)))
=============================================================================
