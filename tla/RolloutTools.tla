----------------------------- MODULE RolloutTools ------------------------------
(*****************************************************************************)
(* The tools that rollouts and people run, side by side.  They share no      *)
(* state: tools/helm, its diagnostics, tools/secret-sync,                    *)
(* tools/registration and tools/prow-job-executor each go their own way at   *)
(* their own pace.                                                           *)
(*****************************************************************************)
EXTENDS HelmDeploy, HelmDiagnostics, SecretSync, Registration, ProwGate

SyncSpec == SyncInit /\ [][SyncNext]_syncVars
RegSpec  == RegInit /\ [][RegNext]_regVars

\* Spec is that of the Prow gate.
ToolsSpec == HelmSpec /\ DiagSpec /\ SyncSpec /\ RegSpec /\ Spec

\* Each of them is where its code can be, and holds what it can hold.
TypesOK == HelmTypeOK /\ DiagTypeOK /\ SyncTypeOK /\ RegTypeOK /\ TypeOK
=============================================================================
