------------------------------ MODULE FleetTools -------------------------------
(*****************************************************************************)
(* The tools that look after the fleet, side by side.  They share no state:  *)
(* tools/kustoctl and the two parts of tools/grafanactl, integrations and    *)
(* dashboards, each go their own way.                                        *)
(*****************************************************************************)
EXTENDS EntityGroups, GrafanaIntegrations, GrafanaSync

GroupSpec == GroupInit /\ [][GroupNext]_groupVars
IntSpec   == IntInit /\ [][IntNext]_intVars

FleetSpec == GroupSpec /\ IntSpec /\ BoardsSpec

\* Each of them is where its code can be, and holds what it can hold.
TypesOK == GroupTypeOK /\ IntTypeOK /\ BoardsTypeOK
=============================================================================
