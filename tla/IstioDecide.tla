----------------------------- MODULE IstioDecide -----------------------------
(***************************************************************************)
(* The decision engine of istio-upgrade (pkg/istio/decide.go): a pure      *)
(* function from what ARM reports about a cluster to the action the run    *)
(* takes.  A revision asm-{major}-{minor} is a natural number, ordered as  *)
(* compareRevisions orders the strings the tool accepts.                   *)
(***************************************************************************)
EXTENDS Naturals, FiniteSets

Scenarios == {"NotReady", "FreshInstall", "AlreadyAtTarget", "MidUpgrade",
              "TooManyRevisions", "StaleCanary", "Downgrade",
              "UpgradeAvailable", "UpgradeUnavailable"}

Actions == {"install", "upgrade", "skip", "resume", "cleanup-and-upgrade",
            "reconcile"}

(***************************************************************************)
(* slices.MaxFunc(S, compareRevisions) and its mirror image, as relations: *)
(* the code calls them on non-empty slices only.                           *)
(***************************************************************************)
IsHighest(r, S) == r \in S /\ \A q \in S : q <= r
IsLowest(r, S)  == r \in S /\ \A q \in S : r <= q

\* Mutant: the comparison the wrong way round.
SomeOlder(S, target) == \E r \in S : r < target

\* compareRevisions(highest, target) > 0
SomeNewer(S, target) == \E r \in S : r > target

(***************************************************************************)
(* classify: the order of the tests is the order of its returns.           *)
(***************************************************************************)
Classify(prov, inProgress, installed, available, target) ==
  CASE prov # "Succeeded"
         -> "NotReady"
    [] prov = "Succeeded" /\ inProgress
         -> IF target \in installed THEN "MidUpgrade" ELSE "NotReady"
    [] prov = "Succeeded" /\ ~inProgress /\ target \in installed
         -> IF installed = {target} THEN "AlreadyAtTarget" ELSE "MidUpgrade"
    [] prov = "Succeeded" /\ ~inProgress /\ target \notin installed
         -> IF installed = {} THEN "FreshInstall"
            ELSE IF Cardinality(installed) > 2 THEN "TooManyRevisions"
            ELSE IF SomeNewer(installed, target) THEN "Downgrade"
            ELSE IF target \notin available THEN "UpgradeUnavailable"
            ELSE IF Cardinality(installed) = 1 THEN "UpgradeAvailable"
            ELSE "StaleCanary"

\* Decide: one action per scenario.
ActionOf ==
  [s \in Scenarios |->
    CASE s \in {"NotReady", "TooManyRevisions", "UpgradeUnavailable"} -> "skip"
      [] s \in {"AlreadyAtTarget", "Downgrade"} -> "reconcile"
      [] s = "FreshInstall"     -> "install"
      [] s = "MidUpgrade"       -> "resume"
      [] s = "StaleCanary"      -> "cleanup-and-upgrade"
      [] s = "UpgradeAvailable" -> "upgrade"]

Decide(prov, inProgress, installed, available, target) ==
  ActionOf[Classify(prov, inProgress, installed, available, target)]
=============================================================================
