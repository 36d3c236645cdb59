------------------------- MODULE MCUpgradeLifecycle -------------------------
(* Two Package Versions with a Deployment each; upgrading changes authority,   *)
(* going back the other way does not.                                           *)
EXTENDS UpgradeLifecycle, TLC

CONSTANTS d1, d2, old, new, p1

MCPackageOf == [d \in Deployments |-> IF d = d1 THEN old ELSE new]
MCEquivalent == {<<d2, d1>>}
MCMaxMoves == [p \in Plans |-> IF p = p1 THEN 3 ELSE 4]
MCMaxActions == [p \in Plans |-> IF p = p1 THEN 4 ELSE 1]
MCRepairChanges == [p \in Plans |-> {IF p = p1 THEN "incompatible" ELSE "compatible"}]
=============================================================================
