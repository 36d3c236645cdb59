------------------------- MODULE MCRepairPromotion -------------------------
(***************************************************************************)
(* One case with two attempts: the second is made after the first candidate  *)
(* was rejected, and the first may still be verified again and promoted beside *)
(* it, so that two Promotions share the target and its base.  Both attempts      *)
(* hand in the same patch, which knows the defective workflow only.                *)
(***************************************************************************)
EXTENDS RepairPromotion, TLC

CONSTANTS one, defective, repaired

MCTasks == {<<one, 1>>, <<one, 2>>}
MCPatch == [k \in Tasks |-> [b \in {defective} |-> repaired]]
=============================================================================
