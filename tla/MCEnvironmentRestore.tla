------------------------ MODULE MCEnvironmentRestore -------------------------
(* One inventory item, corrected by each effect to a quantity named after it. *)
EXTENDS EnvironmentRestore, TLC

CONSTANTS sku, first

MCSubject == [e \in Effects |-> sku]
MCQuantities == Effects \union {first}
MCQuantity == [e \in Effects |-> e]
=============================================================================
