------------------------- MODULE MCEffectLifecycle --------------------------
(* Two corrections of the same inventory item. A quantity is named after the *)
(* effect that asks for it, so the effects are interchangeable.              *)
EXTENDS EffectLifecycle, TLC

CONSTANTS sku, first

MCSubject == [e \in Effects |-> sku]
MCQuantities == Effects \union {first}
MCQuantity == [e \in Effects |-> e]
Symmetry == Permutations(Effects)
=============================================================================
