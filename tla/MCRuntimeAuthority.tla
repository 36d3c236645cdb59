------------------------- MODULE MCRuntimeAuthority -------------------------
(* One task of owner o, who may hand it to itself or to two runtimes, one of  *)
(* which has a passport that ends early.                                       *)
EXTENDS RuntimeAuthority, TLC

CONSTANTS i1, o, t1, t2

MCOwner == [i \in Intents |-> o]
MCPassportEnd == [p \in Passports |-> IF p = t2 THEN 2 ELSE 3]
MCExpiries == 1 .. 2
Interchangeable == Permutations(Handoffs) \union Permutations(Keys)
=============================================================================
