-------------------------- MODULE MCIngressJournal --------------------------
(* Two deliveries of one source, and a third request that reuses the delivery *)
(* identity of the first for another source.                                  *)
EXTENDS IngressJournal

CONSTANTS q1, q2, q3, s1, s2, d1, d2, body

MCSource == [q \in Requests |-> IF q = q3 THEN s2 ELSE s1]
MCDelivery == [q \in Requests |-> IF q = q2 THEN d2 ELSE d1]
MCPayload == [q \in Requests |-> body]
=============================================================================
