------------------------ MODULE MCDiagnosticDispatch ------------------------
(* Three packages with an artifact of their own, the first two of which share *)
(* selected material; and two runs, one of which is launched twice and the       *)
(* other claimed and authorized only.                                             *)
EXTENDS DiagnosticDispatch

CONSTANTS first, second, third, shared, k1, k2

Own == [n \in Revisions |-> IF n = 0 THEN first ELSE IF n = 1 THEN second ELSE third]
MCMaterial == [n \in Revisions |-> {Own[n]} \union (IF n < 2 THEN {shared} ELSE {})]
MCRoot == Own
MCMaxInvocations == [k \in Authorizations |-> IF k = k1 THEN 2 ELSE 0]
=============================================================================
