------------------------- MODULE MCObservationIntake -------------------------
(* Reports on two streams: the first is sent again, with other material, under   *)
(* another identity and on the other stream; two more are ahead of it, the last    *)
(* too far to come first.                                                          *)
EXTENDS ObservationIntake, TLC

CONSTANTS g1, g2

Report(i, g, n, d) == [id |-> i, grant |-> g, number |-> n, digest |-> d]

MCObservation == {Report("i1", g1, 1, "a"), Report("i1", g1, 1, "b"), Report("i2", g1, 1, "a"),
                  Report("i1", g2, 1, "a"), Report("i3", g1, 2, "a"), Report("i4", g1, 3, "a")}

MCSymmetry == Permutations(Requests)
=============================================================================
