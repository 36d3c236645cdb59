------------------------- MODULE MCCommandExecutor --------------------------
(* A small Kernel for TLC: one nested ordinary command and the two commands  *)
(* that suspend and resume the Environment.                                  *)
EXTENDS CommandExecutor

CONSTANTS dWrite, dBegin, dResume

MCOperation == [d \in Digests |->
    CASE d = dBegin -> "restore.begin" [] d = dResume -> "restore.resume" [] OTHER -> "ordinary"]

MCNested == {dWrite}
=============================================================================
