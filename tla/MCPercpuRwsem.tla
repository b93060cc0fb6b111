--------------------------- MODULE MCPercpuRwsem ---------------------------
(* The instance of PercpuRwsem for TLC: its safety is proved for any       *)
(* number of readers and writers, so it is sized for the liveness.         *)
EXTENDS PercpuRwsem, TLC
=============================================================================
