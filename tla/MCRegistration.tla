---------------------------- MODULE MCRegistration ----------------------------
(* Values of Registration's constants for TLC.                              *)
EXTENDS Registration, TLC

CONSTANTS g1, g2, r1, r2

GPUSymmetry == Permutations(GPUs)

===============================================================================
