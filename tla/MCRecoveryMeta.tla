---------------------------- MODULE MCRecoveryMeta -----------------------------
(* A small instance of RecoveryMeta for TLC.                               *)
EXTENDS RecoveryMetaProofs, TLC
MCCursors == {"free_start", "del"}
MCCounts == 0 .. 1
MCStamps == 1 .. 2
================================================================================
