----------------------------- MODULE MCStagerCache -----------------------------
(* Small instances of StagerCache for TLC.                                 *)
EXTENDS StagerCache, TLC
CONSTANTS c1, c2, c3, c4, c5
MCRecords == {c1, c2, c3, c4, c5}
MCLoaded == {c1, c2, c3, c4}
MCSymmetry == Permutations(MCLoaded)
================================================================================
