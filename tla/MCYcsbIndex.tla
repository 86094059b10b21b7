------------------------------ MODULE MCYcsbIndex ------------------------------
(* Small instances of YcsbIndex for TLC: key 0 is loaded, key 1 is not.    *)
EXTENDS YcsbIndex, TLC
MCKeys == {0, 1}
(* Two epochs of any three operations without a crash, and three epochs of *)
(* two operations with up to two crashes.  A read changes no state: in the *)
(* runs with crashes it comes second, after what it may depend on.         *)
MCBatches == [1 .. 3 -> Op] \cup {b \in [1 .. 2 -> Op] : b[1].op # "READ"}
MCLastEpoch == 3 :> 2 @@ 2 :> 3
MCMaxCrashes == 3 :> 0 @@ 2 :> 2
(* Three epochs of one operation, one crash.                               *)
MCBatches1 == [1 .. 1 -> Op]
MCLastEpoch1 == 1 :> 3
MCMaxCrashes1 == 1 :> 1
================================================================================
