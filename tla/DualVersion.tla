------------------------------ MODULE DualVersion ------------------------------
(***************************************************************************)
(* Slot selection on a dual-version record (storage.h, Record<V>): two     *)
(* values, each tagged with the epoch that wrote it.  The executor, the    *)
(* admission transfer and recovery never look at anything but the two tags *)
(* to decide which slot is the committed base and which is the write       *)
(* target, so the tags alone are the argument of every operator here.      *)
(* A tag pair is a function t on {1, 2}; tag 0 means "never written".      *)
(***************************************************************************)
EXTENDS Naturals

SlotIds == {1, 2}

Other(s) == 3 - s

(* The slot with the newer tag; slot 1 on a tie.                           *)
Newest(t) == IF t[1] < t[2] THEN 2 ELSE 1

(* The slot a reader of the value before epoch e uses: a slot tagged e was *)
(* written in this epoch, so the base is the other one.                    *)
ReadSlot(t, e) == IF t[1] = e THEN 2 ELSE IF t[2] = e THEN 1 ELSE Newest(t)

(* The slot the last writer of an epoch overwrites: the older one.         *)
WriteSlot(t) == IF t[1] < t[2] THEN 1 ELSE 2

(* Rollback of one tag: a version written in a discarded epoch is demoted  *)
(* to "never written"; its value bytes stay where they are.                *)
DemoteTag(tag, minDiscard) == IF tag >= minDiscard THEN 0 ELSE tag

Demote(t, minDiscard) == [s \in SlotIds |-> DemoteTag(t[s], minDiscard)]
================================================================================
