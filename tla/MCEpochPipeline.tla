---------------------------- MODULE MCEpochPipeline ----------------------------
(* Small instances of EpochPipeline for TLC.                               *)
EXTENDS EpochPipelineProofs, TLC

CONSTANTS r1, r2, r3, g1, g2

MCRecords == {r1, r2, r3}
MCInitial == {r1, r2}
MCSlots == {g1, g2}

(* Every way an epoch can touch one or two of the records, reading some and*)
(* writing the others; a touched record outside the initial population may *)
(* be an insert.                                                           *)
MCBatches ==
    {[touch |-> t, write |-> w, insert |-> i] :
        t \in {x \in SUBSET MCRecords : Cardinality(x) \in 1 .. 2},
        w \in SUBSET MCRecords, i \in SUBSET {r3}}
MCFeasible == {b \in MCBatches : b.insert \subseteq b.write /\ b.write \subseteq b.touch}
(* For the instance with three epochs and two crashes: epochs that read r1 *)
(* alone, write r1 or both of the initial records, or write r2, the        *)
(* insertable record or both, so that two slots never hold what three      *)
(* epochs need.                                                            *)
MCOverlapping ==
    {b \in MCFeasible : \/ b.touch = {r1} /\ b.write = {}
                        \/ b.touch = {r1, r2} /\ r1 \in b.write
                        \/ b.touch = {r2, r3} /\ b.write # {} /\ (b.insert = {} \/ r2 \in b.write)}
================================================================================
