------------------------------ MODULE SerialStore ------------------------------
(***************************************************************************)
(* What the durable Primary Store promises: at any moment, the state that  *)
(* recovery would reconstruct from it is the state the serial execution of *)
(* a prefix of the input log leaves, and that prefix only ever grows, one  *)
(* whole epoch at a time.  Crashes, restarts, admissions, evictions and    *)
(* the landing of individual writeback bytes are all invisible here.       *)
(***************************************************************************)
EXTENDS Naturals

CONSTANTS Records, Initial, NEpochs, Batches, Absent

VARIABLES
    log,      \* the input log, one batch per epoch
    applied,  \* how many epochs of it the recoverable state contains
    db        \* the recoverable value of every record

Init ==
    /\ log \in [1 .. NEpochs -> Batches]
    /\ applied = 0
    /\ db = [r \in Records |-> IF r \in Initial THEN 0 ELSE Absent]

CommitEpoch ==
    /\ applied < NEpochs
    /\ applied' = applied + 1
    /\ db' = [r \in Records |->
                IF r \in log[applied + 1].write THEN applied + 1 ELSE db[r]]
    /\ UNCHANGED log

Next == CommitEpoch

Spec == Init /\ [][Next]_<<log, applied, db>>
================================================================================
