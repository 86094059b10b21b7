------------------------------- MODULE SerialLog -------------------------------
(***************************************************************************)
(* The input log and its serial execution, the reference every other       *)
(* module is held against.  A log is a function from epochs to batches; a  *)
(* batch names the records its transactions touch, write and insert.       *)
(***************************************************************************)
EXTENDS Naturals

CONSTANTS
    Records,  \* CRIDs: records of the Primary Store
    Initial   \* the records of the initial population

(* v is the last epoch up to k that writes r, 0 if there is none: the      *)
(* value of r after the serial execution of k epochs.                      *)
Latest(lg, r, k, v) ==
    /\ v \in 0 .. k
    /\ v = 0 \/ r \in lg[v].write
    /\ \A j \in v + 1 .. k : r \notin lg[j].write

(* r is in the database after epoch k.                                     *)
Exists(lg, r, k) == r \in Initial \/ \E j \in 1 .. k : r \in lg[j].insert

(* What the index layer guarantees of the record ids of a log of n epochs: *)
(* an insert mints a record id never used before, and nothing touches a    *)
(* record before its insert.                                               *)
WellFormed(lg, n) ==
    \A e \in 1 .. n :
        /\ lg[e].insert \subseteq lg[e].write
        /\ lg[e].write \subseteq lg[e].touch
        /\ \A r \in lg[e].touch : r \in lg[e].insert <=> ~Exists(lg, r, e - 1)
================================================================================
