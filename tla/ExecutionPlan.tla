----------------------------- MODULE ExecutionPlan -----------------------------
(***************************************************************************)
(* Planning one epoch (ycsb_gpu_submitter.cu, gpu_execution_planner.cu).   *)
(* The submitter expands the pieces of the epoch, in serial order, into    *)
(* primitive reads and writes; the planner sorts them by record, counts    *)
(* the writes before and after each one, and so decides where it reads or  *)
(* writes: record A (the value before the epoch), record B (the value the  *)
(* epoch leaves) or an element of the version scratch array.               *)
(***************************************************************************)
EXTENDS Integers, Sequences, FiniteSets

(* loc_record_a and loc_record_b: no element of the version array.         *)
LocA == -1
LocB == -2

CONSTANT Records  \* record ids: rows, or the fields of a row when fields are split

(* A piece is [op, rec].  The FULL operations and INSERT of a split row     *)
(* touch every field; a read-modify-write is a read, then a write; an       *)
(* operation that resolved to no record is not submitted.                   *)
ReadSet(o) ==
    CASE o.op \in {"READ", "RMW"} -> {o.rec}
      [] o.op \in {"FULL_READ", "FULL_RMW"} -> Records
      [] OTHER -> {}
WriteSet(o) ==
    CASE o.op \in {"UPDATE", "RMW", "FULL_RMW"} -> {o.rec}
      [] o.op = "INSERT" -> Records
      [] OTHER -> {}

(* An operation is known by its record, its kind and its piece, which      *)
(* stand for its index in the operation array.                             *)
Expand(p, o) == [rec : ReadSet(o), rw : {"read"}, piece : {p}]
                \cup [rec : WriteSet(o), rw : {"write"}, piece : {p}]

Submitted(batch) == UNION {Expand(p, batch[p]) : p \in DOMAIN batch}

(* The prefix sums put the operations of a piece behind those of the       *)
(* pieces before it; a piece's read of a record comes before its write.    *)
SubmittedBefore(a, b) ==
    a.piece < b.piece \/ (a.piece = b.piece /\ a.rw = "read" /\ b.rw = "write")

(* The radix sort looks at the record id only and is stable.               *)
SortedBefore(a, b) == a.rec < b.rec \/ (a.rec = b.rec /\ SubmittedBefore(a, b))

(* The writes that the two scans by record sum up.                         *)
Writes(ops, i) == {j \in ops : j.rec = i.rec /\ j.rw = "write"}
WBefore(ops, i) == Cardinality({j \in Writes(ops, i) : SortedBefore(j, i)})
WAfter(ops, i) == Cardinality({j \in Writes(ops, i) : SortedBefore(i, j)})

(* calcOperationType.                                                      *)
OpType(ops, i) ==
    IF i.rw = "write"
    THEN IF WAfter(ops, i) = 0 THEN "RECORD_B_WRITE" ELSE "VERSION_WRITE"
    ELSE IF WBefore(ops, i) = 0 THEN "RECORD_A_READ"
    ELSE IF WAfter(ops, i) = 0 THEN "RECORD_B_READ" ELSE "VERSION_READ"

(* Mutant: the scan starts again at every record.                          *)
VerWritesBeforeOwn(ops, i) ==
    Cardinality({j \in Writes(ops, i) : SortedBefore(j, i) /\ OpType(ops, j) = "VERSION_WRITE"})

VerWritesBefore(ops, i) ==
    Cardinality({j \in ops : SortedBefore(j, i) /\ OpType(ops, j) = "VERSION_WRITE"})

(* scatterRWLocation.                                                      *)
RwLocation(ops, i) ==
    CASE OpType(ops, i) = "RECORD_A_READ" -> LocA
      [] OpType(ops, i) \in {"RECORD_B_READ", "RECORD_B_WRITE"} -> LocB
      [] OpType(ops, i) = "VERSION_READ" -> VerWritesBefore(ops, i) - 1
      [] OpType(ops, i) = "VERSION_WRITE" -> VerWritesBefore(ops, i)

(* The locations of each piece, for every record it reads or writes.       *)
Plan(batch) ==
    LET ops == Submitted(batch)
        loc(p, rw, r) == RwLocation(ops, [rec |-> r, rw |-> rw, piece |-> p])
    IN  [p \in DOMAIN batch |-> [read |-> [r \in ReadSet(batch[p]) |-> loc(p, "read", r)],
                                 write |-> [r \in WriteSet(batch[p]) |-> loc(p, "write", r)]]]
================================================================================
