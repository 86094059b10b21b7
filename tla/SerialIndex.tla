------------------------------ MODULE SerialIndex ------------------------------
(***************************************************************************)
(* The reference for the YCSB index: operations applied one at a time, in  *)
(* serial order, to a map from keys to record ids (CRIDs).  This is what   *)
(* the repository's own oracle (ycsb_timeline_oracle.cpp) replays.         *)
(***************************************************************************)
EXTENDS Integers, Sequences, SequencesExt

CONSTANTS
    Keys,      \* keys: natural numbers
    Starting   \* starting_num_records: keys 0 .. Starting - 1 are loaded first

Absent == -1   \* kAbsent: the key has no record

Op == [op : {"INSERT", "DELETE", "READ"}, key : Keys]

(* reset: the initial population maps each key to the record of its number *)
SerialInit == [live   |-> [k \in Keys |-> IF k < Starting THEN k ELSE Absent],
               minted |-> <<>>,   \* keys of the records created so far
               ended  |-> <<>>,   \* the effective deletes so far
               ids    |-> <<>>]   \* what each operation of the epoch resolves to

(* One operation: an insert of an absent key creates the next record, a    *)
(* delete of a live key ends its record, anything else takes what is live. *)
ReplayOp(s, o) ==
    LET c == s.live[o.key]
        d == IF o.op = "INSERT" /\ c = Absent THEN Starting + Len(s.minted) ELSE c
    IN  [live   |-> [s.live EXCEPT ![o.key] = IF o.op = "DELETE" THEN Absent ELSE d],
         minted |-> IF d # c THEN Append(s.minted, o.key) ELSE s.minted,
         ended  |-> IF o.op = "DELETE" /\ c # Absent
                    THEN Append(s.ended, [key |-> o.key, crid |-> c]) ELSE s.ended,
         ids    |-> Append(s.ids, d)]

ReplayEpoch(s, batch) == FoldLeft(ReplayOp, [s EXCEPT !.ids = <<>>], batch)

(* The state after the first e batches of the input.                       *)
Serial(input, e) == FoldLeft(ReplayEpoch, SerialInit, SubSeq(input, 1, e))
================================================================================
