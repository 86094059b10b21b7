--------------------------- MODULE MCEpochExecution ----------------------------
(* Small instances of EpochExecution for TLC: records that were never      *)
(* written, last written in slot 1 and last written in slot 2.             *)
EXTENDS EpochExecution
MCStarts == {<<<<0, 0>>, <<1, 2>>>>, <<<<1, 2>>, <<2, 1>>>>, <<<<2, 1>>, <<0, 0>>>>}

(* Pieces on one record, with or without one that does nothing among them, *)
(* two on each of two records, and on the two fields of a row.             *)
MCPieces == [op : {"READ", "UPDATE", "RMW"}, rec : {1}]
MCOneRecord == [1 .. 4 -> MCPieces]
               \cup {[b EXCEPT ![2].op = "NOOP"] : b \in [1 .. 3 -> MCPieces]}
MCTwoRecords == {b \in [1 .. 4 -> [op : {"READ", "RMW"}, rec : {1, 2}]] :
                    b[1].rec = 1 /\ Cardinality({p \in 1 .. 4 : b[p].rec = 1}) = 2}
MCFields == [1 .. 3 -> [op : {"FULL_READ", "INSERT"}, rec : {1}]
                       \cup [op : {"RMW", "FULL_RMW"}, rec : {2}] \cup {[op |-> "UPDATE", rec |-> 1]}]
MCGpu == MCOneRecord \cup MCTwoRecords \cup MCFields

(* The CPU executor knows no NOOP, and INSERT only on split rows.          *)
MCCpu == {b \in MCGpu : \A p \in DOMAIN b : b[p].op # "NOOP"}
MCWork == {[machine |-> "gpu", batch |-> b] : b \in MCGpu}
          \cup {[machine |-> "cpu", batch |-> b] : b \in MCCpu}

(* cpu_only on whole rows of the stock layout, where an UPDATE copies the  *)
(* row and so is a read-modify-write.                                      *)
MCStockWork == {[machine |-> "cpu", batch |-> b] : b \in [1 .. 3 -> [op : {"READ", "RMW"}, rec : {1}]]}
================================================================================
