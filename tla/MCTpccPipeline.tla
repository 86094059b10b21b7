---------------------------- MODULE MCTpccPipeline -----------------------------
(* A small instance of TpccPipeline for TLC: an order-line table with two   *)
(* loaded records, one of them in the undelivered backlog, and room for an  *)
(* insert, and a stock table.                                               *)
EXTENDS TpccPipeline, TLC
CONSTANTS o1, o2, o3, s1, ol, st
MCRecords == {o1, o2, o3, s1}
MCInitial == {o1, o2, s1}
MCTableOf == [r \in MCRecords |-> IF r = s1 THEN st ELSE ol]
MCFlushOrder == <<st, ol>>
MCSubmitOrder == <<ol, st>>
MCCapacity == ol :> 2 @@ st :> 1
MCWarm == {o1}
MCBatch(t, w, i) == [touch |-> t, write |-> w, insert |-> i]
(* An order inserts a line and takes stock, or inserts a line only; a       *)
(* delivery updates a line; others read a line and write stock, or read.    *)
MCBatches ==
    {MCBatch({s1, o3}, {s1, o3}, {o3}), MCBatch({o3}, {o3}, {o3}), MCBatch({o3, s1}, {o3, s1}, {}),
     MCBatch({o1}, {o1}, {}), MCBatch({o2}, {o2}, {}),
     MCBatch({o1, o2}, {o1}, {}), MCBatch({s1, o1}, {s1, o1}, {}),
     MCBatch({o2, s1}, {s1}, {}), MCBatch({o2}, {}, {})}
================================================================================
