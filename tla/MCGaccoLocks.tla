---------------------------- MODULE MCGaccoLocks ----------------------------
(***************************************************************************)
(* GaccoLocks with three transactions of two operations each on three      *)
(* records, two blocks of two threads resident out of three, two epochs.   *)
(* The transactions cross: each takes its two records in either order, the *)
(* records contended are two in one batch and three in another.            *)
(***************************************************************************)
EXTENDS GaccoLocks

\* Piece p of a batch is operation p % 2 of transaction p \div 2.
Batch(recs, op) ==
    [p \in Pieces |-> [record |-> recs[p + 1], op |-> op[p + 1]]]

Rmw == "READ_MODIFY_WRITE"
MCOps == { <<Rmw, Rmw, Rmw, Rmw, Rmw, Rmw>>,
           <<"UPDATE", "READ", "READ", Rmw, "READ", "INSERT">> }
MCRecs == { <<1, 2, 2, 1, 1, 2>>, <<1, 2, 2, 3, 3, 1>>, <<2, 3, 2, 3, 3, 2>>,
            <<1, 1, 1, 2, 2, 1>> }
MCBatches == {Batch(r, o) : r \in MCRecs, o \in MCOps}
=============================================================================
