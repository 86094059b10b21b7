----------------------------- MODULE AtomicMarker ------------------------------
(***************************************************************************)
(* What the recovery marker promises a process that starts after a crash:  *)
(* one complete snapshot, of the crash epoch and of two generations of     *)
(* every cursor, that changes only in one indivisible step.                *)
(***************************************************************************)
EXTENDS Naturals

CONSTANTS
    Cursors,  \* the counters the marker carries
    Counts,   \* the values a counter may have
    Stamps,   \* the crash epochs
    Nothing   \* the marker of a freshly provisioned store

VARIABLE snap  \* the published snapshot, or Nothing

Init == snap = Nothing

Bump(e, cur) ==
    snap' = [epoch |-> e, p1 |-> cur,
             p2 |-> IF snap = Nothing THEN [c \in Cursors |-> 0] ELSE snap.p1]

Next == \E e \in Stamps, cur \in [Cursors -> Counts] : Bump(e, cur)

Spec == Init /\ [][Next]_snap
================================================================================
