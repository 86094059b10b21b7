------------------------------ MODULE CacheBinding -----------------------------
(***************************************************************************)
(* What the stager promises the epoch: the records an epoch needs are      *)
(* bound to cache slots, each to one slot of its own, and a slot that      *)
(* holds a needed record is not taken away from it before the epoch has    *)
(* run.  This is the step PrepareBind of EpochPipeline, taken in any       *)
(* number of parts.                                                        *)
(***************************************************************************)
CONSTANTS Records, Slots, None

VARIABLES
    resident,  \* the record each slot holds, or None
    need       \* the records of the epoch being staged, {} between epochs

Held == {resident[g] : g \in Slots} \ {None}

Init == resident = [g \in Slots |-> None] /\ need = {}

Request ==
    /\ need = {}
    /\ need' \in SUBSET Records
    /\ UNCHANGED resident

(* Some of the missing records replace records the epoch does not need.    *)
Bind ==
    /\ resident' \in [Slots -> Records \cup {None}]
    /\ \A g \in Slots : resident'[g] # resident[g] =>
          /\ resident[g] \notin need
          /\ resident'[g] \in need \ Held
    /\ \A g, h \in Slots : resident'[g] = resident'[h] /\ g # h => resident'[g] = None
    /\ UNCHANGED need

(* The epoch runs only when everything it needs is in the cache.           *)
Serve ==
    /\ need \subseteq Held
    /\ need' = {}
    /\ UNCHANGED resident

Next == Request \/ Bind \/ Serve

Spec == Init /\ [][Next]_<<resident, need>>
================================================================================
