----------------------------- MODULE EpochTimeline -----------------------------
(***************************************************************************)
(* Resolution of an epoch's inserts and deletes in serial order            *)
(* (epoch_timeline.cuh).  Every key with an event has a timeline, walked   *)
(* by one GPU thread; timelines are independent of each other, so the      *)
(* passes are functions of the epoch's entries and of the index at its     *)
(* start.  An entry is [op, key, pos]; c0 maps each key to its record at   *)
(* the start of the epoch or to Absent.                                    *)
(***************************************************************************)
EXTENDS Integers, Sequences, FiniteSets, SequencesExt

CONSTANTS Absent, Junk   \* no record; an element of entry_crid never stored

IsEvent(o) == o.op \in {"INSERT", "DELETE"}

(* Order of the packed sort: position, then entry (the sort is stable).    *)
Before(ents, a, b) ==
    \/ ents[a].pos < ents[b].pos
    \/ ents[a].pos = ents[b].pos /\ a < b

(* The events of key k in serial order, as entry numbers.                  *)
Timeline(ents, k) ==
    SetToSortSeq({a \in DOMAIN ents : IsEvent(ents[a]) /\ ents[a].key = k},
                 LAMBDA a, b : Before(ents, a, b))

(* Pass 1, k_walk: the inserts that create a life, the deletes that end    *)
(* one.                                                                    *)
WalkEvent(ents, w, a) ==
    IF ents[a].op = "DELETE"
    THEN [w EXCEPT !.live = FALSE, !.edel = IF w.live THEN @ \cup {a} ELSE @]
    ELSE [w EXCEPT !.live = TRUE, !.life = IF w.live THEN @ ELSE @ \cup {a}]

Walk(ents, k, c0) ==
    FoldLeft(LAMBDA w, a : WalkEvent(ents, w, a),
             [live |-> c0[k] # Absent, life |-> {}, edel |-> {}], Timeline(ents, k))

EventKeys(ents) == {ents[a].key : a \in {b \in DOMAIN ents : IsEvent(ents[b])}}
Lives(ents, c0) == UNION {Walk(ents, k, c0).life : k \in EventKeys(ents)}
Edels(ents, c0) == UNION {Walk(ents, k, c0).edel : k \in EventKeys(ents)}

(* k_scatter_minted: the j-th life-creating insert in entry order gets the *)
(* j-th fresh record; the other elements keep whatever they held.          *)
Minted(ents, c0, begin) ==
    [a \in DOMAIN ents |->
        IF a \in Lives(ents, c0)
        THEN begin + Cardinality({b \in Lives(ents, c0) : b < a}) ELSE Junk]

(* Pass 2, k_assign: the record each effective delete ends, and the record *)
(* the key is left with.                                                   *)
AssignEvent(ents, w, a) ==
    IF ents[a].op = "DELETE"
    THEN [state |-> Absent,
          crid |-> IF w.state # Absent THEN [w.crid EXCEPT ![a] = w.state] ELSE w.crid]
    ELSE [w EXCEPT !.state = IF @ = Absent THEN w.crid[a] ELSE @]

Assign(ents, k, c0, begin) ==
    FoldLeft(LAMBDA w, a : AssignEvent(ents, w, a),
             [state |-> c0[k], crid |-> Minted(ents, c0, begin)], Timeline(ents, k))

Final(ents, k, c0, begin) == Assign(ents, k, c0, begin).state
EntryCrid(ents, a, c0, begin) == Assign(ents, ents[a].key, c0, begin).crid[a]

(* The index update at the epoch boundary.                                 *)
FinErase(ents, c0, begin) ==
    {k \in EventKeys(ents) : c0[k] # Absent /\ Final(ents, k, c0, begin) # c0[k]}
FinInsert(ents, c0, begin) ==
    {k \in EventKeys(ents) :
        Final(ents, k, c0, begin) # Absent /\ Final(ents, k, c0, begin) # c0[k]}

(* resolve: the state of the key after every event before the operation;   *)
(* an insert of an absent key resolves to its own record.                  *)
Resolve(ents, a, c0, begin) ==
    LET k      == ents[a].key
        prior  == SelectSeq(Timeline(ents, k), LAMBDA b : Before(ents, b, a))
        step(s, b) == IF ents[b].op = "DELETE" THEN Absent
                      ELSE IF s = Absent THEN EntryCrid(ents, b, c0, begin) ELSE s
        state  == FoldLeft(step, c0[k], prior)
    IN  IF ents[a].op = "INSERT" /\ state = Absent
        THEN EntryCrid(ents, a, c0, begin) ELSE state
================================================================================
