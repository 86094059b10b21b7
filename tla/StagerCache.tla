------------------------------ MODULE StagerCache ------------------------------
(***************************************************************************)
(* Slot management of the Execution Cache (ycsb_hybrid_stager.cu,          *)
(* prepareEpoch; crid_grid_index.cu, reclaim_flags.cuh,                    *)
(* util_device_ring.cuh).  Each epoch looks its records up in a flat index *)
(* and binds the missing ones to slots of the free ring, or, when the ring *)
(* runs short, to victims collected by GPU threads: first the slots of     *)
(* deleted records, then in FIFO order from a cursor.  The two passes      *)
(* share one atomic counter and the per-epoch needed flags.                *)
(***************************************************************************)
EXTENDS Integers, Sequences, FiniteSets, Functions

CONSTANTS
    Records,    \* CRIDs
    Loaded,     \* the records that exist before the first epoch
    Cap,        \* gpu_capacity_: slots 0 .. Cap - 1
    NumThreads, \* threads of a collection kernel; thread t scans t, t + NumThreads, ...
    Reclaim,    \* reclaim_eviction_active_: the mix has deletes
    Sizes,      \* bound: how many records an epoch may need
    LastEpoch,  \* bound: number of epochs
    None        \* 0xffffffff

Slots == 0 .. Cap - 1
Threads == 0 .. NumThreads - 1

ASSUME CacheAssumption ==
    /\ Cap \in Nat \ {0} /\ NumThreads \in Nat \ {0} /\ LastEpoch \in Nat
    /\ IsFiniteSet(Records) /\ Loaded \subseteq Records
    /\ None \notin Records /\ None \notin Slots
    /\ Reclaim \in BOOLEAN /\ Sizes \subseteq Nat

VARIABLES
    epoch, pc,
    exist, deleted,  \* the records minted, and those deleted, so far
    need, insert,    \* the records of the epoch, and which of them it inserts
    crid2grid,       \* d_crid_to_grid
    resident,        \* d_resident_list_
    head,            \* head of the free ring; its tail stays at Cap
    cursor,          \* fifo_next_grid_
    reclaim,         \* d_reclaim_flag_
    needed,          \* d_needed_grid_flag_
    bitmap,          \* d_insert_bitmap_
    new,             \* d_new_: the missing records, in the order of the atomics
    count, maxOffset,\* the counters shared by the collection kernels
    victims,         \* d_evict_grids
    offset,          \* per thread: the next offset to scan, Cap when it has left
    checked,         \* per thread: has it seen the counter below the deficit
    popped,          \* d_grids: the slots popped from the ring
    sent,            \* the (record, slot) transfers of the epoch
    admitted, evicted \* cache_slots_admitted_total_, cache_slots_evicted_total_

work == <<exist, deleted, need, insert>>
maps == <<crid2grid, resident, head, cursor, reclaim>>
scan == <<count, maxOffset, victims, offset, checked>>
totals == <<admitted, evicted>>
vars == <<epoch, pc, work, maps, needed, bitmap, new, scan, popped, sent, totals>>

Free == Cap - head
Deficit == Len(new) - Free

Init ==
    /\ epoch = 1 /\ pc = "mark"
    /\ exist = Loaded /\ deleted = {} /\ need = {} /\ insert = {}
    /\ crid2grid = [c \in Records |-> None] /\ resident = [g \in Slots |-> None]
    /\ head = 0 /\ cursor = 0 /\ reclaim = {} /\ needed = {} /\ bitmap = {}
    /\ new = <<>> /\ count = 0 /\ maxOffset = 0 /\ victims = <<>>
    /\ offset = [t \in Threads |-> Cap] /\ checked = [t \in Threads |-> FALSE]
    /\ popped = <<>> /\ sent = {} /\ admitted = 0 /\ evicted = 0

GridsOf(cs) == {crid2grid[c] : c \in cs} \ {None}

(* The index and the submitter hand over the records the epoch touches,    *)
(* mints and deletes; mark_reclaimable flags the slots of the deleted.     *)
MarkReclaimable ==
    /\ pc = "mark" /\ epoch <= LastEpoch
    /\ \E n \in SUBSET (Records \ deleted), d \in SUBSET (Records \ deleted) :
          /\ n # {} /\ Cardinality(n) \in Sizes
          /\ IF Reclaim THEN d \subseteq exist \cup n ELSE d = {}
          /\ need' = n /\ insert' = n \ exist /\ exist' = exist \cup n
          /\ deleted' = deleted \cup d
          /\ reclaim' = reclaim \cup GridsOf(d)
    /\ pc' = "lookup"
    /\ UNCHANGED <<epoch, crid2grid, resident, head, cursor, needed, bitmap, new, scan,
                   popped, sent, totals>>

(* buildNeededOnDevice throws: the epoch does not fit into the cache.      *)
OverCapacity ==
    /\ pc = "lookup" /\ Cardinality(need) > Cap
    /\ pc' = "full"
    /\ UNCHANGED <<epoch, work, maps, needed, bitmap, new, scan, popped, sent, totals>>

(* How many of n new records have to replace another one.                  *)
Shortfall(n) == IF n > Free THEN n - Free ELSE 0

(* Where the threads of a collection kernel begin; a thread beyond the     *)
(* last slot has nothing to scan.                                          *)
ScanStart == [t \in Threads |-> IF t < Cap THEN t ELSE Cap]

(* The records of S in the order of the atomics, whichever that is.        *)
Listings(S) == Injection(1 .. Cardinality(S), S)

(* The insert bitmap is rebuilt only when the epoch inserts.  The needed   *)
(* records are looked up, their slots flagged, and the missing ones        *)
(* collected in the order in which threads increment a counter.            *)
LookupNeeded ==
    /\ pc = "lookup" /\ Cardinality(need) <= Cap
    /\ bitmap' = IF insert = {} THEN bitmap ELSE insert
    /\ needed' = GridsOf(need)
    /\ new' \in Listings({c \in need : crid2grid[c] = None})
    /\ pc' = IF new' = <<>> THEN "remap"
             ELSE IF Len(new') <= Free THEN "ring"
             ELSE IF Reclaim THEN "reclaim" ELSE "fifo"
    /\ admitted' = admitted + Len(new')
    /\ evicted' = evicted + Shortfall(Len(new'))
    /\ count' = 0 /\ maxOffset' = 0 /\ victims' = <<>>
    /\ offset' = ScanStart /\ checked' = [t \in Threads |-> FALSE]
    /\ UNCHANGED <<epoch, work, maps, popped, sent>>

(* Mutant: a thread leaves when one victim is still missing.               *)
CheckCountEarly(t) ==
    /\ pc \in {"reclaim", "fifo"} /\ offset[t] < Cap /\ ~checked[t]
    /\ IF count + 1 >= Deficit
       THEN offset' = [offset EXCEPT ![t] = Cap] /\ UNCHANGED checked
       ELSE checked' = [checked EXCEPT ![t] = TRUE] /\ UNCHANGED offset
    /\ UNCHANGED <<epoch, pc, work, maps, needed, bitmap, new, count, maxOffset, victims,
                   popped, sent, totals>>

(* A thread of a collection kernel, at the top of its loop.                *)
CheckCount(t) ==
    /\ pc \in {"reclaim", "fifo"} /\ offset[t] < Cap /\ ~checked[t]
    /\ IF count >= Deficit
       THEN offset' = [offset EXCEPT ![t] = Cap] /\ UNCHANGED checked
       ELSE checked' = [checked EXCEPT ![t] = TRUE] /\ UNCHANGED offset
    /\ UNCHANGED <<epoch, pc, work, maps, needed, bitmap, new, count, maxOffset, victims,
                   popped, sent, totals>>

NextOffset(t) == [offset EXCEPT ![t] = IF @ + NumThreads < Cap THEN @ + NumThreads ELSE Cap]

(* The slot g is a victim unless the counter has passed the deficit since  *)
(* the thread looked.  The stores that follow the atomic increment touch   *)
(* only elements no other thread reads before the kernel ends.             *)
Collect(g) ==
    /\ count' = count + 1
    /\ victims' = IF count < Deficit THEN Append(victims, g) ELSE victims

(* Mutant: a picked slot is not protected from the FIFO pass.              *)
CollectReclaimUnmarked(t) ==
    LET g == offset[t]
    IN  /\ pc = "reclaim" /\ offset[t] < Cap /\ checked[t]
        /\ IF resident[g] # None /\ g \notin needed /\ g \in reclaim
           THEN Collect(g) ELSE UNCHANGED <<count, victims>>
        /\ offset' = NextOffset(t) /\ checked' = [checked EXCEPT ![t] = FALSE]
        /\ UNCHANGED <<epoch, pc, work, maps, needed, bitmap, new, maxOffset, popped, sent, totals>>

(* k_collect_evictions_reclaim_first: slots of deleted records only.       *)
CollectReclaim(t) ==
    LET g == offset[t]
    IN  /\ pc = "reclaim" /\ offset[t] < Cap /\ checked[t]
        /\ IF resident[g] # None /\ g \notin needed /\ g \in reclaim
           THEN /\ Collect(g)
                /\ needed' = IF count < Deficit THEN needed \cup {g} ELSE needed
           ELSE UNCHANGED <<count, victims, needed>>
        /\ offset' = NextOffset(t) /\ checked' = [checked EXCEPT ![t] = FALSE]
        /\ UNCHANGED <<epoch, pc, work, maps, bitmap, new, maxOffset, popped, sent, totals>>

(* Mutant: the needed flags are not looked at.                             *)
CollectFifoBlind(t) ==
    LET g == (cursor + offset[t]) % Cap
    IN  /\ pc = "fifo" /\ offset[t] < Cap /\ checked[t]
        /\ IF resident[g] # None
           THEN /\ Collect(g)
                /\ maxOffset' = IF count < Deficit /\ maxOffset < offset[t] THEN offset[t] ELSE maxOffset
           ELSE UNCHANGED <<count, victims, maxOffset>>
        /\ offset' = NextOffset(t) /\ checked' = [checked EXCEPT ![t] = FALSE]
        /\ UNCHANGED <<epoch, pc, work, maps, needed, bitmap, new, popped, sent, totals>>

(* k_fifo_collect_evictions: from the cursor on, whatever is not needed.   *)
CollectFifo(t) ==
    LET g == (cursor + offset[t]) % Cap
    IN  /\ pc = "fifo" /\ offset[t] < Cap /\ checked[t]
        /\ IF resident[g] # None /\ g \notin needed
           THEN /\ Collect(g)
                /\ maxOffset' = IF count < Deficit /\ maxOffset < offset[t] THEN offset[t] ELSE maxOffset
           ELSE UNCHANGED <<count, victims, maxOffset>>
        /\ offset' = NextOffset(t) /\ checked' = [checked EXCEPT ![t] = FALSE]
        /\ UNCHANGED <<epoch, pc, work, maps, needed, bitmap, new, popped, sent, totals>>

KernelDone == \A t \in Threads : offset[t] = Cap

(* The next kernel of the stream starts when the first has ended.          *)
TopUp ==
    /\ pc = "reclaim" /\ KernelDone
    /\ pc' = "fifo"
    /\ offset' = ScanStart /\ checked' = [t \in Threads |-> FALSE]
    /\ UNCHANGED <<epoch, work, maps, needed, bitmap, new, count, maxOffset, victims,
                   popped, sent, totals>>

(* The new records cs take the slots gs: k_flat_insert, k_set_grid2crid.   *)
Bound(map, cs, gs) ==
    [c \in Records |-> IF \E i \in DOMAIN cs : cs[i] = c
                       THEN gs[CHOOSE i \in DOMAIN cs : cs[i] = c] ELSE map[c]]
Occupied(cs, gs) ==
    [g \in Slots |-> IF \E i \in DOMAIN gs : gs[i] = g
                     THEN cs[CHOOSE i \in DOMAIN gs : gs[i] = g] ELSE resident[g]]

First == SubSeq(new, 1, Deficit)

Advanced == (cursor + maxOffset + 1) % Cap

(* Mutant: the old occupants keep their index entries.                     *)
UnboundKept == crid2grid

(* k_flat_rename_crids drops the entries of the evicted records.           *)
Unbound == [c \in Records |-> IF \E i \in DOMAIN victims : resident[victims[i]] = c
                              THEN None ELSE crid2grid[c]]

(* Mutant: the flags of the renamed slots stay.                            *)
ClearedNot == reclaim

(* k_clear_reclaim_by_grids: the new occupant starts unflagged.            *)
Cleared == reclaim \ Range(victims)

(* bulk_update_crid and the resident list: the first new records replace   *)
(* the victims.  With too few victims prepareEpoch throws, which           *)
(* EnoughVictims excludes.                                                 *)
Rename ==
    /\ pc = "fifo" /\ KernelDone /\ count >= Deficit
    /\ cursor' = Advanced
    /\ crid2grid' = Bound(Unbound, First, victims)
    /\ resident' = Occupied(First, victims)
    /\ reclaim' = Cleared
    /\ pc' = IF Free > 0 THEN "ring" ELSE "transfer"
    /\ popped' = <<>>
    /\ UNCHANGED <<epoch, work, head, needed, bitmap, new, scan, sent, totals>>

Rest == SubSeq(new, Len(victims) + 1, Len(new))

(* launch_ring_pop_parallel, k_flat_insert and the resident list for the   *)
(* records that did not replace a victim.  A short grant throws, which     *)
(* EnoughVictims excludes.                                                 *)
RingPop ==
    /\ pc = "ring" /\ Len(Rest) <= Free
    /\ popped' = [i \in DOMAIN Rest |-> (head + i - 1) % Cap]
    /\ head' = head + Len(Rest)
    /\ crid2grid' = Bound(crid2grid, Rest, popped')
    /\ resident' = Occupied(Rest, popped')
    /\ pc' = "transfer"
    /\ UNCHANGED <<epoch, work, cursor, reclaim, needed, bitmap, new, scan, sent, totals>>

(* k_lookup_insert_flag_for_new, element by element of d_new_.             *)
IsInsert(i) == insert # {} /\ new[i] \in bitmap

(* Mutant: the records from the ring look their flag up from the start.    *)
TransfersUnaligned ==
    {<<new[i], victims[i]>> : i \in {j \in DOMAIN victims : ~IsInsert(j)}}
    \cup {<<Rest[i], popped[i]>> : i \in {j \in DOMAIN popped : ~IsInsert(j)}}

(* Only the records the epoch does not insert are fetched from the store.  *)
Transfers ==
    {<<new[i], victims[i]>> : i \in {j \in DOMAIN victims : ~IsInsert(j)}}
    \cup {<<Rest[i], popped[i]>> : i \in {j \in DOMAIN popped : ~IsInsert(Len(victims) + j)}}

TransferVersions ==
    /\ pc = "transfer"
    /\ sent' = Transfers
    /\ pc' = "remap"
    /\ UNCHANGED <<epoch, work, maps, needed, bitmap, new, scan, popped, totals>>

(* The operations are remapped to slots and the epoch executes.            *)
Execute ==
    /\ pc = "remap"
    /\ epoch' = epoch + 1 /\ pc' = "mark"
    /\ need' = {} /\ insert' = {}
    /\ needed' = {} /\ new' = <<>> /\ victims' = <<>> /\ popped' = <<>> /\ sent' = {}
    /\ count' = 0 /\ maxOffset' = 0
    /\ offset' = [t \in Threads |-> Cap] /\ UNCHANGED checked
    /\ UNCHANGED <<exist, deleted, maps, bitmap, totals>>

(* The run is over, or the bounded supply of record ids is.                *)
Done ==
    /\ epoch > LastEpoch \/ pc = "full" \/ (pc = "mark" /\ Records \subseteq deleted)
    /\ UNCHANGED vars

Next ==
    \/ MarkReclaimable \/ OverCapacity \/ LookupNeeded
    \/ \E t \in Threads : CheckCount(t) \/ CollectReclaim(t) \/ CollectFifo(t)
    \/ TopUp \/ Rename \/ RingPop \/ TransferVersions \/ Execute \/ Done

Spec == Init /\ [][Next]_vars

--------------------------------------------------------------------------------
(* The flat index and the resident list name the same bindings: no record  *)
(* sits in two slots, no slot is bound to two records, and a slot still in *)
(* the free ring holds nothing; the totals reported at the end of a run    *)
(* agree with the ring ("ring_pops = admitted - evicted").                 *)
IndexMatchesSlots ==
    /\ \A c \in Records, g \in Slots : crid2grid[c] = g <=> resident[g] = c
    /\ \A g \in Slots : resident[g] = None <=> g >= head
    /\ pc \in {"mark", "remap"} => head = admitted - evicted

(* The eviction list names no slot twice, although the two collection      *)
(* passes scan the same slots (checkEvictionListDistinct).                 *)
VictimsDistinct == \A i, j \in DOMAIN victims : victims[i] = victims[j] => i = j

(* When the collection ends the deficit is covered, whatever the threads   *)
(* raced for, and the ring holds the rest: neither "could not find enough  *)
(* evictable entries" nor a short grant can happen in an epoch that fits,  *)
(* and no thread writes past the victim list.                              *)
EnoughVictims ==
    /\ Len(victims) <= Len(new)
    /\ pc = "fifo" /\ KernelDone => count >= Deficit /\ Len(victims) = Deficit
    /\ pc = "ring" => Len(Rest) <= Free

(* A slot flagged for reclaim holds a deleted record: draining it can      *)
(* never cost a live record its place.                                     *)
FlaggedAreDeleted == \A g \in reclaim : resident[g] \in deleted

(* The transfers of an epoch are those of its missing records that it does *)
(* not insert, each into the slot the index gives the record.              *)
TransfersMatchIndex ==
    pc = "remap" /\ new # <<>> =>
        sent = {<<c, crid2grid[c]>> : c \in Range(new) \ insert}

(* Staging binds what the epoch needs and takes no slot from a record the  *)
(* epoch needs.                                                            *)
Binding == INSTANCE CacheBinding
ImplementsBinding == Binding!Spec
================================================================================
