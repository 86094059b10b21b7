----------------------------- MODULE TpccPipeline ------------------------------
(***************************************************************************)
(* The TPC-C epoch pipeline (tpcc.cpp, tpcc_hybrid_stager.cu,              *)
(* tpcc_recovery.cpp): one stager, one Execution Cache and one persistent  *)
(* flush worker per table, and one crash marker for all of them.  The      *)
(* stagers of an epoch run side by side, each beside the worker that still *)
(* lands the previous epoch of its table; the tables meet at the executor, *)
(* at the marker and in recovery.                                          *)
(*                                                                         *)
(* Values are those of EpochPipeline: the last epoch that wrote a record,  *)
(* or Junk.  A transaction reads and writes several tables, so one base    *)
(* that is not the serial one spoils every write of its epoch.  A cache is *)
(* the set of its resident records: which slot holds a record is           *)
(* StagerCache's matter.                                                   *)
(***************************************************************************)
EXTENDS Integers, FiniteSets, Sequences, SerialLog, DualVersion

CONSTANTS
    TableOf,     \* the table of each record
    FlushOrder,  \* the tables in the order periodicFlush, rollback and the end visit them
    SubmitOrder, \* the tables in the order their flush workers are submitted
    Capacity,    \* gpu_capacity_ of each table's cache
    Warm,        \* the undelivered order lines of the initial population
    NEpochs,     \* config.epochs
    Batches,     \* the access sets an epoch's transactions may have
    MaxCrashes,  \* bound: how many times the process may die
    None         \* the record is not in the cache

Junk == -1
Tables == {FlushOrder[i] : i \in DOMAIN FlushOrder}
Epochs == 1 .. NEpochs

ASSUME TpccAssumption ==
    /\ TableOf \in [Records -> Tables] /\ {SubmitOrder[i] : i \in DOMAIN SubmitOrder} = Tables
    /\ Capacity \in [Tables -> Nat] /\ Warm \subseteq Initial /\ Initial \subseteq Records
    /\ NEpochs \in Nat \ {0} /\ MaxCrashes \in Nat
    /\ Batches \subseteq [touch : SUBSET Records, write : SUBSET Records,
                          insert : SUBSET Records]
    /\ None \notin [ver : [SlotIds -> Nat], val : [SlotIds -> Int]]
    /\ \A b \in Batches, t \in Tables :
          Cardinality({r \in b.touch : TableOf[r] = t}) <= Capacity[t]

VARIABLES
    log,                 \* txn_array
    isDurable, overlap,  \* is there a recovery_meta_; config.overlap_flush
    storeVer, storeVal,  \* cpu_records: durable
    marker,              \* durable: crash_epoch, 0 if none
    epoch, pc,
    todo,       \* tables whose section or turn of the current block is still to come
    cached,     \* record -> its tags and values in the cache, or None
    dirty,      \* (record, version) pairs marked by the executor
    gather,     \* records bound to a slot and not yet transferred
    packed,     \* flush entries packed and not yet submitted
    work,       \* flush entries submitted, value copy not begun
    landing,    \* flush entries whose value is being copied
    undo,       \* (record, version) tags recovery has still to visit
    crashes

config == <<log, isDurable, overlap>>
store == <<storeVer, storeVal, marker>>
flushing == <<packed, work, landing>>
vars == <<config, store, epoch, pc, todo, cached, dirty, gather, flushing, undo, crashes>>

Of(t) == {r \in Records : TableOf[r] = t}
First(order) == order[CHOOSE i \in DOMAIN order :
                         order[i] \in todo /\ \A j \in 1 .. i - 1 : order[j] \notin todo]
NoTags == [s \in SlotIds |-> 0]

(* Mutant: the pool holds whatever the device memory held.                 *)
FreshSlotUnset == [ver |-> NoTags, val |-> [s \in SlotIds |-> Junk]]

(* A slot of the pool nobody has used: GpuAllocator zeroes what it hands   *)
(* out, and the initial population of every table is all zero.             *)
FreshSlot == [ver |-> NoTags, val |-> [s \in SlotIds |-> 0]]

(* The slot of a record bound this epoch, before its transfer: the tags of *)
(* an insert are zeroed, the rest is what the slot's last record left.     *)
BoundSlot == [ver |-> NoTags, val |-> [s \in SlotIds |-> Junk]]

(* The transfer of one record: both tags, and the value of the slot that   *)
(* holds what was there before epoch e, into the same slot of the cache.   *)
Transferred(r, e, into) ==
    LET src == ReadSlot(storeVer[r], e)
    IN  [ver |-> storeVer[r], val |-> [into.val EXCEPT ![src] = storeVal[r][src]]]

(* Every record starts with tags and values of zero.  For durable tables   *)
(* and for pinned ones that is the code's doing; for growing tables that   *)
(* are pageable (MallocPageable, no memset) it holds as long as malloc     *)
(* hands out fresh pages, which allocations of their size get from the     *)
(* system.  The transfers rely on it: they read both tags of a record, and *)
(* the writeback of an insert wrote only one, the pre-warm's records none. *)
Init ==
    /\ log \in [Epochs -> Batches] /\ WellFormed(log, NEpochs)
    /\ isDurable \in BOOLEAN /\ overlap \in BOOLEAN
    /\ storeVer = [r \in Records |-> NoTags]
    /\ storeVal = [r \in Records |-> [s \in SlotIds |-> 0]]
    /\ marker = 0
    /\ epoch = 1 /\ pc = "prewarm" /\ todo = {}
    /\ cached = [r \in Records |-> None]
    /\ dirty = {} /\ gather = {}
    /\ packed = {} /\ work = {} /\ landing = {}
    /\ undo = {} /\ crashes = 0

--------------------------------------------------------------------------------
(* Before epoch 1 of a run that does not recover, the backlog of order     *)
(* lines is admitted, unless the cache is too small, into unused slots.    *)
(* The transfer is told epoch 0, which is also the tag of a record nobody  *)
(* wrote: it takes the second slot, not the one readers will use.          *)
PreWarm ==
    /\ pc = "prewarm" /\ pc' = "stage" /\ todo' = Tables
    /\ cached' = [r \in Records |->
          IF r \in Warm /\ Cardinality(Warm) < Capacity[TableOf[r]]
          THEN Transferred(r, 0, FreshSlot) ELSE cached[r]]
    /\ UNCHANGED <<config, store, epoch, dirty, gather, flushing, undo, crashes>>

(* One stager's prepareEpoch up to its transfer: the needed records that   *)
(* are not resident get a slot, a free one while there is one, then one of *)
(* a record the epoch does not need.                                       *)
PrepareEpoch(t) ==
    LET need == log[epoch].touch \cap Of(t)
        held == {r \in Of(t) : cached[r] # None}
        new == need \ held
        excess == Cardinality(held \cup need) - Capacity[t]
    IN  /\ pc = "stage" /\ t \in todo
        /\ todo' = todo \ {t}
        /\ \E out \in SUBSET (held \ need) :
              /\ Cardinality(out) = IF excess > 0 THEN excess ELSE 0
              /\ cached' = [r \in Records |-> IF r \in out THEN None
                                              ELSE IF r \in new THEN BoundSlot ELSE cached[r]]
        /\ gather' = gather \cup (new \ log[epoch].insert)
        /\ UNCHANGED <<config, store, epoch, pc, dirty, flushing, undo, crashes>>

(* The transfer of one of them, beside the worker of its table.            *)
Admit(r) ==
    /\ pc = "stage" /\ r \in gather
    /\ cached' = [cached EXCEPT ![r] = Transferred(r, epoch, cached[r])]
    /\ gather' = gather \ {r}
    /\ UNCHANGED <<config, store, epoch, pc, todo, dirty, flushing, undo, crashes>>

Staged == pc = "stage" /\ todo = {} /\ gather = {}
Base(r) == cached[r].val[ReadSlot(cached[r].ver, epoch)]

(* Every base the epoch's transactions read, in any table, is the serial   *)
(* one.                                                                    *)
BasesSerial ==
    \A r \in log[epoch].touch \ log[epoch].insert : Latest(log, r, epoch - 1, Base(r))

(* The executor writes each record of the epoch's write set into its older *)
(* slot and marks that version dirty.                                      *)
Execute ==
    LET ws(r) == WriteSlot(cached[r].ver)
        w == log[epoch].write
    IN  /\ Staged
        /\ cached' = [r \in Records |->
              IF r \in w
              THEN [ver |-> [cached[r].ver EXCEPT ![ws(r)] = epoch],
                    val |-> [cached[r].val EXCEPT ![ws(r)] = IF BasesSerial THEN epoch ELSE Junk]]
              ELSE cached[r]]
        /\ dirty' = dirty \cup {<<r, ws(r)>> : r \in w}
        /\ todo' = IF overlap THEN Tables ELSE {}
        /\ pc' = "drain"
        /\ UNCHANGED <<config, store, epoch, gather, flushing, undo, crashes>>

--------------------------------------------------------------------------------
DirtyOf(t) == {d \in dirty : TableOf[d[1]] = t}
PackedOf(t) == {[rec |-> d[1], slot |-> d[2], ver |-> cached[d[1]].ver[d[2]],
                 val |-> cached[d[1]].val[d[2]]] : d \in DirtyOf(t)}

(* Mutant: the worker is not waited for.                                   *)
IdleUnchecked(t) == TRUE

(* persistent_worker_->wait(): the worker of t has no work.                *)
Idle(t) == \A x \in work \cup landing : TableOf[x.rec] # t

(* Mutant: the flush set is handed over at once in durable runs too.       *)
DeferSubmitNever == FALSE

(* defer_submit.                                                           *)
DeferSubmit == isDurable

(* The section of one stager: drain the previous writeback, collect and    *)
(* pack the dirty versions and clear their marks; without a marker to wait *)
(* for, submit them.                                                       *)
DrainAndPack(t) ==
    /\ pc = "drain" /\ t \in todo
    /\ Idle(t)
    /\ todo' = todo \ {t}
    /\ dirty' = dirty \ DirtyOf(t)
    /\ IF DeferSubmit THEN packed' = packed \cup PackedOf(t) /\ work' = work
                      ELSE work' = work \cup PackedOf(t) /\ packed' = packed
    /\ UNCHANGED <<config, store, epoch, pc, cached, gather, landing, undo, crashes>>

(* The next epoch, or the drain at the end of the run.                     *)
Advance ==
    IF epoch < NEpochs THEN epoch' = epoch + 1 /\ pc' = "stage" /\ todo' = Tables
                       ELSE epoch' = epoch /\ pc' = "final" /\ todo' = Tables

(* Every stager has drained the previous epoch and none has submitted this *)
(* one: advance the crash marker of a durable run.                         *)
BumpRecoveryMarker ==
    /\ pc = "drain" /\ todo = {}
    /\ marker' = IF isDurable THEN epoch + 1 ELSE marker
    /\ IF overlap /\ ~DeferSubmit THEN Advance
       ELSE pc' = (IF overlap THEN "submit" ELSE "flush") /\ todo' = Tables /\ epoch' = epoch
    /\ UNCHANGED <<config, storeVer, storeVal, cached, dirty, gather, flushing, undo, crashes>>

(* The flush workers are submitted one after the other.                    *)
SubmitFlushWorker(t) ==
    LET mine == {x \in packed : TableOf[x.rec] = t}
    IN  /\ pc = "submit" /\ t \in todo /\ t = First(SubmitOrder)
        /\ Idle(t)
        /\ work' = work \cup mine /\ packed' = packed \ mine
        /\ IF todo = {t} THEN Advance ELSE todo' = todo \ {t} /\ UNCHANGED <<epoch, pc>>
        /\ UNCHANGED <<config, store, cached, dirty, gather, landing, undo, crashes>>

(* Without overlap the main thread lands the tables one after the other,   *)
(* and clears a table's marks once it has landed.                          *)
PeriodicFlush(t) ==
    /\ pc = "flush" /\ t \in todo /\ t = First(FlushOrder)
    /\ work' = PackedOf(t) /\ pc' = "landing"
    /\ UNCHANGED <<config, store, epoch, todo, cached, dirty, gather, packed, landing,
                   undo, crashes>>

PeriodicFlushDone(t) ==
    /\ pc = "landing" /\ t \in todo /\ t = First(FlushOrder)
    /\ Idle(t)
    /\ dirty' = dirty \ DirtyOf(t)
    /\ IF todo = {t} THEN Advance ELSE todo' = todo \ {t} /\ pc' = "flush" /\ epoch' = epoch
    /\ UNCHANGED <<config, store, cached, gather, flushing, undo, crashes>>

(* The end of the run waits for the workers of overlapped runs in turn.    *)
FinalSync(t) ==
    /\ pc = "final" /\ t \in todo /\ t = First(FlushOrder)
    /\ overlap => Idle(t)
    /\ todo' = todo \ {t}
    /\ pc' = IF todo = {t} THEN "done" ELSE pc
    /\ UNCHANGED <<config, store, epoch, cached, dirty, gather, flushing, undo, crashes>>

--------------------------------------------------------------------------------
(* The scatter of a flush set: a value is copied, torn until it is whole,  *)
(* and its tag stored after it.                                            *)
ScatterValue(x) ==
    /\ x \in work
    /\ work' = work \ {x} /\ landing' = landing \cup {x}
    /\ storeVal' = [storeVal EXCEPT ![x.rec][x.slot] = IF @ = x.val THEN @ ELSE Junk]
    /\ UNCHANGED <<config, storeVer, marker, epoch, pc, todo, cached, dirty, gather, packed,
                   undo, crashes>>

ScatterTag(x) ==
    /\ x \in landing
    /\ landing' = landing \ {x}
    /\ storeVal' = [storeVal EXCEPT ![x.rec][x.slot] = x.val]
    /\ storeVer' = [storeVer EXCEPT ![x.rec][x.slot] = x.ver]
    /\ UNCHANGED <<config, marker, epoch, pc, todo, cached, dirty, gather, packed, work,
                   undo, crashes>>

(* A durable process dies; only the store and the marker survive.          *)
Crash ==
    /\ isDurable /\ pc # "done" /\ crashes < MaxCrashes
    /\ crashes' = crashes + 1
    /\ pc' = "recover" /\ epoch' = 1 /\ todo' = {}
    /\ cached' = [r \in Records |-> None]
    /\ dirty' = {} /\ gather' = {}
    /\ packed' = {} /\ work' = {} /\ landing' = {} /\ undo' = {}
    /\ UNCHANGED <<config, store>>

(* A fresh process reads the marker; below 2 it replays the whole log.     *)
Recover ==
    /\ pc = "recover"
    /\ todo' = Tables
    /\ IF marker < 2 THEN pc' = "stage" /\ undo' = {}
                     ELSE pc' = "rollback" /\ undo' = Records \X SlotIds
    /\ UNCHANGED <<config, store, epoch, cached, dirty, gather, flushing, crashes>>

(* rollback_table: demote one tag of the table at hand, over the full      *)
(* extent of the table, whatever the cursors say was inserted.             *)
RollbackTag(r, s) ==
    /\ pc = "rollback" /\ todo # {} /\ TableOf[r] = First(FlushOrder)
    /\ <<r, s>> \in undo
    /\ undo' = undo \ {<<r, s>>}
    /\ storeVer' = [storeVer EXCEPT ![r][s] = DemoteTag(@, marker - 1)]
    /\ UNCHANGED <<config, storeVal, marker, epoch, pc, todo, cached, dirty, gather, flushing,
                   crashes>>

(* The table is done; after the last one the run resumes one epoch before  *)
(* the marker.                                                             *)
RollbackTableDone(t) ==
    /\ pc = "rollback" /\ t \in todo /\ t = First(FlushOrder)
    /\ \A d \in undo : TableOf[d[1]] # t
    /\ IF todo = {t} THEN pc' = "stage" /\ epoch' = marker - 1 /\ todo' = Tables
                     ELSE todo' = todo \ {t} /\ UNCHANGED <<pc, epoch>>
    /\ UNCHANGED <<config, store, cached, dirty, gather, flushing, undo, crashes>>

Terminated == pc = "done" /\ UNCHANGED vars

Next ==
    \/ PreWarm
    \/ \E t \in Tables : PrepareEpoch(t)
    \/ \E r \in Records : Admit(r)
    \/ Execute
    \/ \E t \in Tables : DrainAndPack(t)
    \/ BumpRecoveryMarker
    \/ \E t \in Tables : SubmitFlushWorker(t)
    \/ \E t \in Tables : PeriodicFlush(t)
    \/ \E t \in Tables : PeriodicFlushDone(t)
    \/ \E t \in Tables : FinalSync(t)
    \/ \E x \in work : ScatterValue(x)
    \/ \E x \in landing : ScatterTag(x)
    \/ Crash
    \/ Recover
    \/ \E r \in Records, s \in SlotIds : RollbackTag(r, s)
    \/ \E t \in Tables : RollbackTableDone(t)
    \/ Terminated

Spec == Init /\ [][Next]_vars

--------------------------------------------------------------------------------
RecoveryPoint == IF marker < 2 THEN 0 ELSE marker - 2
RollbackBase(r) == storeVal[r][Newest(Demote(storeVer[r], RecoveryPoint + 1))]

(* A durable run may die at any moment, with some tables landed, some half *)
(* landed and some not submitted: the one marker names an epoch whose end  *)
(* state every table can still be rolled back to.                          *)
RollbackSound ==
    isDurable => \A r \in Records :
        Exists(log, r, RecoveryPoint) => Latest(log, r, RecoveryPoint, RollbackBase(r))

(* "no byte of epoch E may reach the Primary Store before                  *)
(* bumpRecoveryMarker(E+1)" (tpcc.cpp), from any table's worker.           *)
MarkerBeforeBytes ==
    isDurable =>
        /\ \A x \in work \cup landing : x.ver < marker
        /\ \A r \in Records, s \in SlotIds : storeVer[r][s] # 0 => storeVer[r][s] < marker

(* When the executor starts, every record the epoch reads in any table has *)
(* its serial value in the slot readers use, a pre-warmed one included     *)
(* ("a no-pre-warm run is value-identical", tpcc.cpp), and no worker is    *)
(* writing a record that was admitted from under it.                       *)
ReadsSerial ==
    /\ Staged => (\A r \in log[epoch].touch : cached[r] # None) /\ BasesSerial
    /\ \A x \in work \cup landing : x.rec \notin gather

(* A run that ends has landed the serial state of the whole log in every   *)
(* table, overlapped or not, durable or not, after any replay.             *)
FinalStateSerial ==
    pc = "done" => \A r \in Records :
        Exists(log, r, NEpochs) => Latest(log, r, NEpochs, storeVal[r][Newest(storeVer[r])])
================================================================================
