----------------------------- MODULE EpochPipeline -----------------------------
(***************************************************************************)
(* The YCSB epoch pipeline of EGAD (ycsb.cpp, ycsb_hybrid_stager.cu,       *)
(* scatter_gather.cu, ycsb_recovery.cpp): a durable Primary Store of       *)
(* dual-version records, a volatile GPU Execution Cache that admits,       *)
(* executes and evicts records epoch by epoch, an asynchronous writeback   *)
(* worker that lands epoch E while epoch E+1 is being prepared, a durable  *)
(* crash marker, and recovery by rollback and replay.                      *)
(*                                                                         *)
(* Data abstraction.  A record value is the number of the last epoch that  *)
(* wrote it, or Junk: the bytes of an unfinished memcpy, of a slot nobody  *)
(* wrote, or of a transaction that computed from anything but the value    *)
(* the serial execution of the log would have given it.                    *)
(***************************************************************************)
EXTENDS Integers, FiniteSets, SerialLog, DualVersion

CONSTANTS
    Slots,       \* GRIDs: slots of the Execution Cache
    NEpochs,     \* config.epochs
    Batches,     \* the access sets an epoch's transactions may have
    MaxCrashes,  \* bound: how many times the process may die
    None         \* 0xffffffff: the slot holds no record

Junk == -1

Epochs == 1 .. NEpochs
Values == 0 .. NEpochs \cup {Junk}
Tags   == 0 .. NEpochs

(* One epoch's access sets: the records it touches, writes and inserts.    *)
Batch == [touch : SUBSET Records, write : SUBSET Records, insert : SUBSET Records]

(* One packed writeback record: value and tag of one slot of one record.   *)
Entry == [rec : Records, slot : SlotIds, ver : Epochs, val : Values]

ASSUME ConstantsAssumption ==
    /\ Initial \subseteq Records
    /\ NEpochs \in Nat \ {0}
    /\ Batches \subseteq Batch
    /\ MaxCrashes \in Nat
    /\ None \notin Records

(* prepareEpoch throws when an epoch needs more records than the cache has *)
(* slots; the pipeline is modelled for runs whose cache is large enough.   *)
ASSUME CapacityAssumption ==
    \A b \in Batches : Cardinality(b.touch) <= Cardinality(Slots)

VARIABLES
    log,       \* txn_array: the input log, regenerated identically on replay
    overlap,   \* config.overlap_flush, the same in the process that recovers
    storeVer,  \* durable: tags of the Primary Store records
    storeVal,  \* durable: values of the Primary Store records
    marker,    \* durable: crash_epoch of the recovery metadata, 0 if none
    epoch,     \* epoch_id of the main loop
    pc,        \* program point of the main thread
    resident,  \* d_resident_list_: which record each cache slot holds
    cacheVer,  \* tags of the cache slots
    cacheVal,  \* values of the cache slots
    dirty,     \* the (slot, version) pairs marked dirty by the executor
    gather,    \* records bound to a slot and not yet transferred to it
    sgDone,    \* sg_transfer_done_
    valid,     \* FlushHandle::valid
    part,      \* packed entries of the chunk the worker is scattering
    rest,      \* packed entries of the second half
    copying,   \* entries whose value memcpy has begun
    copied,    \* entries whose value is complete, tag not yet stored
    undo,      \* (record, version) tags recovery has still to visit
    crashes    \* how many times the process has died

durable  == <<storeVer, storeVal, marker>>
cache    == <<resident, cacheVer, cacheVal, dirty>>
handle   == <<valid, part, rest>>
landing  == <<copying, copied>>
vars == <<log, overlap, durable, epoch, pc, cache, gather, sgDone, handle, landing,
          undo, crashes>>

--------------------------------------------------------------------------------
(* The value the transactions of epoch e leave in r when they find old.    *)
NewVal(r, e, old) ==
    IF r \in log[e].insert \/ Latest(log, r, e - 1, old) THEN e ELSE Junk

Init ==
    /\ log \in [Epochs -> Batches]
    /\ WellFormed(log, NEpochs)
    /\ overlap \in BOOLEAN
    /\ storeVer = [r \in Records |-> [s \in SlotIds |-> 0]]
    /\ storeVal = [r \in Records |->
                     [s \in SlotIds |-> IF r \in Initial /\ s = 1 THEN 0 ELSE Junk]]
    /\ marker = 0
    /\ epoch = 1
    /\ pc = "prepare"
    /\ resident = [g \in Slots |-> None]
    /\ cacheVer = [g \in Slots |-> [s \in SlotIds |-> 0]]
    /\ cacheVal = [g \in Slots |-> [s \in SlotIds |-> Junk]]
    /\ dirty = {}
    /\ gather = {}
    /\ sgDone = FALSE
    /\ valid = FALSE
    /\ part = {} /\ rest = {}
    /\ copying = {} /\ copied = {}
    /\ undo = {}
    /\ crashes = 0

--------------------------------------------------------------------------------
(* Staging: prepareEpoch.                                                  *)

Held == {resident[g] : g \in Slots} \ {None}

(* The needed records without a slot get one, each a different one, from   *)
(* the free slots or by evicting records the epoch does not need.  A slot  *)
(* bound to a new record keeps its old contents until the transfer.  Only  *)
(* records that are not inserts of this epoch are fetched from the store.  *)
PrepareBind ==
    LET need == log[epoch].touch
        new  == need \ Held
    IN  /\ pc = "prepare"
        /\ \E bind \in [new -> {g \in Slots : resident[g] \notin need}] :
              /\ \A r1, r2 \in new : bind[r1] = bind[r2] => r1 = r2
              /\ resident' = [g \in Slots |->
                                IF \E r \in new : bind[r] = g
                                THEN CHOOSE r \in new : bind[r] = g
                                ELSE resident[g]]
        /\ gather' = new \ log[epoch].insert
        /\ pc' = "gather"
        /\ UNCHANGED <<log, overlap, durable, epoch, cacheVer, cacheVal, dirty, sgDone,
                       handle, landing, undo, crashes>>

(* Mutant: the transfer takes the slot the epoch will overwrite.           *)
AdmitWriteTarget(r) ==
    LET src == WriteSlot(storeVer[r])
    IN  /\ pc = "gather"
        /\ r \in gather
        /\ cacheVer' = [g \in Slots |->
                          IF resident[g] = r THEN storeVer[r] ELSE cacheVer[g]]
        /\ cacheVal' = [g \in Slots |->
                          IF resident[g] = r
                          THEN [cacheVal[g] EXCEPT ![src] = storeVal[r][src]]
                          ELSE cacheVal[g]]
        /\ gather' = gather \ {r}
        /\ UNCHANGED <<log, overlap, durable, epoch, pc, resident, dirty, sgDone, handle,
                       landing, undo, crashes>>

(* The admission transfer of one record: both tags and the value of the    *)
(* slot that holds the value before this epoch.                            *)
Admit(r) ==
    LET src == ReadSlot(storeVer[r], epoch)
    IN  /\ pc = "gather"
        /\ r \in gather
        /\ cacheVer' = [g \in Slots |->
                          IF resident[g] = r THEN storeVer[r] ELSE cacheVer[g]]
        /\ cacheVal' = [g \in Slots |->
                          IF resident[g] = r
                          THEN [cacheVal[g] EXCEPT ![src] = storeVal[r][src]]
                          ELSE cacheVal[g]]
        /\ gather' = gather \ {r}
        /\ UNCHANGED <<log, overlap, durable, epoch, pc, resident, dirty, sgDone, handle,
                       landing, undo, crashes>>

(* The transfers are complete: the flush worker is released, and the tags  *)
(* of the slots allocated to inserts are zeroed.                           *)
PrepareDone ==
    /\ pc = "gather"
    /\ gather = {}
    /\ sgDone' = TRUE
    /\ cacheVer' = [g \in Slots |->
                      IF resident[g] \in log[epoch].insert
                      THEN [s \in SlotIds |-> 0] ELSE cacheVer[g]]
    /\ pc' = "execute"
    /\ UNCHANGED <<log, overlap, durable, epoch, resident, cacheVal, dirty, gather,
                   handle, landing, undo, crashes>>

--------------------------------------------------------------------------------
(* Mutant: the dirty mark lands on the version that was not written.       *)
ExecuteMarksOther ==
    LET w == {g \in Slots : resident[g] \in log[epoch].write}
        base(g) == cacheVal[g][ReadSlot(cacheVer[g], epoch)]
    IN  /\ pc = "execute"
        /\ cacheVal' = [g \in Slots |->
                          IF g \in w
                          THEN [cacheVal[g] EXCEPT ![WriteSlot(cacheVer[g])] =
                                  NewVal(resident[g], epoch, base(g))]
                          ELSE cacheVal[g]]
        /\ cacheVer' = [g \in Slots |->
                          IF g \in w
                          THEN [cacheVer[g] EXCEPT ![WriteSlot(cacheVer[g])] = epoch]
                          ELSE cacheVer[g]]
        /\ dirty' = dirty \cup {<<g, Newest(cacheVer[g])>> : g \in w}
        /\ pc' = "sync"
        /\ UNCHANGED <<log, overlap, durable, epoch, resident, gather, sgDone, handle,
                       landing, undo, crashes>>

(* Execution: the epoch's transactions run on the cache.  The last writer  *)
(* of each record overwrites its older slot, tags it and marks it dirty.   *)
Execute ==
    LET w == {g \in Slots : resident[g] \in log[epoch].write}
        base(g) == cacheVal[g][ReadSlot(cacheVer[g], epoch)]
    IN  /\ pc = "execute"
        /\ cacheVal' = [g \in Slots |->
                          IF g \in w
                          THEN [cacheVal[g] EXCEPT ![WriteSlot(cacheVer[g])] =
                                  NewVal(resident[g], epoch, base(g))]
                          ELSE cacheVal[g]]
        /\ cacheVer' = [g \in Slots |->
                          IF g \in w
                          THEN [cacheVer[g] EXCEPT ![WriteSlot(cacheVer[g])] = epoch]
                          ELSE cacheVer[g]]
        /\ dirty' = dirty \cup {<<g, WriteSlot(cacheVer[g])>> : g \in w}
        /\ pc' = "sync"
        /\ UNCHANGED <<log, overlap, durable, epoch, resident, gather, sgDone, handle,
                       landing, undo, crashes>>

--------------------------------------------------------------------------------
(* The end of an epoch.                                                    *)

WorkerIdle == part = {} /\ rest = {} /\ copying = {} /\ copied = {}

(* Mutant: the epoch ends without waiting for the previous writeback.      *)
SyncFlushNoJoin ==
    /\ pc = "sync"
    /\ valid' = FALSE
    /\ pc' = "bump"
    /\ UNCHANGED <<log, overlap, durable, epoch, cache, gather, sgDone, part, rest,
                   landing, undo, crashes>>

(* Join the worker that lands the previous epoch.                          *)
SyncFlush ==
    /\ pc = "sync"
    /\ valid => WorkerIdle
    /\ valid' = FALSE
    /\ pc' = "bump"
    /\ UNCHANGED <<log, overlap, durable, epoch, cache, gather, sgDone, part, rest,
                   landing, undo, crashes>>

(* Mutants: the marker names the epoch being flushed; it skips an epoch.   *)
BumpMarkerLate ==
    /\ pc = "bump"
    /\ marker' = epoch
    /\ pc' = "flush"
    /\ UNCHANGED <<log, overlap, storeVer, storeVal, epoch, cache, gather, sgDone, handle,
                   landing, undo, crashes>>
BumpMarkerEarly ==
    /\ pc = "bump"
    /\ marker' = epoch + 2
    /\ pc' = "flush"
    /\ UNCHANGED <<log, overlap, storeVer, storeVal, epoch, cache, gather, sgDone, handle,
                   landing, undo, crashes>>

(* Advance the durable crash marker to the next epoch.                     *)
BumpMarker ==
    /\ pc = "bump"
    /\ marker' = epoch + 1
    /\ pc' = "flush"
    /\ UNCHANGED <<log, overlap, storeVer, storeVal, epoch, cache, gather, sgDone, handle,
                   landing, undo, crashes>>

(* The flush set: every dirty version, packed out of the cache.            *)
Packed == {[rec |-> resident[d[1]], slot |-> d[2],
            ver |-> cacheVer[d[1]][d[2]], val |-> cacheVal[d[1]][d[2]]] : d \in dirty}

(* The next epoch, or the end of the run.                                  *)
Advance ==
    IF epoch < NEpochs THEN epoch' = epoch + 1 /\ pc' = "prepare"
                       ELSE epoch' = epoch /\ pc' = "final"

(* Hand the flush set to the worker in two halves.  A first half of zero   *)
(* records is taken by wb_chunked_d2h_scatter to mean the whole set, so a  *)
(* flush of one record is scattered twice.                                 *)
Halves(es, first, second) ==
    IF Cardinality(es) = 1
    THEN first = es /\ second = es
    ELSE /\ first \subseteq es
         /\ Cardinality(first) = Cardinality(es) \div 2
         /\ second = es \ first

(* Mutant: the dirty bits of the flush set survive its collection.         *)
StartFlushKeepsDirty ==
    /\ pc = "flush"
    /\ overlap
    /\ IF dirty = {}
       THEN UNCHANGED <<sgDone, handle>>
       ELSE /\ \E first, second \in SUBSET Packed :
                  /\ Halves(Packed, first, second)
                  /\ part' = first
                  /\ rest' = second
            /\ sgDone' = FALSE
            /\ valid' = TRUE
    /\ Advance
    /\ UNCHANGED <<log, overlap, durable, resident, cacheVer, cacheVal, dirty, gather, landing,
                   undo, crashes>>

StartFlush ==
    /\ pc = "flush"
    /\ overlap
    /\ dirty' = {}
    /\ IF dirty = {}
       THEN UNCHANGED <<sgDone, handle>>
       ELSE /\ \E first, second \in SUBSET Packed :
                  /\ Halves(Packed, first, second)
                  /\ part' = first
                  /\ rest' = second
            /\ sgDone' = FALSE
            /\ valid' = TRUE
    /\ Advance
    /\ UNCHANGED <<log, overlap, durable, resident, cacheVer, cacheVal, gather, landing,
                   undo, crashes>>

(* Without overlap the main thread lands the flush set itself, and clears  *)
(* its dirty bits afterwards.                                              *)
PeriodicFlush ==
    /\ pc = "flush"
    /\ ~overlap
    /\ part' = Packed
    /\ pc' = "drain"
    /\ UNCHANGED <<log, overlap, durable, epoch, cache, gather, sgDone, valid, rest, landing,
                   undo, crashes>>

FinishPeriodicFlush ==
    /\ pc = "drain"
    /\ WorkerIdle
    /\ dirty' = {}
    /\ Advance
    /\ UNCHANGED <<log, overlap, durable, resident, cacheVer, cacheVal, gather, sgDone, handle,
                   landing, undo, crashes>>

(* Mutants: the last worker is never released; it is not joined.           *)
FinalNoSignal ==
    /\ pc = "final"
    /\ pc' = "join"
    /\ UNCHANGED <<log, overlap, durable, epoch, cache, gather, sgDone, handle, landing, undo,
                   crashes>>
FinalNoJoin ==
    /\ pc = "join"
    /\ valid' = FALSE
    /\ pc' = "done"
    /\ UNCHANGED <<log, overlap, durable, epoch, cache, gather, sgDone, part, rest,
                   landing, undo, crashes>>

(* After the last epoch nothing is admitted, so the run itself releases    *)
(* the worker's second half before joining it.                             *)
FinalSignal ==
    /\ pc = "final"
    /\ sgDone' = (sgDone \/ valid)
    /\ pc' = "join"
    /\ UNCHANGED <<log, overlap, durable, epoch, cache, gather, handle, landing, undo, crashes>>

FinalJoin ==
    /\ pc = "join"
    /\ valid => WorkerIdle
    /\ valid' = FALSE
    /\ pc' = "done"
    /\ UNCHANGED <<log, overlap, durable, epoch, cache, gather, sgDone, part, rest,
                   landing, undo, crashes>>

--------------------------------------------------------------------------------
(* The scatter of packed records into the Primary Store, any number of     *)
(* them at a time: the value is copied, then its tag is stored.  Copying   *)
(* bytes over equal bytes changes nothing, over others tears the value.    *)
ValueCopyBegin(x) ==
    /\ x \in part
    /\ part' = part \ {x}
    /\ copying' = copying \cup {x}
    /\ storeVal' = [storeVal EXCEPT ![x.rec][x.slot] = IF @ = x.val THEN @ ELSE Junk]
    /\ UNCHANGED <<log, overlap, storeVer, marker, epoch, pc, cache, gather, sgDone, valid,
                   rest, copied, undo, crashes>>

ValueCopyEnd(x) ==
    /\ x \in copying
    /\ copying' = copying \ {x}
    /\ copied' = copied \cup {x}
    /\ storeVal' = [storeVal EXCEPT ![x.rec][x.slot] = x.val]
    /\ UNCHANGED <<log, overlap, storeVer, marker, epoch, pc, cache, gather, sgDone, handle,
                   undo, crashes>>

(* Mutant: the synchronous flush stores the tag of the epoch before.       *)
TagStoreStale(x) ==
    /\ x \in copied
    /\ copied' = copied \ {x}
    /\ storeVer' = [storeVer EXCEPT ![x.rec][x.slot] = x.ver - 1]
    /\ UNCHANGED <<log, overlap, storeVal, marker, epoch, pc, cache, gather, sgDone, handle,
                   copying, undo, crashes>>

TagStore(x) ==
    /\ x \in copied
    /\ copied' = copied \ {x}
    /\ storeVer' = [storeVer EXCEPT ![x.rec][x.slot] = x.ver]
    /\ UNCHANGED <<log, overlap, storeVal, marker, epoch, pc, cache, gather, sgDone, handle,
                   copying, undo, crashes>>

(* The first half has landed and the admission transfer is over.           *)
SecondHalf ==
    /\ part = {} /\ copying = {} /\ copied = {}
    /\ rest # {}
    /\ sgDone
    /\ part' = rest
    /\ rest' = {}
    /\ UNCHANGED <<log, overlap, durable, epoch, pc, cache, gather, sgDone, valid, landing,
                   undo, crashes>>

--------------------------------------------------------------------------------
(* The process dies: everything that is not durable is gone.               *)
Crash ==
    /\ pc # "done"
    /\ crashes < MaxCrashes
    /\ crashes' = crashes + 1
    /\ pc' = "recover"
    /\ epoch' = 1
    /\ resident' = [g \in Slots |-> None]
    /\ cacheVer' = [g \in Slots |-> [s \in SlotIds |-> 0]]
    /\ cacheVal' = [g \in Slots |-> [s \in SlotIds |-> Junk]]
    /\ dirty' = {} /\ gather' = {}
    /\ sgDone' = FALSE /\ valid' = FALSE
    /\ part' = {} /\ rest' = {} /\ copying' = {} /\ copied' = {}
    /\ undo' = {}
    /\ UNCHANGED <<log, overlap, durable>>

(* A fresh process reads the marker E.  Below 2 there is nothing to roll   *)
(* back to and the whole log is replayed.                                  *)
Recover ==
    /\ pc = "recover"
    /\ IF marker < 2 THEN pc' = "prepare" /\ undo' = {}
                     ELSE pc' = "rollback" /\ undo' = Records \X SlotIds
    /\ UNCHANGED <<log, overlap, durable, epoch, cache, gather, sgDone, handle,
                   landing, crashes>>

(* rollbackPrimaryStoreVersions, one tag at a time.                        *)
RollbackTag(r, s) ==
    /\ pc = "rollback"
    /\ <<r, s>> \in undo
    /\ undo' = undo \ {<<r, s>>}
    /\ storeVer' = [storeVer EXCEPT ![r][s] = DemoteTag(@, marker - 1)]
    /\ UNCHANGED <<log, overlap, storeVal, marker, epoch, pc, cache, gather, sgDone, handle,
                   landing, crashes>>

(* Replay starts one epoch before the marker.                              *)
RollbackDone ==
    /\ pc = "rollback"
    /\ undo = {}
    /\ epoch' = marker - 1
    /\ pc' = "prepare"
    /\ UNCHANGED <<log, overlap, durable, cache, gather, sgDone, handle, landing,
                   undo, crashes>>

--------------------------------------------------------------------------------
Terminated == pc = "done" /\ UNCHANGED vars

MainThread ==
    \/ PrepareBind
    \/ \E r \in Records : Admit(r)
    \/ PrepareDone
    \/ Execute
    \/ SyncFlush
    \/ BumpMarker
    \/ StartFlush
    \/ PeriodicFlush
    \/ FinishPeriodicFlush
    \/ FinalSignal
    \/ FinalJoin
    \/ Recover
    \/ \E r \in Records, s \in SlotIds : RollbackTag(r, s)
    \/ RollbackDone

Worker ==
    \/ \E x \in part : ValueCopyBegin(x)
    \/ \E x \in copying : ValueCopyEnd(x)
    \/ \E x \in copied : TagStore(x)
    \/ SecondHalf

Next == MainThread \/ Worker \/ Crash \/ Terminated

Spec == Init /\ [][Next]_vars

FairSpec == Spec /\ WF_vars(MainThread) /\ WF_vars(Worker)
--------------------------------------------------------------------------------
(* Properties.                                                             *)

InFlight == part \cup rest \cup copying \cup copied

ProgramPoints == {"prepare", "gather", "execute", "sync", "bump", "flush", "drain",
                  "final", "join", "done", "recover", "rollback"}

FlagsOK == sgDone \in BOOLEAN /\ valid \in BOOLEAN

(* Every variable keeps its type: tags are epochs of the run, a cache slot *)
(* holds a record or None, every flush entry is a packed version.          *)
TypeOK ==
    /\ log \in [Epochs -> Batches]
    /\ storeVer \in [Records -> [SlotIds -> Tags]]
    /\ storeVal \in [Records -> [SlotIds -> Values]]
    /\ marker \in 0 .. NEpochs + 1
    /\ epoch \in Epochs
    /\ pc \in ProgramPoints
    /\ resident \in [Slots -> Records \cup {None}]
    /\ cacheVer \in [Slots -> [SlotIds -> Tags]]
    /\ cacheVal \in [Slots -> [SlotIds -> Values]]
    /\ dirty \subseteq Slots \X SlotIds
    /\ gather \subseteq Records
    /\ FlagsOK
    /\ part \subseteq Entry /\ rest \subseteq Entry
    /\ copying \subseteq Entry /\ copied \subseteq Entry
    /\ undo \subseteq Records \X SlotIds
    /\ crashes \in 0 .. MaxCrashes

(* The last epoch whose end state recovery returns to: end-of-(E-2) for    *)
(* marker E, the initial population when there is no usable marker.        *)
RecoveryPoint == IF marker < 2 THEN 0 ELSE marker - 2

(* The value of r that rollback would leave as the read base.              *)
RollbackBase(r) == storeVal[r][Newest(Demote(storeVer[r], RecoveryPoint + 1))]

(* A crash at any moment, in the middle of any memcpy, writeback, rollback *)
(* or marker update, leaves a Primary Store from which                     *)
(* rollbackPrimaryStoreVersions(E - 1) recovers the serial state at the    *)
(* end of epoch E-2, for every record that exists then.                    *)
RollbackSound ==
    \A r \in Records :
        Exists(log, r, RecoveryPoint) => Latest(log, r, RecoveryPoint, RollbackBase(r))

(* "at most one slot per record carries a tag >= E-1 at any crash point"   *)
(* (tpcc_recovery.cpp, the rationale ycsb_recovery.cpp refers to).         *)
OneDiscardedSlot ==
    \A r \in Records : \E s \in SlotIds : storeVer[r][s] <= RecoveryPoint

(* The admission transfer of epoch E never reads a Primary Store record    *)
(* the worker of epoch E-1 is still writing, although both run at once and *)
(* nothing locks a record.                                                 *)
AdmitUncontended == \A x \in InFlight : x.rec \notin gather

(* When the kernel of epoch E starts, every record it touches is in the    *)
(* cache and the slot its readers use holds the serial value at the end of *)
(* epoch E-1, whether it was admitted now, stayed resident, or took over   *)
(* the slot of an evicted record.                                          *)
ReadsSerial ==
    pc = "execute" =>
        \A r \in log[epoch].touch : \E g \in Slots :
            /\ resident[g] = r
            /\ r \notin log[epoch].insert =>
                  Latest(log, r, epoch - 1, cacheVal[g][ReadSlot(cacheVer[g], epoch)])

(* No committed write is lost between the cache and the store: when an     *)
(* epoch starts, the serial value of every record at the end of the        *)
(* previous one is in the Primary Store, or on its way in the flush set.   *)
NothingLost ==
    pc = "prepare" =>
        \A r \in Records : Exists(log, r, epoch - 1) =>
            IF \E x \in InFlight : x.rec = r
            THEN \A x \in InFlight : x.rec = r => Latest(log, r, epoch - 1, x.val)
            ELSE Latest(log, r, epoch - 1, storeVal[r][Newest(storeVer[r])])

(* A run that ends, after any number of crashes and replays, leaves the    *)
(* Primary Store at the serial state of the whole log.                     *)
FinalStateSerial ==
    pc = "done" =>
        \A r \in Records : Exists(log, r, NEpochs) =>
            Latest(log, r, NEpochs, storeVal[r][Newest(storeVer[r])])

(* "evicted records are never dirty" (prepareEpoch): rebinding a cache     *)
(* slot never drops a version that has not been packed for writeback.      *)
EvictedNeverDirty ==
    [][\A g \in Slots : resident'[g] # resident[g] /\ crashes' = crashes =>
           \A s \in SlotIds : <<g, s>> \notin dirty]_vars

(* The recoverable state follows the serial execution of the log, epoch by *)
(* epoch: no crash, restart, admission or writeback moves it, and bumping  *)
(* the marker applies exactly one epoch.                                   *)
Serial == INSTANCE SerialStore WITH
    applied <- RecoveryPoint,
    db <- [r \in Records |-> IF Exists(log, r, RecoveryPoint) THEN RollbackBase(r) ELSE Junk],
    Absent <- Junk

ImplementsSerialStore == Serial!Spec

(* Every run ends: no join waits for a worker that waits for a signal      *)
(* nobody will send, whatever the number of records in the flush and after *)
(* every crash.                                                            *)
RunTerminates == <>(pc = "done")
================================================================================
