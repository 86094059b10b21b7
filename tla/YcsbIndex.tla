------------------------------- MODULE YcsbIndex -------------------------------
(***************************************************************************)
(* The YCSB index (ycsb_gpu_index.cu), its durable shadow logs             *)
(* (ycsb_cpu_shadow_index.cpp) and their recovery (ycsb.cpp, recovery      *)
(* block of runBenchmark).  Each epoch resolves its operations to record   *)
(* ids on a fast path, or through the timeline when an insert is not of a  *)
(* fresh key; the records created and ended are appended to durable logs   *)
(* store by store; the marker publishes the log cursors of the last two    *)
(* epochs.  The process may die between any two steps.                     *)
(*                                                                         *)
(* The GPU map is a cuco static_map: index[k] lists the entries of key k   *)
(* in probe order.  A lookup or an erase takes the first; an insert may    *)
(* put a second entry in front of a live one once a slot has been erased.  *)
(***************************************************************************)
EXTENDS SerialIndex, FiniteSets

CONSTANTS
    NumRecords,   \* num_records: the record ids, Starting of them loaded
    Batches,      \* the batches an epoch may have: sequences of Op
    LastEpoch,    \* bound: number of epochs, for each number of operations
    MaxCrashes,   \* bound: number of crashes, for each number of operations
    CrashInReplay,\* may a process die between the first two bumps after recovery?
    Nothing       \* a marker never published

TL == INSTANCE EpochTimeline WITH Junk <- -2

Crids == 0 .. NumRecords - 1
FreeTotal == NumRecords - Starting

ASSUME IndexAssumption ==
    /\ Keys \subseteq Nat /\ Starting \in Nat /\ NumRecords \in Nat
    /\ Starting < NumRecords
    /\ LastEpoch \in [DOMAIN LastEpoch -> Nat] /\ MaxCrashes \in [DOMAIN LastEpoch -> Nat]
    /\ CrashInReplay \in BOOLEAN

VARIABLES
    numOps,     \* operations of an epoch, the same in every epoch of a run
    input,      \* the batches of the epochs started so far (the input log)
    epoch, pc,
    index,      \* GPU: key -> entries in probe order
    hasErased,  \* index_has_erased
    freeStart, deleteCount,   \* host cursors into the two logs
    ids,        \* the record id of each operation of the epoch
    minted,     \* keys of the records the epoch created, in slot order
    edel,       \* its effective deletes, in slot order
    copied,     \* elements of the epoch's log entries stored so far
    insKeys, delKeys, delCrids,  \* durable logs
    marker,     \* durable: [epoch, p1, p2] or Nothing
    recovered, bumps,  \* was this process started by recovery; its marker updates
    crashes

host == <<freeStart, deleteCount, hasErased>>
out == <<ids, minted, edel, copied>>
logs == <<insKeys, delKeys, delCrids>>
process == <<numOps, recovered, bumps, crashes>>
vars == <<input, epoch, pc, index, host, out, logs, marker, process>>

Slots == DOMAIN input[epoch]
MintedBegin == Starting + freeStart
Find(idx, k) == IF idx[k] = <<>> THEN Absent ELSE Head(idx[k])
EraseKeys(idx, ks) == [k \in Keys |-> IF k \in ks /\ idx[k] # <<>> THEN Tail(idx[k]) ELSE idx[k]]
EntriesOf(live) == [k \in Keys |-> IF live[k] = Absent THEN <<>> ELSE <<live[k]>>]

(* A bulk insert of a list of keys by concurrent threads: w[k] is the      *)
(* element that gets an entry for k, 0 if none does.  An absent key gets   *)
(* one; a live key is rejected while the map has no erased slot.           *)
Winners(idx, erased, ks) ==
    {w \in [Keys -> 0 .. Len(ks)] : \A k \in Keys :
        /\ w[k] # 0 => ks[w[k]] = k
        /\ idx[k] = <<>> /\ k \in Range(ks) => w[k] # 0
        /\ idx[k] # <<>> /\ ~erased => w[k] = 0}

Enter(idx, w, begin) ==
    [k \in Keys |-> IF w[k] = 0 THEN idx[k] ELSE <<begin + w[k] - 1>> \o idx[k]]

Init ==
    /\ numOps \in DOMAIN LastEpoch
    /\ input = <<>> /\ epoch = 1 /\ pc = "load"
    /\ index = EntriesOf(SerialInit.live) /\ hasErased = FALSE
    /\ freeStart = 0 /\ deleteCount = 0
    /\ ids = <<>> /\ minted = <<>> /\ edel = <<>> /\ copied = 0
    /\ insKeys = [j \in 0 .. FreeTotal - 1 |-> 0]
    /\ delKeys = [j \in Crids |-> 0] /\ delCrids = [j \in Crids |-> 0]
    /\ marker = Nothing
    /\ recovered = FALSE /\ bumps = 0 /\ crashes = 0

(* An epoch runs the batch of the input log: a new one, or on replay the   *)
(* one it had.                                                             *)
LoadBatch ==
    /\ pc = "load" /\ epoch <= LastEpoch[numOps]
    /\ IF epoch \in DOMAIN input THEN input' = input
       ELSE \E b \in {x \in Batches : Len(x) = numOps} : input' = Append(input, b)
    /\ pc' = "insert"
    /\ UNCHANGED <<epoch, index, host, out, logs, marker, process>>

InsertSlots == {s \in Slots : input[epoch][s].op = "INSERT"}
InsSlot == SetToSortSeq(InsertSlots, <)
InsertList == [j \in 1 .. Cardinality(InsertSlots) |-> input[epoch][InsSlot[j]].key]

(* Mutant: the last free row is counted twice.                             *)
HasRowsOffByOne(want) == want <= FreeTotal - freeStart + 1

(* checkFreeRows.                                                          *)
HasRows(want) == want <= FreeTotal - freeStart

(* insertFresh before the bulk insert: once a slot has been erased, a      *)
(* lookup of every key decides.                                            *)
HoldsInsert == hasErased /\ \E j \in DOMAIN InsertList : Find(index, InsertList[j]) # Absent

(* ... and after it: by the number of new entries, or by a second lookup.  *)
AllFresh(w, idx) ==
    IF hasErased THEN \A j \in DOMAIN InsertList : Find(idx, InsertList[j]) = MintedBegin + j - 1
    ELSE Cardinality({k \in Keys : w[k] # 0}) = Len(InsertList)

(* The inserts of the epoch enter the map with tentative record ids.       *)
InsertFresh ==
    /\ pc = "insert" /\ HasRows(Len(InsertList))
    /\ IF HoldsInsert THEN pc' = "undo" /\ index' = index
       ELSE \E w \in Winners(index, hasErased, InsertList) :
              /\ index' = Enter(index, w, MintedBegin)
              /\ pc' = IF AllFresh(w, index') THEN "fast" ELSE "undo"
    /\ UNCHANGED <<input, epoch, host, out, logs, marker, process>>

(* Mutant: the undo erases every key of the bulk insert.                   *)
TentativeAll == Range(InsertList)

(* Undo of a rejected bulk insert: erase the keys that hold a tentative id *)
Tentative == {k \in Range(InsertList) :
                Find(index, k) \in MintedBegin .. MintedBegin + Len(InsertList) - 1}

EraseTentative ==
    /\ pc = "undo"
    /\ index' = EraseKeys(index, Tentative)
    /\ hasErased' = (hasErased \/ Tentative # {})
    /\ pc' = "general"
    /\ UNCHANGED <<input, epoch, freeStart, deleteCount, out, logs, marker, process>>

(* What indexTxns leaves for the mirroring: ids, minted and edel.          *)
Resolved(rids, mint, dels) ==
    /\ ids' = rids /\ minted' = mint /\ edel' = dels /\ copied' = 0
    /\ freeStart' = freeStart + Len(mint)
    /\ pc' = "mirror"

(* fastLookup: a record minted this epoch is visible from its insert on.   *)
FastLookup(s) ==
    LET rid == Find(index, input[epoch][s].key)
        j   == rid - MintedBegin + 1
    IN  IF rid # Absent /\ j \in DOMAIN InsertList /\ s < InsSlot[j] THEN Absent ELSE rid

(* k_record_deletes: the slots that delete record rid; threads keep the    *)
(* first with atomicMin.                                                   *)
DeleteSlots(rid) == {s \in Slots : input[epoch][s].op = "DELETE" /\ FastLookup(s) = rid}

(* Mutant: a delete hides its record from the whole epoch.                 *)
FastResolveOpBlind(s) ==
    LET rid == FastLookup(s)
    IN  IF rid # Absent /\ \E d \in DeleteSlots(rid) : d # s THEN Absent ELSE rid

FastResolveOp(s) ==
    LET rid == FastLookup(s)
    IN  IF rid # Absent /\ \E d \in DeleteSlots(rid) : d < s THEN Absent ELSE rid

(* k_effective_deletes: the deletes that are the first of their record.    *)
EffectiveDeletes ==
    {s \in Slots : /\ input[epoch][s].op = "DELETE" /\ FastResolveOp(s) # Absent
                   /\ \A d \in DeleteSlots(FastResolveOp(s)) : s <= d}

(* The effective deletes in slot order; crid[s] is the record slot s ends. *)
DeleteList(crid) ==
    LET order == SetToSortSeq(DOMAIN crid, <)
    IN  [j \in 1 .. Cardinality(DOMAIN crid) |->
           [key |-> input[epoch][order[j]].key, crid |-> crid[order[j]]]]

FastResolve ==
    /\ pc = "fast"
    /\ Resolved([s \in Slots |-> FastResolveOp(s)], InsertList,
                DeleteList([s \in EffectiveDeletes |-> FastResolveOp(s)]))
    /\ index' = EraseKeys(index, {input[epoch][s].key : s \in EffectiveDeletes})
    /\ hasErased' = (hasErased \/ EffectiveDeletes # {})
    /\ UNCHANGED <<input, epoch, deleteCount, logs, marker, process>>

(* General path: the timeline resolves the epoch, then each key's final    *)
(* state is applied to the map.                                            *)
Entries == [s \in Slots |-> [op |-> input[epoch][s].op, key |-> input[epoch][s].key, pos |-> s]]
C0 == [k \in Keys |-> Find(index, k)]
LifeList == LET order == SetToSortSeq(TL!Lives(Entries, C0), <)
            IN  [j \in 1 .. Cardinality(TL!Lives(Entries, C0)) |-> Entries[order[j]].key]

ResolveThroughTimeline ==
    /\ pc = "general" /\ HasRows(Len(LifeList))
    /\ Resolved([s \in Slots |-> TL!Resolve(Entries, s, C0, MintedBegin)], LifeList,
                DeleteList([s \in TL!Edels(Entries, C0) |->
                              TL!EntryCrid(Entries, s, C0, MintedBegin)]))
    /\ LET erase == TL!FinErase(Entries, C0, MintedBegin)
           ins   == TL!FinInsert(Entries, C0, MintedBegin)
           left  == EraseKeys(index, erase)
       IN  /\ index' = [k \in Keys |-> IF k \in ins THEN
                            <<TL!Final(Entries, k, C0, MintedBegin)>> \o left[k] ELSE left[k]]
           /\ hasErased' = (hasErased \/ erase # {})
    /\ UNCHANGED <<input, epoch, deleteCount, logs, marker, process>>

(* checkFreeRows throws: the run ends.  The same check of the general path *)
(* cannot fail, every life-creating insert being an insert counted here.   *)
OutOfRows ==
    /\ pc = "insert" /\ ~HasRows(Len(InsertList))
    /\ pc' = "failed"
    /\ UNCHANGED <<input, epoch, index, host, out, logs, marker, process>>

(* mirrorEpoch: one store of the append of the epoch's insert keys.        *)
MirrorEpoch ==
    /\ pc = "mirror" /\ copied < Len(minted)
    /\ insKeys' = [insKeys EXCEPT ![freeStart - Len(minted) + copied] = minted[copied + 1]]
    /\ copied' = copied + 1
    /\ UNCHANGED <<input, epoch, pc, index, host, ids, minted, edel, delKeys, delCrids, marker, process>>

(* mirrorEpochDeletes: the keys first, then the record ids they ended.     *)
MirrorEpochDeletes ==
    LET j == copied - Len(minted)
        n == Len(edel)
    IN  /\ pc = "mirror" /\ j >= 0 /\ j < 2 * n
        /\ IF j < n
           THEN delKeys' = [delKeys EXCEPT ![deleteCount + j] = edel[j + 1].key] /\ UNCHANGED delCrids
           ELSE delCrids' = [delCrids EXCEPT ![deleteCount + j - n] = edel[j - n + 1].crid] /\ UNCHANGED delKeys
        /\ copied' = copied + 1
        /\ UNCHANGED <<input, epoch, pc, index, host, ids, minted, edel, insKeys, marker, process>>

(* indexTxns returns; the rest of the epoch does not touch the index.      *)
MirrorDone ==
    /\ pc = "mirror" /\ copied = Len(minted) + 2 * Len(edel)
    /\ deleteCount' = deleteCount + Len(edel)
    /\ pc' = "bump"
    /\ UNCHANGED <<input, epoch, index, freeStart, hasErased, out, logs, marker, process>>

(* bumpRecoveryMarker at the end of the epoch, one step (RecoveryMeta).    *)
BumpMarker ==
    /\ pc = "bump"
    /\ marker' = [epoch |-> epoch + 1,
                  p1 |-> [free |-> freeStart, del |-> deleteCount],
                  p2 |-> IF marker = Nothing THEN [free |-> 0, del |-> 0] ELSE marker.p1]
    /\ epoch' = epoch + 1 /\ pc' = "load" /\ bumps' = bumps + 1
    /\ ids' = <<>> /\ minted' = <<>> /\ edel' = <<>> /\ copied' = 0
    /\ UNCHANGED <<numOps, input, index, host, logs, recovered, crashes>>

(* The process dies; a fresh one loads the initial population.             *)
Crash ==
    /\ pc \notin {"recover", "failed"} /\ crashes < MaxCrashes[numOps]
    /\ ~recovered \/ bumps # 1 \/ CrashInReplay
    /\ crashes' = crashes + 1 /\ recovered' = TRUE /\ bumps' = 0
    /\ pc' = "recover" /\ epoch' = 1
    /\ index' = EntriesOf(SerialInit.live) /\ hasErased' = FALSE
    /\ freeStart' = 0 /\ deleteCount' = 0
    /\ ids' = <<>> /\ minted' = <<>> /\ edel' = <<>> /\ copied' = 0
    /\ UNCHANGED <<numOps, input, logs, marker>>

(* reconstructInsertsFromDurable: the last log entry of a key wins.        *)
Reconstructed(count) ==
    [k \in Keys |->
        LET at == {j \in 0 .. count - 1 : insKeys[j] = k}
        IN  IF at = {} THEN SerialInit.live[k] ELSE Starting + Max(at)]

(* Mutant: a logged delete erases its key whatever the key maps to.        *)
AppliedByKey(shard, count) ==
    [k \in Keys |-> IF \E j \in 0 .. count - 1 : delKeys[j] = k THEN Absent ELSE shard[k]]

(* applyDeletesFromDurable: a delete erases its key only while the key     *)
(* still maps to the record the delete ended.                              *)
Applied(shard, count) ==
    [k \in Keys |-> IF \E j \in 0 .. count - 1 : delKeys[j] = k /\ delCrids[j] = shard[k]
                    THEN Absent ELSE shard[k]]

(* rebuildCucoFromShadow: drop stragglers, upload the shards, resync.      *)
Rebuilt(shard, free) == EntriesOf([k \in Keys |-> IF shard[k] >= Starting + free THEN Absent ELSE shard[k]])

(* Mutant: the delete cursor is not resynchronised.                        *)
RecoverKeepsDeletes ==
    /\ pc = "recover" /\ pc' = "load"
    /\ IF marker = Nothing THEN UNCHANGED <<epoch, index, freeStart, deleteCount>>
       ELSE /\ epoch' = marker.epoch - 1
            /\ freeStart' = marker.p2.free /\ UNCHANGED deleteCount
            /\ index' = Rebuilt(Applied(Reconstructed(marker.p2.free), marker.p2.del), marker.p2.free)
    /\ UNCHANGED <<input, hasErased, out, logs, marker, process>>

(* A fresh process rolls the index back to the end of epoch E-2, or starts *)
(* over when there is no such epoch.                                       *)
Recover ==
    /\ pc = "recover" /\ pc' = "load"
    /\ IF marker = Nothing THEN UNCHANGED <<epoch, index, freeStart, deleteCount>>
       ELSE /\ epoch' = marker.epoch - 1
            /\ freeStart' = marker.p2.free /\ deleteCount' = marker.p2.del
            /\ index' = Rebuilt(Applied(Reconstructed(marker.p2.free), marker.p2.del), marker.p2.free)
    /\ UNCHANGED <<input, hasErased, out, logs, marker, process>>

Done == (pc = "failed" \/ epoch > LastEpoch[numOps]) /\ UNCHANGED vars

Next ==
    \/ LoadBatch \/ InsertFresh \/ EraseTentative \/ FastResolve \/ ResolveThroughTimeline
    \/ OutOfRows \/ MirrorEpoch \/ MirrorEpochDeletes \/ MirrorDone \/ BumpMarker
    \/ Crash \/ Recover \/ Done

Spec == Init /\ [][Next]_vars

--------------------------------------------------------------------------------
Counts(s) == [free |-> Len(s.minted), del |-> Len(s.ended)]

(* Types and ranges; the cursors stay inside the logs they index.          *)
TypeOK ==
    /\ input \in Seq(Batches) /\ epoch \in 1 .. LastEpoch[numOps] + 1
    /\ pc \in {"load", "insert", "fast", "undo", "general", "mirror", "bump", "recover", "failed"}
    /\ \A k \in Keys : Len(index[k]) <= 2 /\ Range(index[k]) \subseteq Crids
    /\ freeStart \in 0 .. FreeTotal /\ deleteCount \in 0 .. NumRecords
    /\ insKeys \in [0 .. FreeTotal - 1 -> Keys] /\ delKeys \in [Crids -> Keys]
    /\ delCrids \in [Crids -> Crids]

(* Every operation resolves to the record the serial order gives it, on    *)
(* either path, in the first run and in a replay, and the records created  *)
(* and ended are those of the serial order.                                *)
ResolvesSerially ==
    pc = "bump" => LET s == Serial(input, epoch)
                   IN  /\ ids = s.ids
                       /\ [free |-> freeStart, del |-> deleteCount] = Counts(s)

(* Between epochs, after recovery included, the map is the serial live map *)
(* and holds no second entry of a key.                                     *)
IndexSerial ==
    pc = "load" => LET s == Serial(input, epoch - 1)
                   IN  /\ index = EntriesOf(s.live)
                       /\ [free |-> freeStart, del |-> deleteCount] = Counts(s)

(* "puts the map back at its epoch-start state": a rejected bulk insert    *)
(* leaves no trace before the timeline looks the keys up.                  *)
RejectedInsertUndone ==
    pc = "general" => index = EntriesOf(Serial(input, epoch - 1).live)

(* A log entry below a published cursor is never changed: replay rewrites  *)
(* the tail with the entries it held, so both rollback targets stay        *)
(* recoverable while the process writes.                                   *)
PublishedLogStable ==
    [][marker # Nothing =>
        /\ \A j \in 0 .. marker.p1.free - 1 : insKeys'[j] = insKeys[j]
        /\ \A j \in 0 .. marker.p1.del - 1 : delKeys'[j] = delKeys[j] /\ delCrids'[j] = delCrids[j]]_vars

(* "The shift leaves p2 == f_{crash_epoch-2} (the rollback target)".       *)
CursorsNameTarget ==
    marker # Nothing => marker.p2 = Counts(Serial(input, marker.epoch - 2))
================================================================================
