-------------------------- MODULE TpccPipelineProofs ---------------------------
(***************************************************************************)
(* For any tables, records, caches, epochs and crashes, whichever stager   *)
(* is ahead of the others.  First: in a durable run no byte of an epoch    *)
(* reaches the Primary Store before the marker has moved past it.  Second: *)
(* what the executor reads is the serial value, what recovery would roll   *)
(* back to is the serial state the marker names, and what a finished run   *)
(* leaves in the store is the serial state of the whole log.               *)
(***************************************************************************)
EXTENDS TpccPipeline, TLAPS

Down == {"recover", "rollback"}
Flushing == {"submit", "flush", "landing"}

(* What is in the store and on its way there is older than the marker.     *)
StoreBelowMarker ==
    /\ storeVer \in [Records -> [SlotIds -> Nat]]
    /\ storeVal \in [Records -> [SlotIds -> Int]]
    /\ \A r \in Records, s \in SlotIds : storeVer[r][s] # 0 => storeVer[r][s] < marker

WorkBelowMarker ==
    \A x \in work \cup landing :
        /\ x.rec \in Records /\ x.slot \in SlotIds /\ x.val \in Int
        /\ x.ver \in Nat /\ x.ver < marker

(* Where the marker may be.                                                *)
MarkerInStep ==
    /\ epoch \in Epochs /\ marker \in 0 .. NEpochs + 1
    /\ pc \notin Down => marker <= epoch + 1
    /\ pc \in Flushing => marker = epoch + 1
    /\ pc \in Down => epoch = 1
    /\ pc = "rollback" => marker >= 2

(* No version in a cache is younger than the epoch.                        *)
Slot(e) == [ver : [SlotIds -> 0 .. e], val : [SlotIds -> Int]]
CacheInEpoch == cached \in [Records -> {None} \cup Slot(epoch)]

(* A record waits for its transfer in a slot its stager has bound.         *)
GatherBound ==
    \A r \in gather :
        r \in Records /\ cached[r] # None /\ pc = "stage" /\ TableOf[r] \notin todo

(* What the epoch needs is bound as soon as its stager has run.            *)
NeededBound ==
    pc = "stage" => \A r \in log[epoch].touch : TableOf[r] \in todo \/ cached[r] # None

(* A dirty version is in a cache, and its table is still to be collected.  *)
DirtyCached ==
    \A d \in dirty :
        /\ d \in Records \X SlotIds /\ cached[d[1]] # None
        /\ pc \in {"drain", "flush", "landing"}
        /\ (pc = "drain" /\ ~overlap) \/ TableOf[d[1]] \in todo

(* Only overlapped runs pack, and a packed entry waits for the marker.     *)
PackedInEpoch ==
    /\ pc = "drain" /\ todo # {} => overlap
    /\ \A x \in packed :
          /\ x.rec \in Records /\ x.slot \in SlotIds /\ x.val \in Int
          /\ x.ver \in 0 .. epoch
          /\ overlap
          /\ pc = "drain" \/ (pc = "submit" /\ TableOf[x.rec] \in todo)

LogOK == log \in [Epochs -> Batches] /\ WellFormed(log, NEpochs)

DurableInv ==
    /\ LogOK /\ StoreBelowMarker /\ WorkBelowMarker /\ MarkerInStep /\ CacheInEpoch
    /\ GatherBound /\ NeededBound /\ DirtyCached /\ PackedInEpoch

(* The inductive invariant; a run without a marker promises nothing.       *)
MarkerInv == isDurable => DurableInv

--------------------------------------------------------------------------------
(* An entry of a cache is never None.                                      *)
LEMMA SlotsAreNotNone ==
    ASSUME epoch \in Epochs
    PROVE  /\ None \notin Slot(epoch)
           /\ FreshSlot \in Slot(epoch) /\ BoundSlot \in Slot(epoch)
  BY TpccAssumption DEF Slot, FreshSlot, BoundSlot, NoTags, Junk, Epochs

(* The transfer of a record brings the tags of the store.                  *)
LEMMA TransferredTags ==
    ASSUME NEW r \in Records, NEW e, NEW into \in Slot(epoch),
           StoreBelowMarker, MarkerInStep, pc \notin Down
    PROVE  Transferred(r, e, into) \in Slot(epoch)
  <1>1. storeVer[r] \in [SlotIds -> 0 .. epoch]
    BY DEF StoreBelowMarker, MarkerInStep, Epochs, Down
  <1>2. storeVal[r][ReadSlot(storeVer[r], e)] \in Int
    BY Zenon DEF StoreBelowMarker, ReadSlot, Newest, SlotIds
  <1> QED BY <1>1, <1>2, Zenon DEF Transferred, Slot

--------------------------------------------------------------------------------
(* Staging: a slot gets the tags of the store, or none.                    *)
LEMMA PreWarmStep == ASSUME DurableInv, PreWarm PROVE DurableInv'
  <1> USE DEF DurableInv, PreWarm, config, store, flushing
  <1>1. pc = "prewarm" /\ pc \notin Down /\ pc' = "stage" /\ todo' = Tables
    BY Zenon DEF Down
  <1>2. LogOK'
    BY Zenon DEF LogOK
  <1>3. StoreBelowMarker' /\ WorkBelowMarker'
    BY Zenon DEF StoreBelowMarker, WorkBelowMarker
  <1>4. MarkerInStep'
    BY <1>1, Zenon DEF MarkerInStep, Flushing, Down
  <1>5. CacheInEpoch'
    <2>1. FreshSlot \in Slot(epoch)
      BY SlotsAreNotNone, Zenon DEF MarkerInStep
    <2>2. \A r \in Records : Transferred(r, 0, FreshSlot) \in Slot(epoch)
      BY <1>1, <2>1, TransferredTags, Zenon
    <2> QED BY <2>2, Zenon DEF CacheInEpoch, Slot
  <1>6. NeededBound'
    <2>1. \A r \in log[epoch].touch : r \in Records
      BY TpccAssumption DEF LogOK, MarkerInStep
    <2> QED BY <2>1, <1>1, TpccAssumption, Zenon DEF NeededBound
  <1>7. DirtyCached' /\ PackedInEpoch' /\ GatherBound'
    BY <1>1, Zenon DEF DirtyCached, PackedInEpoch, GatherBound
  <1> QED BY <1>2, <1>3, <1>4, <1>5, <1>6, <1>7, Zenon

(* A stager binds its records to slots with no tags.                       *)
LEMMA PrepareEpochStep ==
    ASSUME DurableInv, NEW t \in Tables, PrepareEpoch(t) PROVE DurableInv'
  <1> USE DEF DurableInv, config, store, flushing
  <1> DEFINE need == log[epoch].touch \cap Of(t)
             held == {r \in Of(t) : cached[r] # None}
  <1>1. pc = "stage" /\ pc' = "stage" /\ t \in todo /\ todo' = todo \ {t}
    BY Zenon DEF PrepareEpoch
  <1>2. UNCHANGED <<log, isDurable, overlap, storeVer, storeVal, marker, epoch, dirty,
                    packed, work, landing>>
    BY Zenon DEF PrepareEpoch
  <1>3. PICK out \in SUBSET (held \ need) :
           cached' = [r \in Records |-> IF r \in out THEN None
                        ELSE IF r \in need \ held THEN BoundSlot ELSE cached[r]]
    BY Zenon DEF PrepareEpoch
  <1>4. gather' \subseteq gather \cup (need \ held)
    BY Zenon DEF PrepareEpoch
  <1>5. LogOK' /\ StoreBelowMarker' /\ WorkBelowMarker' /\ MarkerInStep'
    BY <1>1, <1>2, Zenon DEF LogOK, StoreBelowMarker, WorkBelowMarker, MarkerInStep
  <1>6. BoundSlot \in Slot(epoch) /\ BoundSlot # None
    BY SlotsAreNotNone, Zenon DEF MarkerInStep
  <1>7. CacheInEpoch'
    BY <1>2, <1>3, <1>6, Zenon DEF CacheInEpoch, Slot
  <1>8. \A r \in need : r \in Records /\ TableOf[r] = t /\ cached'[r] # None
    BY <1>3, <1>6, Zenon DEF Of
  <1>9. \A r \in Records : TableOf[r] # t => cached'[r] = cached[r]
    BY <1>3, Zenon DEF Of
  <1>10. NeededBound'
    <2> SUFFICES ASSUME NEW r \in log[epoch].touch, TableOf[r] \notin todo \ {t}
                 PROVE  cached'[r] # None
      BY <1>1, <1>2, Zenon DEF NeededBound
    <2>1. r \in Records
      BY TpccAssumption DEF LogOK, MarkerInStep
    <2> QED BY <2>1, <1>1, <1>8, <1>9, Zenon DEF NeededBound, Of
  <1>11. GatherBound'
    <2> SUFFICES ASSUME NEW r \in gather'
                 PROVE  r \in Records /\ cached'[r] # None /\ TableOf[r] \notin todo \ {t}
      BY <1>1, Zenon DEF GatherBound
    <2>1. CASE r \in need
      BY <2>1, <1>8, Zenon
    <2>2. CASE r \in gather
      BY <2>2, <1>1, <1>9, Zenon DEF GatherBound
    <2> QED BY <2>1, <2>2, <1>4, Zenon
  <1>12. DirtyCached' /\ PackedInEpoch'
    BY <1>1, <1>2, Zenon DEF DirtyCached, PackedInEpoch
  <1> QED BY <1>5, <1>7, <1>10, <1>11, <1>12, Zenon

(* A transfer runs only into a bound slot.                                 *)
LEMMA AdmitStep ==
    ASSUME DurableInv, NEW r \in Records, Admit(r) PROVE DurableInv'
  <1> USE DEF DurableInv, config, store, flushing
  <1>1. pc = "stage" /\ pc' = "stage" /\ pc \notin Down
    BY Zenon DEF Admit, Down
  <1>2. UNCHANGED <<log, isDurable, overlap, storeVer, storeVal, marker, epoch, todo, dirty,
                    packed, work, landing>>
    BY Zenon DEF Admit
  <1>3. /\ cached' = [cached EXCEPT ![r] = Transferred(r, epoch, cached[r])]
        /\ r \in gather /\ gather' = gather \ {r}
    BY Zenon DEF Admit
  <1>4. LogOK' /\ StoreBelowMarker' /\ WorkBelowMarker' /\ MarkerInStep'
    BY <1>1, <1>2, Zenon DEF LogOK, StoreBelowMarker, WorkBelowMarker, MarkerInStep
  <1>5. cached[r] \in Slot(epoch)
    BY <1>3, Zenon DEF CacheInEpoch, GatherBound
  <1>6. Transferred(r, epoch, cached[r]) \in Slot(epoch)
    BY <1>1, <1>5, TransferredTags, Zenon
  <1>7. Transferred(r, epoch, cached[r]) # None
    BY <1>6, SlotsAreNotNone, Zenon DEF MarkerInStep
  <1>8. CacheInEpoch'
    BY <1>2, <1>3, <1>6, Zenon DEF CacheInEpoch, Slot
  <1>9. \A q \in Records : cached[q] # None => cached'[q] # None
    BY <1>3, <1>7, Zenon DEF CacheInEpoch
  <1>10. NeededBound'
    <2>1. \A q \in log[epoch].touch : q \in Records
      BY TpccAssumption DEF LogOK, MarkerInStep
    <2> QED BY <2>1, <1>1, <1>2, <1>9, Zenon DEF NeededBound
  <1>11. GatherBound'
    BY <1>1, <1>2, <1>3, <1>9, Zenon DEF GatherBound
  <1>12. DirtyCached' /\ PackedInEpoch'
    BY <1>1, <1>2, Zenon DEF DirtyCached, PackedInEpoch
  <1> QED BY <1>4, <1>8, <1>10, <1>11, <1>12, Zenon

--------------------------------------------------------------------------------
(* Execution tags what it writes with the epoch, never beyond it.          *)
LEMMA ExecuteStep == ASSUME DurableInv, Execute PROVE DurableInv'
  <1> USE DEF DurableInv, config, store, flushing
  <1> DEFINE w == log[epoch].write
             ws(r) == WriteSlot(cached[r].ver)
  <1>1. /\ pc = "stage" /\ todo = {} /\ gather = {} /\ pc' = "drain"
        /\ todo' = IF overlap THEN Tables ELSE {}
    BY Zenon DEF Execute, Staged
  <1>2. UNCHANGED <<log, isDurable, overlap, storeVer, storeVal, marker, epoch, gather,
                    packed, work, landing>>
    BY Zenon DEF Execute
  <1>3. dirty' = dirty \cup {<<r, ws(r)>> : r \in w}
    BY Zenon DEF Execute
  <1>4. LogOK' /\ StoreBelowMarker' /\ WorkBelowMarker'
    BY <1>2, Zenon DEF LogOK, StoreBelowMarker, WorkBelowMarker
  <1>5. MarkerInStep'
    BY <1>1, <1>2, Zenon DEF MarkerInStep, Flushing, Down
  <1>6. \A r \in w : r \in Records /\ cached[r] \in Slot(epoch) /\ ws(r) \in SlotIds
    <2> SUFFICES ASSUME NEW r \in w
                 PROVE  r \in Records /\ cached[r] \in Slot(epoch) /\ ws(r) \in SlotIds
      BY Zenon
    <2>1. r \in log[epoch].touch /\ r \in Records
      BY TpccAssumption DEF LogOK, MarkerInStep, WellFormed, Epochs
    <2>2. cached[r] \in Slot(epoch)
      BY <2>1, <1>1, Zenon DEF NeededBound, CacheInEpoch
    <2> QED BY <2>1, <2>2, Zenon DEF WriteSlot, SlotIds
  <1>7. \A r \in w : cached'[r] \in Slot(epoch)
    <2> SUFFICES ASSUME NEW r \in w PROVE cached'[r] \in Slot(epoch)
      BY Zenon
    <2>1. cached'[r] = [ver |-> [cached[r].ver EXCEPT ![ws(r)] = epoch],
                        val |-> [cached[r].val EXCEPT ![ws(r)] =
                                    IF BasesSerial THEN epoch ELSE Junk]]
      BY <1>6, Zenon DEF Execute
    <2>2. epoch \in 0 .. epoch /\ epoch \in Int /\ Junk \in Int
      BY DEF MarkerInStep, Epochs, Junk
    <2> QED BY <2>1, <2>2, <1>6 DEF Slot
  <1>8. \A r \in Records : r \notin w => cached'[r] = cached[r]
    BY Zenon DEF Execute
  <1>9. cached' = [r \in Records |-> cached'[r]]
    BY Zenon DEF Execute
  <1>10. CacheInEpoch'
    <2>1. \A r \in Records : cached'[r] \in {None} \cup Slot(epoch)
      BY <1>7, <1>8, Zenon DEF CacheInEpoch
    <2> QED BY <2>1, <1>2, <1>9, Zenon DEF CacheInEpoch, Slot
  <1>11. DirtyCached'
    <2>1. dirty = {}
      BY <1>1, Zenon DEF DirtyCached
    <2>2. \A r \in w : cached'[r] # None
      BY <1>7, SlotsAreNotNone, Zenon DEF MarkerInStep
    <2>3. \A d \in dirty' : d \in Records \X SlotIds /\ cached'[d[1]] # None
      BY <2>1, <2>2, <1>3, <1>6
    <2>4. \A d \in dirty' : TableOf[d[1]] \in Tables
      BY <2>3, TpccAssumption, Zenon
    <2> QED BY <2>3, <2>4, <1>1, <1>2, Zenon DEF DirtyCached
  <1>12. NeededBound' /\ GatherBound' /\ PackedInEpoch'
    BY <1>1, <1>2, Zenon DEF NeededBound, GatherBound, PackedInEpoch
  <1> QED BY <1>4, <1>5, <1>10, <1>11, <1>12, Zenon

(* What a flush set holds comes from the caches.                           *)
LEMMA PackedEntries ==
    ASSUME CacheInEpoch, DirtyCached, NEW t, NEW x \in PackedOf(t)
    PROVE  /\ x.rec \in Records /\ x.slot \in SlotIds
           /\ x.val \in Int /\ x.ver \in 0 .. epoch
           /\ dirty # {}
  <1>1. PICK d \in dirty : x = [rec |-> d[1], slot |-> d[2], ver |-> cached[d[1]].ver[d[2]],
                                val |-> cached[d[1]].val[d[2]]]
    BY Zenon DEF PackedOf, DirtyOf
  <1>2. d \in Records \X SlotIds /\ cached[d[1]] \in Slot(epoch)
    BY Zenon DEF DirtyCached, CacheInEpoch
  <1> QED BY <1>1, <1>2, Zenon DEF Slot

(* A durable run keeps the packed entries until the marker has moved.      *)
LEMMA DrainAndPackStep ==
    ASSUME isDurable, DurableInv, NEW t \in Tables, DrainAndPack(t) PROVE DurableInv'
  <1> USE DEF DurableInv, config, store, flushing
  <1>1. /\ pc = "drain" /\ pc' = "drain" /\ t \in todo
        /\ todo' = todo \ {t} /\ dirty' = dirty \ DirtyOf(t)
    BY Zenon DEF DrainAndPack
  <1>2. UNCHANGED <<log, isDurable, overlap, storeVer, storeVal, marker, epoch, cached, gather,
                    work, landing>>
    BY Zenon DEF DrainAndPack, DeferSubmit
  <1>3. packed' = packed \cup PackedOf(t)
    BY Zenon DEF DrainAndPack, DeferSubmit
  <1>4. LogOK' /\ StoreBelowMarker' /\ WorkBelowMarker' /\ MarkerInStep' /\ CacheInEpoch'
    BY <1>1, <1>2, Zenon DEF LogOK, StoreBelowMarker, WorkBelowMarker, MarkerInStep, CacheInEpoch
  <1>5. PackedInEpoch'
    BY <1>1, <1>2, <1>3, PackedEntries, Zenon DEF PackedInEpoch
  <1>6. DirtyCached'
    BY <1>1, <1>2, Zenon DEF DirtyCached, DirtyOf
  <1>7. GatherBound' /\ NeededBound'
    BY <1>1, <1>2, Zenon DEF GatherBound, NeededBound
  <1> QED BY <1>4, <1>5, <1>6, <1>7, Zenon

--------------------------------------------------------------------------------
(* Advance moves the epoch by at most one.                                 *)
LEMMA AdvancedEpoch ==
    ASSUME Advance, epoch \in Epochs
    PROVE  /\ epoch' \in Epochs /\ epoch <= epoch' /\ epoch + 1 <= epoch' + 1
           /\ pc' \in {"stage", "final"} /\ todo' = Tables
  BY TpccAssumption DEF Advance, Epochs

(* The next epoch finds nothing packed and nothing dirty.                  *)
LEMMA AdvanceStep ==
    ASSUME DurableInv, Advance, pc \in Flushing,
           log' = log, marker' = marker, cached' = cached, gather' = gather,
           dirty' = {}, packed' = {}
    PROVE  /\ LogOK' /\ MarkerInStep' /\ CacheInEpoch'
           /\ GatherBound' /\ NeededBound' /\ DirtyCached' /\ PackedInEpoch'
  <1> USE DEF DurableInv
  <1>1. /\ epoch' \in Epochs /\ epoch <= epoch' /\ epoch + 1 <= epoch' + 1
        /\ pc' \in {"stage", "final"} /\ todo' = Tables
    BY AdvancedEpoch, Zenon DEF MarkerInStep
  <1>2. LogOK'
    BY Zenon DEF LogOK
  <1>3. MarkerInStep'
    <2>1. marker = epoch + 1 /\ marker \in 0 .. NEpochs + 1
      BY Zenon DEF MarkerInStep
    <2>2. pc' \notin Flushing /\ pc' \notin Down /\ pc' # "rollback"
      BY <1>1, Zenon DEF Flushing, Down
    <2>3. marker' <= epoch' + 1
      BY <2>1, <1>1, Zenon
    <2> QED BY <2>1, <2>2, <2>3, <1>1, Zenon DEF MarkerInStep
  <1>4. CacheInEpoch'
    <2>1. Slot(epoch) \subseteq Slot(epoch')
      BY <1>1 DEF Slot, MarkerInStep, Epochs
    <2> QED BY <2>1, Zenon DEF CacheInEpoch, Slot
  <1>5. gather = {}
    BY Zenon DEF GatherBound, Flushing
  <1>6. NeededBound'
    <2>1. \A r \in log'[epoch'].touch : r \in Records
      BY <1>1, TpccAssumption DEF LogOK
    <2> QED BY <2>1, <1>1, TpccAssumption, Zenon DEF NeededBound
  <1>7. GatherBound' /\ DirtyCached' /\ PackedInEpoch'
    BY <1>1, <1>5, Zenon DEF GatherBound, DirtyCached, PackedInEpoch
  <1> QED BY <1>2, <1>3, <1>4, <1>6, <1>7, Zenon

(* The marker moves past the epoch with every entry still packed.          *)
LEMMA BumpStep == ASSUME isDurable, DurableInv, BumpRecoveryMarker PROVE DurableInv'
  <1> USE DEF DurableInv, config, store, flushing
  <1>1. /\ pc = "drain" /\ todo = {} /\ marker' = epoch + 1 /\ epoch' = epoch
        /\ pc' = (IF overlap THEN "submit" ELSE "flush") /\ todo' = Tables
    BY Zenon DEF BumpRecoveryMarker, DeferSubmit
  <1>2. UNCHANGED <<log, isDurable, overlap, storeVer, storeVal, cached, dirty, gather,
                    packed, work, landing>>
    BY Zenon DEF BumpRecoveryMarker
  <1>3. marker' \in 0 .. NEpochs + 1 /\ marker <= marker' /\ marker \in Nat
    BY <1>1, TpccAssumption DEF MarkerInStep, Epochs, Down
  <1>4. LogOK' /\ CacheInEpoch'
    BY <1>1, <1>2, Zenon DEF LogOK, CacheInEpoch
  <1>5. StoreBelowMarker'
    BY <1>2, <1>3 DEF StoreBelowMarker
  <1>6. WorkBelowMarker'
    BY <1>2, <1>3 DEF WorkBelowMarker
  <1>7. MarkerInStep'
    BY <1>1, <1>3 DEF MarkerInStep, Epochs, Down, Flushing
  <1>8. DirtyCached'
    <2>1. \A d \in dirty : ~overlap /\ d \in Records \X SlotIds /\ cached[d[1]] # None
      BY <1>1, Zenon DEF DirtyCached
    <2>2. \A d \in dirty : TableOf[d[1]] \in Tables
      BY <2>1, TpccAssumption, Zenon
    <2> QED BY <2>1, <2>2, <1>1, <1>2, Zenon DEF DirtyCached
  <1>9. PackedInEpoch'
    <2>1. \A x \in packed : TableOf[x.rec] \in Tables
      BY TpccAssumption, Zenon DEF PackedInEpoch
    <2> QED BY <2>1, <1>1, <1>2, Zenon DEF PackedInEpoch
  <1>10. GatherBound' /\ NeededBound'
    BY <1>1, <1>2, Zenon DEF GatherBound, NeededBound
  <1> QED BY <1>4, <1>5, <1>6, <1>7, <1>8, <1>9, <1>10, Zenon

(* A worker gets its entries after the marker.                             *)
LEMMA SubmitFlushWorkerStep ==
    ASSUME DurableInv, NEW t \in Tables, SubmitFlushWorker(t) PROVE DurableInv'
  <1> USE DEF DurableInv, config, store, flushing
  <1> DEFINE mine == {x \in packed : TableOf[x.rec] = t}
  <1>1. /\ pc = "submit" /\ pc \in Flushing /\ t \in todo
        /\ work' = work \cup mine /\ packed' = packed \ mine
    BY Zenon DEF SubmitFlushWorker, Flushing
  <1>2. UNCHANGED <<log, isDurable, overlap, storeVer, storeVal, marker, cached, dirty, gather,
                    landing>>
    BY Zenon DEF SubmitFlushWorker
  <1>3. StoreBelowMarker'
    BY <1>2, Zenon DEF StoreBelowMarker
  <1>4. WorkBelowMarker'
    <2>1. \A x \in mine : /\ x.rec \in Records /\ x.slot \in SlotIds /\ x.val \in Int
                          /\ x.ver \in Nat /\ x.ver < marker
      BY <1>1 DEF PackedInEpoch, MarkerInStep, Epochs
    <2> QED BY <2>1, <1>1, <1>2, Zenon DEF WorkBelowMarker
  <1>5. dirty = {}
    BY <1>1, Zenon DEF DirtyCached
  <1>6. CASE todo = {t}
    <2>1. packed' = {}
      BY <1>1, <1>6, Zenon DEF PackedInEpoch
    <2>2. Advance
      BY <1>6, Zenon DEF SubmitFlushWorker
    <2> QED BY <2>1, <2>2, <1>1, <1>2, <1>3, <1>4, <1>5, AdvanceStep, Zenon
  <1>7. CASE todo # {t}
    <2>1. todo' = todo \ {t} /\ epoch' = epoch /\ pc' = pc
      BY <1>7, Zenon DEF SubmitFlushWorker
    <2>2. LogOK' /\ MarkerInStep' /\ CacheInEpoch' /\ GatherBound' /\ NeededBound'
      BY <2>1, <1>1, <1>2, Zenon DEF LogOK, MarkerInStep, CacheInEpoch, GatherBound, NeededBound
    <2>3. DirtyCached' /\ PackedInEpoch'
      BY <2>1, <1>1, <1>2, <1>5, Zenon DEF DirtyCached, PackedInEpoch
    <2> QED BY <2>2, <2>3, <1>3, <1>4, Zenon
  <1> QED BY <1>6, <1>7, Zenon

(* The synchronous flush lands an epoch after the marker.                  *)
LEMMA PeriodicFlushStep ==
    ASSUME DurableInv, NEW t \in Tables, PeriodicFlush(t) PROVE DurableInv'
  <1> USE DEF DurableInv, config, store, flushing
  <1>1. pc = "flush" /\ pc' = "landing" /\ work' = PackedOf(t)
    BY Zenon DEF PeriodicFlush
  <1>2. UNCHANGED <<log, isDurable, overlap, storeVer, storeVal, marker, epoch, todo, cached,
                    dirty, gather, packed, landing>>
    BY Zenon DEF PeriodicFlush
  <1>3. WorkBelowMarker'
    <2>1. \A x \in PackedOf(t) : /\ x.rec \in Records /\ x.slot \in SlotIds /\ x.val \in Int
                                 /\ x.ver \in Nat /\ x.ver < marker
      BY <1>1, PackedEntries DEF MarkerInStep, Epochs, Flushing
    <2> QED BY <2>1, <1>1, <1>2, Zenon DEF WorkBelowMarker
  <1>4. LogOK' /\ StoreBelowMarker' /\ CacheInEpoch' /\ GatherBound' /\ NeededBound'
    BY <1>1, <1>2, Zenon DEF LogOK, StoreBelowMarker, CacheInEpoch, GatherBound, NeededBound
  <1>5. MarkerInStep'
    BY <1>1, <1>2, Zenon DEF MarkerInStep, Flushing, Down
  <1>6. DirtyCached' /\ PackedInEpoch'
    BY <1>1, <1>2, Zenon DEF DirtyCached, PackedInEpoch
  <1> QED BY <1>3, <1>4, <1>5, <1>6, Zenon

(* A table that has landed leaves no mark behind.                          *)
LEMMA PeriodicFlushDoneStep ==
    ASSUME DurableInv, NEW t \in Tables, PeriodicFlushDone(t) PROVE DurableInv'
  <1> USE DEF DurableInv, config, store, flushing
  <1>1. pc = "landing" /\ pc \in Flushing /\ dirty' = dirty \ DirtyOf(t)
    BY Zenon DEF PeriodicFlushDone, Flushing
  <1>2. UNCHANGED <<log, isDurable, overlap, storeVer, storeVal, marker, cached, gather,
                    packed, work, landing>>
    BY Zenon DEF PeriodicFlushDone
  <1>3. StoreBelowMarker' /\ WorkBelowMarker'
    BY <1>2, Zenon DEF StoreBelowMarker, WorkBelowMarker
  <1>4. packed = {}
    BY <1>1, Zenon DEF PackedInEpoch
  <1>5. CASE todo = {t}
    <2>1. dirty' = {}
      BY <1>1, <1>5, Zenon DEF DirtyCached, DirtyOf
    <2>2. Advance
      BY <1>5, Zenon DEF PeriodicFlushDone
    <2> QED BY <2>1, <2>2, <1>1, <1>2, <1>3, <1>4, AdvanceStep, Zenon
  <1>6. CASE todo # {t}
    <2>1. todo' = todo \ {t} /\ pc' = "flush" /\ epoch' = epoch
      BY <1>6, Zenon DEF PeriodicFlushDone
    <2>2. LogOK' /\ CacheInEpoch' /\ GatherBound' /\ NeededBound'
      BY <2>1, <1>1, <1>2, Zenon DEF LogOK, CacheInEpoch, GatherBound, NeededBound
    <2>3. MarkerInStep'
      BY <2>1, <1>1, <1>2, Zenon DEF MarkerInStep, Flushing, Down
    <2>4. DirtyCached' /\ PackedInEpoch'
      BY <2>1, <1>1, <1>2, <1>4, Zenon DEF DirtyCached, DirtyOf, PackedInEpoch
    <2> QED BY <2>2, <2>3, <2>4, <1>3, Zenon
  <1> QED BY <1>5, <1>6, Zenon

(* The wait at the end writes nothing.                                     *)
LEMMA FinalSyncStep ==
    ASSUME DurableInv, NEW t \in Tables, FinalSync(t) PROVE DurableInv'
  <1> USE DEF DurableInv, FinalSync, config, store, flushing
  <1>1. pc = "final" /\ pc' \in {"final", "done"}
    BY Zenon
  <1>2. LogOK' /\ StoreBelowMarker' /\ WorkBelowMarker' /\ CacheInEpoch'
    BY Zenon DEF LogOK, StoreBelowMarker, WorkBelowMarker, CacheInEpoch
  <1>3. MarkerInStep'
    BY <1>1, Zenon DEF MarkerInStep, Flushing, Down
  <1>4. GatherBound' /\ NeededBound' /\ DirtyCached' /\ PackedInEpoch'
    BY <1>1, Zenon DEF GatherBound, NeededBound, DirtyCached, PackedInEpoch
  <1> QED BY <1>2, <1>3, <1>4, Zenon

--------------------------------------------------------------------------------
(* The scatter changes the store one field at a time.                      *)
LEMMA ScatterStep ==
    ASSUME DurableInv, NEW x, ScatterValue(x) \/ ScatterTag(x) PROVE DurableInv'
  <1> USE DEF DurableInv, config
  <1>1. UNCHANGED <<log, isDurable, overlap, marker, epoch, pc, todo, cached, dirty, gather,
                    packed>>
    BY Zenon DEF ScatterValue, ScatterTag
  <1>2. /\ x.rec \in Records /\ x.slot \in SlotIds /\ x.val \in Int
        /\ x.ver \in Nat /\ x.ver < marker
    BY Zenon DEF ScatterValue, ScatterTag, WorkBelowMarker
  <1>3. StoreBelowMarker'
    <2>1. CASE ScatterValue(x)
      BY <2>1, <1>1, <1>2 DEF ScatterValue, StoreBelowMarker, Junk
    <2>2. CASE ScatterTag(x)
      BY <2>2, <1>1, <1>2 DEF ScatterTag, StoreBelowMarker
    <2> QED BY <2>1, <2>2, Zenon
  <1>4. work' \cup landing' \subseteq work \cup landing
    BY Zenon DEF ScatterValue, ScatterTag
  <1>5. WorkBelowMarker'
    BY <1>1, <1>4, Zenon DEF WorkBelowMarker
  <1>6. LogOK' /\ MarkerInStep' /\ CacheInEpoch' /\ GatherBound' /\ NeededBound'
    BY <1>1, Zenon DEF LogOK, MarkerInStep, CacheInEpoch, GatherBound, NeededBound
  <1>7. DirtyCached' /\ PackedInEpoch'
    BY <1>1, Zenon DEF DirtyCached, PackedInEpoch
  <1> QED BY <1>3, <1>5, <1>6, <1>7, Zenon

--------------------------------------------------------------------------------
(* A crash leaves the store and the marker; recovery only demotes tags.    *)
LEMMA CrashStep == ASSUME DurableInv, Crash PROVE DurableInv'
  <1> USE DEF DurableInv, Crash, config, store
  <1>1. LogOK' /\ StoreBelowMarker' /\ WorkBelowMarker'
    BY Zenon DEF LogOK, StoreBelowMarker, WorkBelowMarker
  <1>2. MarkerInStep'
    BY TpccAssumption DEF MarkerInStep, Epochs, Flushing, Down
  <1>3. CacheInEpoch' /\ GatherBound' /\ NeededBound' /\ DirtyCached' /\ PackedInEpoch'
    BY Zenon DEF CacheInEpoch, GatherBound, NeededBound, DirtyCached, PackedInEpoch
  <1> QED BY <1>1, <1>2, <1>3, Zenon

(* A run that stages anew has nothing bound, dirty or packed.              *)
LEMMA RecoverStep == ASSUME DurableInv, Recover PROVE DurableInv'
  <1> USE DEF DurableInv, Recover, config, store, flushing
  <1>1. LogOK' /\ StoreBelowMarker' /\ WorkBelowMarker' /\ CacheInEpoch'
    BY Zenon DEF LogOK, StoreBelowMarker, WorkBelowMarker, CacheInEpoch
  <1>2. MarkerInStep'
    BY DEF MarkerInStep, Epochs, Flushing, Down
  <1>3. NeededBound'
    <2>1. \A r \in log[epoch].touch : r \in Records
      BY TpccAssumption DEF LogOK, MarkerInStep
    <2> QED BY <2>1, TpccAssumption, Zenon DEF NeededBound
  <1>4. GatherBound' /\ DirtyCached' /\ PackedInEpoch'
    BY Zenon DEF GatherBound, DirtyCached, PackedInEpoch
  <1> QED BY <1>1, <1>2, <1>3, <1>4, Zenon

(* Demoting a tag keeps the store below the marker.                        *)
LEMMA RollbackTagStep ==
    ASSUME DurableInv, NEW r \in Records, NEW s \in SlotIds, RollbackTag(r, s)
    PROVE  DurableInv'
  <1> USE DEF DurableInv, RollbackTag, config, store, flushing
  <1>1. StoreBelowMarker'
    BY Zenon DEF StoreBelowMarker, DemoteTag
  <1>2. LogOK' /\ WorkBelowMarker' /\ MarkerInStep' /\ CacheInEpoch'
    BY Zenon DEF LogOK, WorkBelowMarker, MarkerInStep, CacheInEpoch
  <1>3. GatherBound' /\ NeededBound' /\ DirtyCached' /\ PackedInEpoch'
    BY Zenon DEF GatherBound, NeededBound, DirtyCached, PackedInEpoch
  <1> QED BY <1>1, <1>2, <1>3, Zenon

(* The replay starts one epoch before the marker.                          *)
LEMMA RollbackTableDoneStep ==
    ASSUME DurableInv, NEW t \in Tables, RollbackTableDone(t) PROVE DurableInv'
  <1> USE DEF DurableInv, config, store, flushing
  <1>1. pc = "rollback" /\ gather = {} /\ dirty = {} /\ packed = {}
    BY Zenon DEF RollbackTableDone, GatherBound, DirtyCached, PackedInEpoch
  <1>2. UNCHANGED <<log, isDurable, overlap, storeVer, storeVal, marker, cached, dirty, gather,
                    packed, work, landing>>
    BY Zenon DEF RollbackTableDone
  <1>3. LogOK' /\ StoreBelowMarker' /\ WorkBelowMarker'
    BY <1>2, Zenon DEF LogOK, StoreBelowMarker, WorkBelowMarker
  <1>4. CASE todo = {t}
    <2>1. pc' = "stage" /\ epoch' = marker - 1 /\ todo' = Tables
      BY <1>4, Zenon DEF RollbackTableDone
    <2>2. epoch' \in Epochs
      BY <2>1, <1>1, TpccAssumption DEF MarkerInStep, Epochs
    <2>3. MarkerInStep'
      BY <2>1, <2>2, <1>2 DEF MarkerInStep, Epochs, Flushing, Down
    <2>4. NeededBound'
      <3>1. \A r \in log'[epoch'].touch : r \in Records
        BY <2>2, <1>2, TpccAssumption DEF LogOK
      <3> QED BY <3>1, <2>1, TpccAssumption, Zenon DEF NeededBound
    <2>5. CacheInEpoch'
      <3>1. Slot(epoch) \subseteq Slot(epoch')
        BY <2>2, <1>1, TpccAssumption DEF Slot, MarkerInStep, Epochs, Down
      <3> QED BY <3>1, <1>2, Zenon DEF CacheInEpoch, Slot
    <2>6. GatherBound' /\ DirtyCached' /\ PackedInEpoch'
      BY <2>1, <1>1, <1>2, Zenon DEF GatherBound, DirtyCached, PackedInEpoch
    <2> QED BY <2>3, <2>4, <2>5, <2>6, <1>3, Zenon
  <1>5. CASE todo # {t}
    <2>1. pc' = pc /\ epoch' = epoch
      BY <1>5, Zenon DEF RollbackTableDone
    <2>2. MarkerInStep' /\ CacheInEpoch' /\ NeededBound'
      BY <2>1, <1>1, <1>2, Zenon DEF MarkerInStep, CacheInEpoch, NeededBound
    <2>3. GatherBound' /\ DirtyCached' /\ PackedInEpoch'
      BY <2>1, <1>1, <1>2, Zenon DEF GatherBound, DirtyCached, PackedInEpoch
    <2> QED BY <2>2, <2>3, <1>3, Zenon
  <1> QED BY <1>4, <1>5, Zenon

--------------------------------------------------------------------------------
(* The invariant holds of a fresh store.                                   *)
LEMMA MarkerInvInit == Init => MarkerInv
  <1> SUFFICES ASSUME Init PROVE DurableInv
    BY Zenon DEF MarkerInv
  <1> USE DEF Init
  <1>1. LogOK
    BY Zenon DEF LogOK
  <1>2. StoreBelowMarker /\ WorkBelowMarker
    BY DEF StoreBelowMarker, WorkBelowMarker, NoTags
  <1>3. MarkerInStep
    BY TpccAssumption DEF MarkerInStep, Epochs, Flushing, Down
  <1>4. CacheInEpoch /\ GatherBound /\ NeededBound /\ DirtyCached /\ PackedInEpoch
    BY Zenon DEF CacheInEpoch, GatherBound, NeededBound, DirtyCached, PackedInEpoch
  <1> QED BY <1>1, <1>2, <1>3, <1>4, Zenon DEF DurableInv

(* Every step of the pipeline keeps it.                                    *)
LEMMA MarkerInvNext == MarkerInv /\ [Next]_vars => MarkerInv'
  <1> SUFFICES ASSUME MarkerInv, [Next]_vars, isDurable' PROVE DurableInv'
    BY Zenon DEF MarkerInv
  <1>1. isDurable
    BY Zenon DEF Next, vars, config, PreWarm, PrepareEpoch, Admit, Execute, DrainAndPack,
           BumpRecoveryMarker, SubmitFlushWorker, PeriodicFlush, PeriodicFlushDone, FinalSync,
           ScatterValue, ScatterTag, Crash, Recover, RollbackTag, RollbackTableDone, Terminated
  <1>2. DurableInv
    BY <1>1, Zenon DEF MarkerInv
  <1>3. CASE PreWarm
    BY <1>2, <1>3, PreWarmStep, Zenon
  <1>4. CASE \E t \in Tables : PrepareEpoch(t)
    BY <1>2, <1>4, PrepareEpochStep, Zenon
  <1>5. CASE \E r \in Records : Admit(r)
    BY <1>2, <1>5, AdmitStep, Zenon
  <1>6. CASE Execute
    BY <1>2, <1>6, ExecuteStep, Zenon
  <1>7. CASE \E t \in Tables : DrainAndPack(t)
    BY <1>1, <1>2, <1>7, DrainAndPackStep, Zenon
  <1>8. CASE BumpRecoveryMarker
    BY <1>1, <1>2, <1>8, BumpStep, Zenon
  <1>9. CASE \E t \in Tables : SubmitFlushWorker(t)
    BY <1>2, <1>9, SubmitFlushWorkerStep, Zenon
  <1>10. CASE \E t \in Tables : PeriodicFlush(t)
    BY <1>2, <1>10, PeriodicFlushStep, Zenon
  <1>11. CASE \E t \in Tables : PeriodicFlushDone(t)
    BY <1>2, <1>11, PeriodicFlushDoneStep, Zenon
  <1>12. CASE \E t \in Tables : FinalSync(t)
    BY <1>2, <1>12, FinalSyncStep, Zenon
  <1>13. CASE (\E x \in work : ScatterValue(x)) \/ (\E x \in landing : ScatterTag(x))
    BY <1>2, <1>13, ScatterStep, Zenon
  <1>14. CASE Crash
    BY <1>2, <1>14, CrashStep, Zenon
  <1>15. CASE Recover
    BY <1>2, <1>15, RecoverStep, Zenon
  <1>16. CASE \E r \in Records, s \in SlotIds : RollbackTag(r, s)
    BY <1>2, <1>16, RollbackTagStep, Zenon
  <1>17. CASE \E t \in Tables : RollbackTableDone(t)
    BY <1>2, <1>17, RollbackTableDoneStep, Zenon
  <1>18. CASE UNCHANGED vars
    BY <1>2, <1>18, Zenon DEF DurableInv, LogOK, StoreBelowMarker, WorkBelowMarker, MarkerInStep,
           CacheInEpoch, GatherBound, NeededBound, DirtyCached, PackedInEpoch,
           vars, config, store, flushing
  <1> QED BY <1>3, <1>4, <1>5, <1>6, <1>7, <1>8, <1>9, <1>10, <1>11, <1>12, <1>13, <1>14,
             <1>15, <1>16, <1>17, <1>18, Zenon DEF Next, Terminated

(* In a durable run no byte of an epoch is in the store, or on its way     *)
(* there, before bumpRecoveryMarker has moved the marker past that epoch,  *)
(* for any tables, records, batches, number of epochs and crashes.         *)
THEOREM MarkerFirst == Spec => []MarkerBeforeBytes
  <1>1. Init => MarkerInv
    BY MarkerInvInit, Zenon
  <1>2. MarkerInv /\ [Next]_vars => MarkerInv'
    BY MarkerInvNext, Zenon
  <1>3. MarkerInv => MarkerBeforeBytes
    BY Zenon DEF MarkerInv, DurableInv, StoreBelowMarker, WorkBelowMarker, MarkerBeforeBytes
  <1> QED BY <1>1, <1>2, <1>3, PTL DEF Spec

--------------------------------------------------------------------------------
(* Serial state.  The tables are not in step with one another: the stager  *)
(* of one may bind records of epoch e+1 while the worker of another still  *)
(* lands epoch e.  So the epoch that a table's store has reached is a      *)
(* function of the table, Done(t): the store of t plus what its worker has *)
(* in hand is the serial state of epoch Done(t), and what its cache holds  *)
(* agrees with that, except for the versions this epoch has written and    *)
(* not yet handed over.                                                    *)

Running == pc \notin Down
Executed == {"drain", "submit", "flush", "landing"}
ProgramPoints == {"prewarm", "stage", "final", "done"} \cup Down \cup Executed

(* What the workers have in hand.                                          *)
InFlight == work \cup landing

(* No worker has been given this epoch's writes of table t.                *)
Behind(t) ==
    \/ pc \in {"prewarm", "stage"}
    \/ pc = "drain" /\ (t \in todo \/ ~overlap \/ isDurable)
    \/ pc \in {"submit", "flush"} /\ t \in todo
    \/ pc = "landing" /\ t \in todo /\ t # First(FlushOrder)

(* The last epoch whose writes of table t have left the cache.             *)
Done(t) == IF Behind(t) THEN epoch - 1 ELSE epoch

(* The executor has written table t and its worker does not know yet.      *)
Unflushed(t) == pc \in Executed /\ Behind(t)

(* The tag that version s of r will have once the worker is through, and   *)
(* the version the executor overwrites.                                    *)
EffTag(r, s) == IF \E x \in InFlight : x.rec = r /\ x.slot = s
                THEN Done(TableOf[r]) ELSE storeVer[r][s]
Target(r) == IF EffTag(r, 1) < EffTag(r, 2) THEN 1 ELSE 2

Entry == [rec : Records, slot : SlotIds, ver : Nat, val : Int]
CacheSlot == [ver : [SlotIds -> Nat], val : [SlotIds -> Int]]

Types ==
    /\ LogOK
    /\ storeVer \in [Records -> [SlotIds -> Nat]]
    /\ storeVal \in [Records -> [SlotIds -> Int]]
    /\ marker \in 0 .. NEpochs + 1 /\ epoch \in Epochs
    /\ pc \in ProgramPoints /\ todo \subseteq Tables
    /\ cached \in [Records -> {None} \cup CacheSlot]
    /\ packed \subseteq Entry /\ work \subseteq Entry /\ landing \subseteq Entry

(* What the program point says of the mode, the tables to come and the     *)
(* marker.                                                                 *)
Phase ==
    /\ pc = "drain" /\ ~overlap => todo = {}
    /\ pc = "submit" => overlap /\ isDurable
    /\ pc \in {"flush", "landing"} => ~overlap
    /\ pc = "landing" => First(FlushOrder) \in todo
    /\ pc \in {"final", "done"} => epoch = NEpochs
    /\ pc = "prewarm" => epoch = 1
    /\ pc = "done" => todo = {}
    /\ pc = "recover" => marker # 1
    /\ pc = "rollback" => marker >= 2
    /\ pc \in Down => isDurable /\ epoch = 1
    /\ isDurable /\ pc \in {"prewarm", "stage", "drain"} =>
          \/ marker = epoch /\ epoch >= 2
          \/ marker = epoch + 1
          \/ marker = 0 /\ epoch = 1
    /\ isDurable /\ pc \in {"submit", "flush", "landing", "final", "done"} => marker = epoch + 1

(* The durable state, whatever the process is doing.                       *)
Recoverable ==
    isDurable => \A r \in Records :
        /\ Exists(log, r, RecoveryPoint) => Latest(log, r, RecoveryPoint, RollbackBase(r))
        /\ \E s \in SlotIds : storeVer[r][s] <= RecoveryPoint
        /\ ~Exists(log, r, RecoveryPoint) =>
              \A s \in SlotIds : storeVer[r][s] = 0 \/ storeVer[r][s] > RecoveryPoint
        /\ marker < 2 => \A s \in SlotIds : storeVer[r][s] = 0

(* The store of a table, where nothing is in flight, is the serial state   *)
(* of the epoch the table has reached.                                     *)
Landed ==
    Running => \A r \in Records :
        /\ \A s \in SlotIds : storeVer[r][s] <= Done(TableOf[r])
        /\ Exists(log, r, Done(TableOf[r])) /\ (\A x \in InFlight : x.rec # r) =>
              Latest(log, r, Done(TableOf[r]), storeVal[r][Newest(storeVer[r])])
        /\ ~Exists(log, r, Done(TableOf[r])) => \A s \in SlotIds : storeVer[r][s] = 0

(* What is in flight: writes of the epoch its table has reached, one entry *)
(* per record, aimed at the version rollback does not return to.           *)
Aimed ==
    /\ \A x \in InFlight :
          LET k == Done(TableOf[x.rec])
          IN  /\ k >= 1 /\ x.ver = k /\ x.val = k /\ x.rec \in log[k].write
              /\ storeVer[x.rec][Other(x.slot)] < k
              /\ x.slot # Newest(Demote(storeVer[x.rec], k))
              /\ isDurable => marker = k + 1
    /\ \A x, y \in InFlight : x.rec = y.rec => x = y

(* Where in the epoch something may be in flight.                          *)
Placed ==
    \A x \in InFlight :
        /\ pc \notin Down \cup {"prewarm", "flush", "done"}
        /\ x.rec \notin gather
        /\ pc # "landing" => overlap
        /\ pc = "stage" /\ TableOf[x.rec] \in todo => cached[x.rec] # None
        /\ pc = "drain" /\ isDurable => TableOf[x.rec] \in todo
        /\ pc = "submit" => TableOf[x.rec] \notin todo
        /\ pc = "landing" => TableOf[x.rec] = First(FlushOrder)
        /\ pc = "final" => TableOf[x.rec] \in todo

(* What the caches hold.                                                   *)
Bound ==
    /\ pc \in Down \cup {"prewarm"} => \A r \in Records : cached[r] = None
    /\ \A r \in gather : /\ pc = "stage" /\ r \in log[epoch].touch \ log[epoch].insert
                         /\ TableOf[r] \notin todo /\ cached[r] # None
    /\ pc = "stage" => \A r \in log[epoch].touch : TableOf[r] \in todo \/ cached[r] # None
    /\ pc \in Executed => \A r \in log[epoch].touch : cached[r] # None

(* A resident record agrees with store plus flight; one the executor has   *)
(* written has this epoch's version in place of the older one.             *)
Coherent(r) ==
    /\ \A s \in SlotIds : cached[r].ver[s] = EffTag(r, s)
    /\ Exists(log, r, Done(TableOf[r])) =>
          Latest(log, r, Done(TableOf[r]), cached[r].val[Newest(cached[r].ver)])
Written(r) ==
    /\ cached[r].ver[Target(r)] = epoch /\ cached[r].val[Target(r)] = epoch
    /\ cached[r].ver[Other(Target(r))] = EffTag(r, Other(Target(r)))

CacheSerial ==
    \A r \in Records : cached[r] # None =>
        IF Unflushed(TableOf[r]) /\ r \in log[epoch].write THEN Written(r)
        ELSE Coherent(r) \/ r \in gather

(* The marks are on the versions the executor has written, until they are  *)
(* packed or have landed; a packed entry is such a version.                *)
Marked(t) ==
    \/ pc = "drain" /\ (t \in todo \/ ~overlap)
    \/ pc = "flush" /\ t \in todo
    \/ pc = "landing" /\ t \in todo /\ t # First(FlushOrder)
Waiting(t) ==
    \/ pc = "drain" /\ isDurable /\ overlap /\ t \notin todo
    \/ pc = "submit" /\ t \in todo
EntryOf(r) == [rec |-> r, slot |-> WriteSlot(storeVer[r]), ver |-> epoch, val |-> epoch]
FlushSet(t) == {EntryOf(r) : r \in log[epoch].write \cap Of(t)}

Marks ==
    /\ \A d \in dirty : /\ d \in Records \X SlotIds
                        /\ \/ Marked(TableOf[d[1]])
                           \/ pc = "landing" /\ TableOf[d[1]] = First(FlushOrder)
    /\ \A r \in Records, s \in SlotIds : Marked(TableOf[r]) =>
          (<<r, s>> \in dirty <=> r \in log[epoch].write /\ s = Target(r))
    /\ \A x \in packed : Waiting(TableOf[x.rec])
    /\ \A t \in Tables : Waiting(t) => {x \in packed : TableOf[x.rec] = t} = FlushSet(t)

(* Recovery works through the tables in turn.                              *)
Undoing ==
    pc = "rollback" =>
        /\ \A r \in Records, s \in SlotIds :
              <<r, s>> \notin undo => storeVer[r][s] <= RecoveryPoint
        /\ \A d \in undo : TableOf[d[1]] \in todo

SerialInv ==
    /\ Types /\ Phase /\ Recoverable /\ Landed /\ Aimed /\ Placed
    /\ Bound /\ CacheSerial /\ Marks /\ Undoing

--------------------------------------------------------------------------------
(* Facts about the serial execution of a log.                              *)

(* An epoch that does not write r leaves its serial value as it was.       *)
LEMMA UnwrittenKeeps ==
    ASSUME NEW lg, NEW r, NEW k \in Nat, NEW v, Latest(lg, r, k, v),
           r \notin lg[k + 1].write
    PROVE  Latest(lg, r, k + 1, v)
BY DEF Latest

(* The serial value after an epoch that writes r is that epoch's.          *)
LEMMA WriterWins ==
    ASSUME NEW lg, NEW r, NEW k \in Nat \ {0}, r \in lg[k].write
    PROVE  Latest(lg, r, k, k)
BY DEF Latest

(* A record stays in the database, and only an insert adds one.            *)
LEMMA InsertAdds ==
    ASSUME NEW lg, NEW r, NEW k \in Nat
    PROVE  Exists(lg, r, k + 1) <=> Exists(lg, r, k) \/ r \in lg[k + 1].insert
BY DEF Exists

--------------------------------------------------------------------------------
(* Facts about slots.                                                      *)

(* There are two versions.                                                 *)
LEMMA TwoSlots ==
    ASSUME NEW s \in SlotIds
    PROVE  /\ Other(s) \in SlotIds /\ Other(s) # s /\ Other(Other(s)) = s
           /\ \A q \in SlotIds : q = s \/ q = Other(s)
BY DEF SlotIds, Other

(* Tags older than the epoch: readers use the newest version, and rolling  *)
(* back the epoch changes nothing.                                         *)
LEMMA OldTags ==
    ASSUME NEW t \in [SlotIds -> Nat], NEW e \in Nat, \A s \in SlotIds : t[s] < e
    PROVE  /\ ReadSlot(t, e) = Newest(t)
           /\ Newest(Demote(t, e)) = Newest(t)
           /\ WriteSlot(t) # Newest(t)
BY DEF SlotIds, ReadSlot, Newest, WriteSlot, Demote, DemoteTag

(* The slot operators return slots.                                        *)
LEMMA SlotRange ==
    ASSUME NEW t, NEW e
    PROVE  /\ Newest(t) \in SlotIds /\ WriteSlot(t) \in SlotIds /\ ReadSlot(t, e) \in SlotIds
BY Zenon DEF SlotIds, ReadSlot, Newest, WriteSlot

--------------------------------------------------------------------------------
(* Consequences of the invariant that every step uses.                     *)
LEMMA Basics ==
    ASSUME SerialInv
    PROVE  /\ epoch \in 1 .. NEpochs /\ epoch \in Nat /\ epoch - 1 \in Nat /\ NEpochs \in Nat
           /\ marker \in Nat /\ (epoch - 1) + 1 = epoch
           /\ RecoveryPoint \in Nat
           /\ \A t \in Tables : Done(t) \in Nat /\ Done(t) \in {epoch - 1, epoch}
           /\ \A r \in Records : TableOf[r] \in Tables
           /\ \A r \in Records, s \in SlotIds : storeVer[r][s] \in Nat
<1> USE TpccAssumption DEF TpccAssumption
<1>1. epoch \in 1 .. NEpochs /\ marker \in Nat /\ NEpochs \in Nat
  BY DEF SerialInv, Types, Epochs
<1>2. epoch \in Nat /\ epoch - 1 \in Nat /\ (epoch - 1) + 1 = epoch
  BY <1>1
<1>3. RecoveryPoint \in Nat
  BY <1>1 DEF RecoveryPoint
<1>4. \A t \in Tables : Done(t) \in Nat /\ Done(t) \in {epoch - 1, epoch}
  BY <1>2, Zenon DEF Done
<1>5. \A r \in Records : TableOf[r] \in Tables
  BY Zenon
<1>6. \A r \in Records, s \in SlotIds : storeVer[r][s] \in Nat
  BY DEF SerialInv, Types
<1> QED BY <1>1, <1>2, <1>3, <1>4, <1>5, <1>6, Zenon

(* What an epoch writes it touches; what it touches existed before it or   *)
(* is inserted by it.                                                      *)
LEMMA TouchedRecord ==
    ASSUME SerialInv, NEW e \in 1 .. NEpochs, NEW r
    PROVE  /\ r \in log[e].touch => r \in Records
           /\ r \in log[e].insert => r \in log[e].write
           /\ r \in log[e].write => r \in log[e].touch
           /\ r \in log[e].touch =>
                 (r \in log[e].insert <=> ~Exists(log, r, e - 1))
<1>1. log[e] \in Batches
  BY Zenon DEF SerialInv, Types, LogOK, Epochs
<1>2. log[e].touch \subseteq Records
  BY <1>1, TpccAssumption, Zenon
<1> QED BY <1>2, Zenon DEF SerialInv, Types, LogOK, WellFormed

(* An entry in flight.                                                     *)
LEMMA FlightEntry ==
    ASSUME SerialInv, NEW x \in InFlight
    PROVE  /\ x.rec \in Records /\ x.slot \in SlotIds
           /\ TableOf[x.rec] \in Tables /\ x \in Entry
           /\ x.rec \in log[Done(TableOf[x.rec])].write
<1>1. x \in Entry
  BY Zenon DEF SerialInv, Types, InFlight
<1>2. x.rec \in log[Done(TableOf[x.rec])].write
  BY Zenon DEF SerialInv, Aimed
<1> QED BY <1>1, <1>2, Basics, Zenon DEF Entry

--------------------------------------------------------------------------------
(* A step that leaves the store, the flight and what each table has        *)
(* reached alone.                                                          *)
LEMMA StoreKept ==
    ASSUME SerialInv, UNCHANGED <<log, isDurable, storeVer, storeVal, marker>>,
           InFlight' = InFlight, Running, \A t \in Tables : Done(t)' = Done(t)
    PROVE  /\ Recoverable' /\ Landed' /\ Aimed'
           /\ \A r \in Records : /\ \A s \in SlotIds : EffTag(r, s)' = EffTag(r, s)
                                 /\ Target(r)' = Target(r)
<1>1. \A r \in Records : Done(TableOf[r])' = Done(TableOf[r])
  BY Basics, Zenon
<1>2. Recoverable'
  BY Zenon DEF SerialInv, Recoverable, RollbackBase, RecoveryPoint
<1>3. Landed'
  BY <1>1, Zenon DEF SerialInv, Landed
<1>4. Aimed'
  <2>1. \A x \in InFlight : Done(TableOf[x.rec])' = Done(TableOf[x.rec])
    BY <1>1, FlightEntry, Zenon
  <2> QED BY <2>1, Zenon DEF SerialInv, Aimed
<1>5. \A r \in Records, s \in SlotIds : EffTag(r, s)' = EffTag(r, s)
  BY <1>1, Zenon DEF EffTag
<1>6. \A r \in Records : Target(r)' = Target(r)
  BY <1>5, Zenon DEF Target, SlotIds
<1> QED BY <1>2, <1>3, <1>4, <1>5, <1>6, Zenon

--------------------------------------------------------------------------------
(* The invariant holds of a fresh store.                                   *)
LEMMA SerialInvInit == Init => SerialInv
<1> SUFFICES ASSUME Init PROVE SerialInv
  BY Zenon
<1> USE TpccAssumption DEF TpccAssumption
<1>e. InFlight = {}
  BY Zenon DEF Init, InFlight
<1>p. pc = "prewarm" /\ Running /\ pc \notin Executed /\ pc \notin Down
  BY Zenon DEF Init, Running, Down, Executed
<1>d. RecoveryPoint = 0 /\ \A t : Done(t) = 0 /\ ~Unflushed(t) /\ ~Marked(t) /\ ~Waiting(t)
  BY <1>p DEF Init, RecoveryPoint, Done, Behind, Unflushed, Marked, Waiting
<1>1. Types
  BY DEF Init, Types, LogOK, NoTags, Epochs, ProgramPoints
<1>2. Phase
  BY <1>p, Zenon DEF Init, Phase
<1>a. ASSUME NEW r \in Records
      PROVE  /\ Exists(log, r, 0) <=> r \in Initial
             /\ r \in Initial => Latest(log, r, 0, storeVal[r][1])
             /\ \A s \in SlotIds : storeVer[r][s] = 0
             /\ Newest(storeVer[r]) = 1
             /\ Newest(Demote(storeVer[r], 1)) = 1
  BY DEF Init, Exists, Latest, SlotIds, NoTags, Newest, Demote, DemoteTag
<1>3. Recoverable
  BY <1>a, <1>d DEF Recoverable, RollbackBase, SlotIds
<1>4. Landed
  BY <1>a, <1>d DEF Landed, SlotIds
<1>5. Aimed /\ Placed
  BY <1>e, Zenon DEF Aimed, Placed
<1>6. Bound /\ CacheSerial
  BY <1>p, Zenon DEF Init, Bound, CacheSerial
<1>7. Marks
  BY <1>d, Zenon DEF Init, Marks
<1>8. Undoing
  BY <1>p, Zenon DEF Undoing, Down
<1> QED BY <1>1, <1>2, <1>3, <1>4, <1>5, <1>6, <1>7, <1>8, Zenon DEF SerialInv

(* The backlog comes from a store nobody has written: both tags are zero   *)
(* and the slot readers use holds the initial value.                       *)
LEMMA PreWarmKeeps == ASSUME SerialInv, PreWarm PROVE SerialInv'
<1> USE TpccAssumption DEF TpccAssumption
<1>f. /\ UNCHANGED <<log, isDurable, overlap, storeVer, storeVal, marker, epoch, dirty>>
      /\ UNCHANGED <<gather, packed, work, landing, undo, crashes>>
      /\ pc = "prewarm" /\ pc' = "stage" /\ todo' = Tables
  BY Zenon DEF PreWarm, config, store, flushing
<1>p. pc \notin Down /\ pc \notin Executed /\ pc' \notin Down /\ pc' \notin Executed
  BY <1>f, Zenon DEF Down, Executed
<1>e. InFlight = {} /\ InFlight' = {} /\ epoch = 1 /\ dirty = {} /\ packed = {} /\ gather = {}
  <2>1. InFlight = {} /\ epoch = 1
    BY <1>f, Zenon DEF SerialInv, Placed, Phase
  <2>2. \A t : ~Marked(t) /\ ~Waiting(t)
    BY <1>f, Zenon DEF Marked, Waiting
  <2>3. dirty = {} /\ packed = {}
    BY <2>2, <1>f, Zenon DEF SerialInv, Marks
  <2>4. gather = {}
    BY <1>f, Zenon DEF SerialInv, Bound
  <2> QED BY <2>1, <2>3, <2>4, <1>f, Zenon DEF InFlight
<1>d. /\ \A t : Behind(t) /\ Behind(t)' /\ Done(t)' = Done(t) /\ Done(t) = 0 /\ ~Unflushed(t)'
      /\ \A t : ~Marked(t)' /\ ~Waiting(t)'
      /\ Running
  BY <1>f, <1>p, <1>e DEF Behind, Done, Unflushed, Running, Marked, Waiting
<1>k. /\ Recoverable' /\ Landed' /\ Aimed'
      /\ \A r \in Records, s \in SlotIds : EffTag(r, s)' = EffTag(r, s)
  BY <1>f, <1>e, <1>d, StoreKept, Zenon
<1>z. \A r \in Records, s \in SlotIds : storeVer[r][s] = 0 /\ EffTag(r, s) = 0
  <2>1. \A r \in Records, s \in SlotIds : storeVer[r][s] = 0
    BY <1>d, Basics DEF SerialInv, Landed
  <2> QED BY <2>1, <1>e, ZenonT(40) DEF EffTag
<1>w. ASSUME NEW r \in Records
      PROVE  /\ Transferred(r, 0, FreshSlot) \in CacheSlot
             /\ Transferred(r, 0, FreshSlot).ver = storeVer[r]
             /\ Transferred(r, 0, FreshSlot).val[1] = 0
             /\ Newest(storeVer[r]) = 1
  <2>1. ReadSlot(storeVer[r], 0) = 2 /\ Newest(storeVer[r]) = 1
    BY <1>z DEF SlotIds, ReadSlot, Newest
  <2> QED BY <2>1 DEF SerialInv, Types, Transferred, FreshSlot, SlotIds, CacheSlot
<1>c. ASSUME NEW r \in Records
      PROVE  cached'[r] = None \/ cached'[r] = Transferred(r, 0, FreshSlot)
  BY <1>f, Zenon DEF PreWarm, SerialInv, Bound
<1>1. Types'
  <2>1. cached' \in [Records -> {None} \cup CacheSlot]
    <3>1. cached' = [r \in Records |-> cached'[r]]
      BY Zenon DEF PreWarm
    <3> QED BY <3>1, <1>c, <1>w
  <2> QED BY <2>1, <1>f, Zenon DEF SerialInv, Types, LogOK, ProgramPoints
<1>2. Phase'
  BY <1>f, <1>p, Zenon DEF SerialInv, Phase
<1>3. Placed'
  BY <1>e, Zenon DEF Placed
<1>4. Bound'
  <2>1. \A r \in log[epoch].touch : TableOf[r] \in Tables
    BY Basics, TouchedRecord, Zenon
  <2> QED BY <2>1, <1>f, <1>p, <1>e, Zenon DEF Bound
<1>5. CacheSerial'
  <2> SUFFICES ASSUME NEW r \in Records, cached'[r] # None PROVE Coherent(r)'
    BY <1>d, Zenon DEF CacheSerial
  <2>1. cached'[r].ver = storeVer[r] /\ cached'[r].val[Newest(storeVer[r])] = 0
    BY <1>c, <1>w, Zenon
  <2>2. Latest(log, r, 0, 0)
    BY DEF Latest
  <2> QED BY <2>1, <2>2, <1>f, <1>d, <1>k, <1>z, Zenon DEF Coherent
<1>6. Marks'
  BY <1>d, <1>e, <1>f, Zenon DEF Marks
<1>7. Undoing'
  BY <1>f, Zenon DEF Undoing
<1> QED BY <1>1, <1>2, <1>3, <1>4, <1>5, <1>6, <1>7, <1>k, Zenon DEF SerialInv

(* While the stagers run every table is one epoch behind.                  *)
LEMMA Staging ==
    ASSUME SerialInv, pc = "stage", pc' = "stage", epoch' = epoch
    PROVE  /\ \A t : Done(t) = epoch - 1 /\ Done(t)' = Done(t)
           /\ \A t : ~Unflushed(t) /\ ~Unflushed(t)'
           /\ \A t : ~Marked(t)' /\ ~Waiting(t)' /\ Behind(t)
           /\ dirty = {} /\ packed = {} /\ Running
           /\ pc \notin Down /\ pc \notin Executed
<1>1. pc \notin Down /\ pc \notin Executed /\ pc' \notin Executed
  BY Zenon DEF Down, Executed
<1>2. \A t : Behind(t) /\ Behind(t)' /\ ~Marked(t) /\ ~Waiting(t) /\ ~Marked(t)' /\ ~Waiting(t)'
  BY Zenon DEF Behind, Marked, Waiting
<1>3. dirty = {} /\ packed = {}
  BY <1>2, Zenon DEF SerialInv, Marks
<1> QED BY <1>1, <1>2, <1>3, Zenon DEF Done, Unflushed, Running

(* Binding: what is in flight stayed resident, so it is not bound anew.    *)
LEMMA PrepareEpochKeeps ==
    ASSUME SerialInv, NEW t \in Tables, PrepareEpoch(t) PROVE SerialInv'
<1> DEFINE need == log[epoch].touch \cap Of(t)
           held == {r \in Of(t) : cached[r] # None}
           new == need \ held
<1>f. /\ UNCHANGED <<log, isDurable, overlap, storeVer, storeVal, marker, epoch, dirty>>
      /\ UNCHANGED <<packed, work, landing, undo, crashes>>
      /\ pc = "stage" /\ pc' = "stage" /\ t \in todo /\ todo' = todo \ {t}
      /\ gather' = gather \cup (new \ log[epoch].insert)
  BY Zenon DEF PrepareEpoch, config, store, flushing
<1>c. PICK out \in SUBSET (held \ need) :
        cached' = [r \in Records |-> IF r \in out THEN None
                                     ELSE IF r \in new THEN BoundSlot ELSE cached[r]]
  BY Zenon DEF PrepareEpoch
<1>i. InFlight' = InFlight
  BY <1>f, Zenon DEF InFlight
<1>d. /\ \A u : Done(u) = epoch - 1 /\ Done(u)' = Done(u)
      /\ \A u : ~Unflushed(u) /\ ~Unflushed(u)'
      /\ \A u : ~Marked(u)' /\ ~Waiting(u)'
      /\ dirty = {} /\ packed = {} /\ Running
      /\ pc \notin Down /\ pc \notin Executed
  BY <1>f, Staging, Zenon
<1>k. /\ Recoverable' /\ Landed' /\ Aimed'
      /\ \A r \in Records, s \in SlotIds : EffTag(r, s)' = EffTag(r, s)
  BY <1>f, <1>i, <1>d, StoreKept, Zenon
<1>b. BoundSlot \in CacheSlot /\ BoundSlot # None
      /\ \A s \in SlotIds : BoundSlot.ver[s] = 0
  BY TpccAssumption DEF BoundSlot, NoTags, Junk, CacheSlot
<1>n. /\ \A r \in new : /\ r \in Records /\ TableOf[r] = t /\ cached[r] = None
                        /\ r \in log[epoch].touch /\ cached'[r] = BoundSlot
      /\ \A r \in Records : r \notin new => cached'[r] = None \/ cached'[r] = cached[r]
      /\ \A r \in Records : TableOf[r] # t => cached'[r] = cached[r]
      /\ \A r \in need : cached'[r] # None
  BY <1>c, <1>b, Zenon DEF Of
<1>1. Types'
  <2>1. cached' \in [Records -> {None} \cup CacheSlot]
    BY <1>c, <1>b, Zenon DEF SerialInv, Types
  <2> QED BY <2>1, <1>f, Zenon DEF SerialInv, Types, LogOK, ProgramPoints
<1>2. Phase'
  BY <1>f, <1>d, Zenon DEF SerialInv, Phase
<1>g. \A x \in InFlight : x.rec \in Records /\ x.rec \notin new
  <2> SUFFICES ASSUME NEW x \in InFlight, x.rec \in new PROVE FALSE
    BY FlightEntry, Zenon
  <2>1. TableOf[x.rec] = t /\ cached[x.rec] = None
    BY <1>n, Zenon
  <2> QED BY <2>1, <1>f, Zenon DEF SerialInv, Placed
<1>3. Placed'
  BY <1>f, <1>i, <1>g, <1>n, Zenon DEF SerialInv, Placed
<1>4. Bound'
  <2>1. \A r \in gather : TableOf[r] # t
    BY <1>f, Zenon DEF SerialInv, Bound
  <2>2. \A r \in log[epoch].touch : r \in Records
    BY Basics, TouchedRecord, Zenon
  <2>3. \A r \in gather : /\ r \in log[epoch].touch \ log[epoch].insert /\ r \in Records
                          /\ TableOf[r] \notin todo /\ cached'[r] # None
    BY <2>1, <2>2, <1>n, Zenon DEF SerialInv, Bound
  <2>4. \A r \in log[epoch].touch : TableOf[r] \in todo' \/ cached'[r] # None
    BY <2>2, <1>f, <1>n, Zenon DEF SerialInv, Bound, Of
  <2>5. \A r \in new : TableOf[r] \notin todo' /\ r \in log[epoch].touch /\ cached'[r] # None
    BY <1>f, <1>n, <1>b, Zenon
  <2> HIDE DEF new
  <2> QED BY <2>3, <2>4, <2>5, <1>f, <1>d, Zenon DEF Bound
<1>5. CacheSerial'
  <2> SUFFICES ASSUME NEW r \in Records, cached'[r] # None, r \notin gather' PROVE Coherent(r)'
    BY <1>d, Zenon DEF CacheSerial
  <2>1. CASE r \in new
    <3>1. r \in log[epoch].insert /\ ~Exists(log, r, epoch - 1)
      BY <2>1, <1>f, <1>n, Basics, TouchedRecord, Zenon
    <3>2. \A s \in SlotIds : EffTag(r, s) = 0
      BY <3>1, <2>1, <1>g, <1>d, Zenon DEF SerialInv, Landed, EffTag
    <3> QED BY <3>1, <3>2, <2>1, <1>n, <1>b, <1>k, <1>d, <1>f, Zenon DEF Coherent
  <2>2. CASE r \notin new
    <3>1. cached'[r] = cached[r] /\ Coherent(r)
      BY <2>2, <1>n, <1>d, <1>f, Zenon DEF SerialInv, CacheSerial
    <3> QED BY <3>1, <1>k, <1>d, <1>f, Zenon DEF Coherent
  <2> QED BY <2>1, <2>2, Zenon
<1>6. Marks'
  BY <1>d, <1>f, Zenon DEF Marks
<1>7. Undoing'
  BY <1>f, Zenon DEF Undoing
<1> QED BY <1>1, <1>2, <1>3, <1>4, <1>5, <1>6, <1>7, <1>k, Zenon DEF SerialInv

(* The transfer of one record: it is not in flight, so the store alone has *)
(* its serial value.                                                       *)
LEMMA AdmitKeeps ==
    ASSUME SerialInv, NEW r \in Records, Admit(r) PROVE SerialInv'
<1> DEFINE src == ReadSlot(storeVer[r], epoch)
<1>f. /\ UNCHANGED <<log, isDurable, overlap, storeVer, storeVal, marker, epoch, todo, dirty>>
      /\ UNCHANGED <<packed, work, landing, undo, crashes>>
      /\ pc = "stage" /\ pc' = "stage" /\ r \in gather /\ gather' = gather \ {r}
      /\ cached' = [cached EXCEPT ![r] = Transferred(r, epoch, cached[r])]
  BY Zenon DEF Admit, config, store, flushing
<1>i. InFlight' = InFlight
  BY <1>f, Zenon DEF InFlight
<1>d. /\ \A u : Done(u) = epoch - 1 /\ Done(u)' = Done(u)
      /\ \A u : ~Unflushed(u) /\ ~Unflushed(u)'
      /\ \A u : ~Marked(u)' /\ ~Waiting(u)'
      /\ dirty = {} /\ packed = {} /\ Running
      /\ pc \notin Down /\ pc \notin Executed
  BY <1>f, Staging, Zenon
<1>k. /\ Recoverable' /\ Landed' /\ Aimed'
      /\ \A q \in Records, s \in SlotIds : EffTag(q, s)' = EffTag(q, s)
  BY <1>f, <1>i, <1>d, StoreKept, Zenon
<1>g. /\ r \in log[epoch].touch \ log[epoch].insert /\ cached[r] # None
      /\ \A x \in InFlight : x.rec # r
      /\ cached[r] \in CacheSlot
  <2>1. r \in log[epoch].touch \ log[epoch].insert /\ cached[r] # None
    BY <1>f, Zenon DEF SerialInv, Bound
  <2> QED BY <2>1, <1>f, Zenon DEF SerialInv, Placed, Types
<1>v. /\ \A s \in SlotIds : storeVer[r][s] < epoch
      /\ storeVer[r] \in [SlotIds -> Nat] /\ storeVal[r] \in [SlotIds -> Int]
      /\ Latest(log, r, epoch - 1, storeVal[r][Newest(storeVer[r])])
  <2>1. Exists(log, r, epoch - 1)
    BY <1>g, Basics, TouchedRecord, Zenon
  <2>2. Latest(log, r, epoch - 1, storeVal[r][Newest(storeVer[r])])
    BY <2>1, <1>g, <1>d, Zenon DEF SerialInv, Landed
  <2>3. \A s \in SlotIds : storeVer[r][s] <= epoch - 1
    BY <1>d, Zenon DEF SerialInv, Landed
  <2> QED BY <2>2, <2>3, Basics DEF SerialInv, Types
<1>s. src = Newest(storeVer[r]) /\ src \in SlotIds
  BY <1>v, OldTags, SlotRange, Basics, Zenon
<1> HIDE DEF src
<1>t. /\ Transferred(r, epoch, cached[r]) \in CacheSlot
      /\ Transferred(r, epoch, cached[r]).ver = storeVer[r]
      /\ Transferred(r, epoch, cached[r]).val[src] = storeVal[r][src]
  BY <1>g, <1>v, <1>s, Zenon DEF Transferred, CacheSlot, src
<1>c. /\ cached'[r] = Transferred(r, epoch, cached[r]) /\ cached'[r] # None
      /\ \A q \in Records : q # r => cached'[q] = cached[q]
      /\ cached' \in [Records -> {None} \cup CacheSlot]
  <2>1. None \notin CacheSlot
    BY TpccAssumption, Zenon DEF CacheSlot
  <2> QED BY <2>1, <1>f, <1>t, Zenon DEF SerialInv, Types
<1>1. Types'
  BY <1>c, <1>f, Zenon DEF SerialInv, Types, LogOK, ProgramPoints
<1>2. Phase'
  BY <1>f, <1>d, Zenon DEF SerialInv, Phase
<1>3. Placed'
  <2>1. \A x \in InFlight : x.rec \in Records
    BY FlightEntry, Zenon
  <2> QED BY <2>1, <1>f, <1>i, <1>c, Zenon DEF SerialInv, Placed
<1>4. Bound'
  <2>1. \A q \in log[epoch].touch : q \in Records
    BY Basics, TouchedRecord, Zenon
  <2> QED BY <2>1, <1>f, <1>d, <1>c, Zenon DEF SerialInv, Bound
<1>5. CacheSerial'
  <2> SUFFICES ASSUME NEW q \in Records, cached'[q] # None, q \notin gather' PROVE Coherent(q)'
    BY <1>d, Zenon DEF CacheSerial
  <2>1. CASE q = r
    <3>1. \A s \in SlotIds : EffTag(r, s) = storeVer[r][s]
      BY <1>g, Zenon DEF EffTag
    <3>2. cached'[r].ver = storeVer[r]
          /\ cached'[r].val[Newest(storeVer[r])] = storeVal[r][Newest(storeVer[r])]
      BY <1>c, <1>t, <1>s, Zenon
    <3> QED BY <2>1, <3>1, <3>2, <1>v, <1>k, <1>d, <1>f, Zenon DEF Coherent
  <2>2. CASE q # r
    <3>1. cached'[q] = cached[q] /\ Coherent(q)
      BY <2>2, <1>c, <1>d, <1>f, Zenon DEF SerialInv, CacheSerial
    <3> QED BY <3>1, <1>k, <1>d, <1>f, Zenon DEF Coherent
  <2> QED BY <2>1, <2>2, Zenon
<1>6. Marks'
  BY <1>d, <1>f, Zenon DEF Marks
<1>7. Undoing'
  BY <1>f, Zenon DEF Undoing
<1> QED BY <1>1, <1>2, <1>3, <1>4, <1>5, <1>6, <1>7, <1>k, Zenon DEF SerialInv

(* What the executor finds when the stagers are through: every record of   *)
(* the epoch, with tags older than the epoch and the serial base.          *)
LEMMA StagedReads ==
    ASSUME SerialInv, Staged, NEW r \in log[epoch].touch
    PROVE  /\ r \in Records /\ cached[r] # None /\ cached[r] \in CacheSlot /\ Coherent(r)
           /\ \A s \in SlotIds : cached[r].ver[s] < epoch
           /\ r \notin log[epoch].insert => Latest(log, r, epoch - 1, Base(r))
<1>p. pc = "stage" /\ todo = {} /\ gather = {}
  BY Zenon DEF Staged
<1>d. \A t : Behind(t) /\ Done(t) = epoch - 1 /\ ~Unflushed(t)
  BY <1>p, Zenon DEF Behind, Done, Unflushed, Executed
<1>1. r \in Records
  BY Basics, TouchedRecord, Zenon
<1>2. cached[r] # None /\ cached[r] \in CacheSlot
  BY <1>1, <1>p, Zenon DEF SerialInv, Bound, Types
<1>3. Coherent(r)
  BY <1>1, <1>2, <1>d, <1>p, Zenon DEF SerialInv, CacheSerial
<1>4. \A s \in SlotIds : EffTag(r, s) <= epoch - 1
  <2>1. \A s \in SlotIds : storeVer[r][s] <= epoch - 1
    BY <1>1, <1>p, <1>d, Zenon DEF SerialInv, Landed, Running, Down
  <2> QED BY <2>1, <1>d, Basics DEF EffTag
<1>5. \A s \in SlotIds : cached[r].ver[s] \in Nat /\ cached[r].ver[s] < epoch
  BY <1>2, <1>3, <1>4, Basics DEF Coherent, CacheSlot
<1>6. ReadSlot(cached[r].ver, epoch) = Newest(cached[r].ver)
  <2>1. cached[r].ver \in [SlotIds -> Nat]
    BY <1>2, Zenon DEF CacheSlot
  <2> QED BY <2>1, <1>5, OldTags, Basics, Zenon
<1>7. r \notin log[epoch].insert => Exists(log, r, epoch - 1)
  BY Basics, TouchedRecord, Zenon
<1> QED BY <1>1, <1>2, <1>3, <1>5, <1>6, <1>7, <1>d, Zenon DEF Coherent, Base

(* One version of a cache slot is replaced.                                *)
Overwrite(c, s, e) == [ver |-> [c.ver EXCEPT ![s] = e], val |-> [c.val EXCEPT ![s] = e]]

(* The other version stays as it was.                                      *)
LEMMA Overwritten ==
    ASSUME NEW c \in CacheSlot, NEW s \in SlotIds, NEW e \in Nat
    PROVE  /\ Overwrite(c, s, e) \in CacheSlot /\ Overwrite(c, s, e) # None
           /\ Overwrite(c, s, e).ver[s] = e /\ Overwrite(c, s, e).val[s] = e
           /\ Overwrite(c, s, e).ver[Other(s)] = c.ver[Other(s)]
<1> DEFINE d == Overwrite(c, s, e)
<1>1. c.ver \in [SlotIds -> Nat] /\ c.val \in [SlotIds -> Int]
  BY Zenon DEF CacheSlot
<1>2. d.ver = [c.ver EXCEPT ![s] = e] /\ d.val = [c.val EXCEPT ![s] = e]
      /\ d = [ver |-> d.ver, val |-> d.val]
  BY Zenon DEF Overwrite
<1> HIDE DEF d
<1>3. d.ver \in [SlotIds -> Nat] /\ d.val \in [SlotIds -> Int]
  BY <1>1, <1>2
<1>4. d \in CacheSlot
  BY <1>2, <1>3, Zenon DEF CacheSlot
<1>5. d # None
  BY <1>4, TpccAssumption, Zenon DEF CacheSlot
<1>6. d.ver[s] = e /\ d.val[s] = e /\ d.ver[Other(s)] = c.ver[Other(s)]
  BY <1>1, <1>2, TwoSlots, Zenon
<1> QED BY <1>4, <1>5, <1>6, Zenon DEF d

(* Execution leaves this epoch's version in every record it writes.        *)
LEMMA ExecuteKeeps == ASSUME SerialInv, Execute PROVE SerialInv'
<1> DEFINE w == log[epoch].write
           ws(r) == WriteSlot(cached[r].ver)
<1>f. /\ UNCHANGED <<log, isDurable, overlap, storeVer, storeVal, marker, epoch, gather>>
      /\ UNCHANGED <<packed, work, landing, undo, crashes>>
      /\ pc = "stage" /\ todo = {} /\ gather = {} /\ pc' = "drain" /\ Staged
      /\ todo' = IF overlap THEN Tables ELSE {}
      /\ dirty' = dirty \cup {<<r, ws(r)>> : r \in w}
  BY Zenon DEF Execute, Staged, config, store, flushing
<1>i. InFlight' = InFlight
  BY <1>f, Zenon DEF InFlight
<1>p. pc \notin Down /\ pc' \notin Down /\ pc' \in Executed /\ pc \notin Executed /\ Running
  BY <1>f, Zenon DEF Down, Executed, Running
<1>d. /\ \A t \in Tables : /\ Done(t) = epoch - 1 /\ Done(t)' = Done(t) /\ Behind(t)'
                           /\ ~Unflushed(t) /\ Unflushed(t)' /\ Marked(t)' /\ ~Waiting(t)'
      /\ \A t : ~Marked(t) /\ ~Waiting(t)
  BY <1>f, <1>p, Zenon DEF Behind, Done, Unflushed, Marked, Waiting
<1>e. dirty = {} /\ packed = {}
  BY <1>d, <1>f, Zenon DEF SerialInv, Marks
<1>k. /\ Recoverable' /\ Landed' /\ Aimed'
      /\ \A r \in Records : /\ \A s \in SlotIds : EffTag(r, s)' = EffTag(r, s)
                            /\ Target(r)' = Target(r)
  BY <1>f, <1>i, <1>d, <1>p, StoreKept, Zenon
<1>b. BasesSerial
  BY <1>f, StagedReads, Zenon DEF BasesSerial
<1>w. ASSUME NEW r \in w
      PROVE  /\ r \in Records /\ r \in log[epoch].touch /\ cached[r] \in CacheSlot
             /\ ws(r) = Target(r) /\ ws(r) \in SlotIds
             /\ cached'[r] = [ver |-> [cached[r].ver EXCEPT ![ws(r)] = epoch],
                              val |-> [cached[r].val EXCEPT ![ws(r)] = epoch]]
  <2>1. r \in log[epoch].touch
    BY Basics, TouchedRecord, Zenon
  <2>2. r \in Records /\ cached[r] \in CacheSlot /\ Coherent(r)
    BY <2>1, <1>f, StagedReads, Zenon
  <2>3. ws(r) = Target(r)
    BY <2>2, Zenon DEF Coherent, Target, WriteSlot, SlotIds
  <2>4. cached'[r] = [ver |-> [cached[r].ver EXCEPT ![ws(r)] = epoch],
                      val |-> [cached[r].val EXCEPT ![ws(r)] = epoch]]
    BY <2>2, <1>b, Zenon DEF Execute
  <2> QED BY <2>1, <2>2, <2>3, <2>4, SlotRange, Zenon
<1>u. /\ \A r \in Records : r \notin w => cached'[r] = cached[r]
      /\ cached' = [r \in Records |-> cached'[r]]
  BY Zenon DEF Execute
<1>x. ASSUME NEW r \in w
      PROVE  /\ cached'[r] \in CacheSlot /\ cached'[r] # None
             /\ cached'[r].ver[Target(r)] = epoch /\ cached'[r].val[Target(r)] = epoch
             /\ cached'[r].ver[Other(Target(r))] = EffTag(r, Other(Target(r)))
  <2> DEFINE s == ws(r)
  <2>1. s \in SlotIds /\ Other(s) \in SlotIds /\ Other(s) # s
    BY <1>w, TwoSlots, Zenon
  <2>2. cached[r].ver[Other(s)] = EffTag(r, Other(s))
    BY <2>1, <1>w, <1>f, StagedReads, Zenon DEF Coherent
  <2>3. /\ cached'[r] \in CacheSlot /\ cached'[r] # None
        /\ cached'[r].ver[s] = epoch /\ cached'[r].val[s] = epoch
        /\ cached'[r].ver[Other(s)] = cached[r].ver[Other(s)]
    <3>1. cached'[r] = Overwrite(cached[r], s, epoch)
      BY <1>w, Zenon DEF Overwrite
    <3>2. cached[r] \in CacheSlot /\ epoch \in Nat
      BY <1>w, Basics, Zenon
    <3> DEFINE d == Overwrite(cached[r], s, epoch)
    <3>3. /\ d \in CacheSlot /\ d # None /\ d.ver[s] = epoch /\ d.val[s] = epoch
          /\ d.ver[Other(s)] = cached[r].ver[Other(s)]
      BY <3>2, <2>1, Overwritten, ZenonT(40)
    <3> QED BY <3>1, <3>3, Zenon
  <2> QED BY <2>2, <2>3, <1>w, Zenon
<1>1. Types'
  <2>1. cached' \in [Records -> {None} \cup CacheSlot]
    BY <1>u, <1>x, Zenon DEF SerialInv, Types
  <2>2. todo' \subseteq Tables
    BY <1>f, Zenon
  <2> QED BY <2>1, <2>2, <1>f, Zenon DEF SerialInv, Types, LogOK, ProgramPoints, Executed
<1>2. Phase'
  BY <1>f, <1>p, Zenon DEF SerialInv, Phase
<1>3. Placed'
  <2>1. ASSUME NEW x \in InFlight
        PROVE  overlap /\ TableOf[x.rec] \in Tables
    BY <1>f, FlightEntry, Zenon DEF SerialInv, Placed
  <2> QED BY <2>1, <1>f, <1>i, <1>p, Zenon DEF Placed
<1>4. Bound'
  <2>1. \A r \in log[epoch].touch : cached'[r] # None
    BY <1>x, <1>u, <1>f, StagedReads, Zenon
  <2> QED BY <2>1, <1>f, <1>p, Zenon DEF Bound
<1>5. CacheSerial'
  <2> SUFFICES ASSUME NEW r \in Records, cached'[r] # None
               PROVE  IF r \in w THEN Written(r)' ELSE Coherent(r)'
    BY <1>d, <1>f, Basics, Zenon DEF CacheSerial
  <2>1. CASE r \in w
    <3>1. Target(r) \in SlotIds /\ Other(Target(r)) \in SlotIds
      BY <2>1, <1>w, TwoSlots, Zenon
    <3> QED BY <3>1, <2>1, <1>x, <1>k, <1>f, Zenon DEF Written
  <2>2. CASE r \notin w
    <3>1. cached'[r] = cached[r] /\ Coherent(r)
      BY <2>2, <1>u, <1>d, <1>f, Basics, Zenon DEF SerialInv, CacheSerial
    <3> QED BY <3>1, <2>2, <1>k, <1>d, <1>f, Basics, Zenon DEF Coherent
  <2> QED BY <2>1, <2>2, Zenon
<1>6. Marks'
  <2>1. \A d \in dirty' : \E r \in w : d = <<r, ws(r)>>
    BY <1>f, <1>e, Zenon
  <2>2. \A d \in dirty' : d \in Records \X SlotIds /\ TableOf[d[1]] \in Tables
    <3> SUFFICES ASSUME NEW d \in dirty'
                 PROVE  d \in Records \X SlotIds /\ TableOf[d[1]] \in Tables
      BY Zenon
    <3>1. PICK r \in w : d = <<r, ws(r)>>
      BY <2>1, Zenon
    <3>2. r \in Records /\ ws(r) \in SlotIds /\ TableOf[r] \in Tables
      BY <1>w, Basics, Zenon
    <3> HIDE DEF ws
    <3> QED BY <3>1, <3>2, Zenon
  <2>3. \A r \in Records, s \in SlotIds : <<r, s>> \in dirty' <=> r \in w /\ s = Target(r)
    BY <1>f, <1>e, <1>w, Zenon
  <2> QED BY <2>2, <2>3, <1>d, <1>e, <1>f, <1>k, Basics, Zenon DEF Marks
<1>7. Undoing'
  BY <1>f, Zenon DEF Undoing
<1> QED BY <1>1, <1>2, <1>3, <1>4, <1>5, <1>6, <1>7, <1>k, Zenon DEF SerialInv

--------------------------------------------------------------------------------
(* A record of a table whose worker is idle has no entry in flight.        *)
LEMMA IdleTags ==
    ASSUME SerialInv, NEW t \in Tables, Idle(t), NEW r \in Of(t)
    PROVE  /\ r \in Records /\ TableOf[r] = t
           /\ \A x \in InFlight : x.rec # r
           /\ \A s \in SlotIds : EffTag(r, s) = storeVer[r][s]
           /\ Target(r) = WriteSlot(storeVer[r])
<1>1. r \in Records /\ TableOf[r] = t
  BY Zenon DEF Of
<1>2. \A x \in InFlight : x.rec # r
  BY <1>1, Zenon DEF Idle, InFlight
<1>3. \A s \in SlotIds : EffTag(r, s) = storeVer[r][s]
  BY <1>2, Zenon DEF EffTag
<1>4. Target(r) = WriteSlot(storeVer[r])
  BY <1>3, Zenon DEF Target, WriteSlot, SlotIds
<1> QED BY <1>1, <1>2, <1>3, <1>4, Zenon

(* The records of a flush set are those the epoch has written.             *)
LEMMA FlushSetEntries ==
    ASSUME SerialInv, NEW t \in Tables
    PROVE  /\ FlushSet(t) \subseteq Entry
           /\ \A x \in FlushSet(t) : /\ x.rec \in log[epoch].write /\ x.rec \in Of(t)
                                     /\ x.rec \in Records /\ TableOf[x.rec] = t
                                     /\ x.slot = WriteSlot(storeVer[x.rec])
                                     /\ x.ver = epoch /\ x.val = epoch
           /\ \A x, y \in FlushSet(t) : x.rec = y.rec => x = y
           /\ \A r \in log[epoch].write \cap Of(t) : \E x \in FlushSet(t) : x.rec = r
<1>1. ASSUME NEW r \in log[epoch].write \cap Of(t)
      PROVE  /\ r \in Records /\ TableOf[r] = t
             /\ EntryOf(r) \in Entry /\ EntryOf(r).rec = r
             /\ EntryOf(r).slot = WriteSlot(storeVer[r])
             /\ EntryOf(r).ver = epoch /\ EntryOf(r).val = epoch
  <2>1. r \in Records /\ TableOf[r] = t
    BY Zenon DEF Of
  <2>2. WriteSlot(storeVer[r]) \in SlotIds /\ epoch \in Nat /\ epoch \in Int
    BY SlotRange, Basics
  <2> QED BY <2>1, <2>2, Zenon DEF EntryOf, Entry
<1>2. \A x \in FlushSet(t) : \E r \in log[epoch].write \cap Of(t) : x = EntryOf(r)
  BY Zenon DEF FlushSet
<1>3. \A r \in log[epoch].write \cap Of(t) : EntryOf(r) \in FlushSet(t)
  BY Zenon DEF FlushSet
<1>4. ASSUME NEW x \in FlushSet(t)
      PROVE  /\ x \in Entry /\ x.rec \in log[epoch].write \cap Of(t)
             /\ x.rec \in Records /\ TableOf[x.rec] = t /\ x = EntryOf(x.rec)
             /\ x.slot = WriteSlot(storeVer[x.rec]) /\ x.ver = epoch /\ x.val = epoch
  <2>1. PICK r \in log[epoch].write \cap Of(t) : x = EntryOf(r)
    BY <1>2, Zenon
  <2>2. x.rec = r
    BY <2>1, <1>1, Zenon
  <2> QED BY <2>1, <2>2, <1>1, Zenon
<1>5. \A x, y \in FlushSet(t) : x.rec = y.rec => x = y
  BY <1>4, Zenon
<1>6. \A r \in log[epoch].write \cap Of(t) : \E x \in FlushSet(t) : x.rec = r
  BY <1>1, <1>3, Zenon
<1> QED BY <1>4, <1>5, <1>6, Zenon

(* What a section collects from its cache is the flush set.                *)
LEMMA CollectedSet ==
    ASSUME SerialInv, NEW t \in Tables, Marked(t), Idle(t)
    PROVE  PackedOf(t) = FlushSet(t)
<1> DEFINE entry(d) == [rec |-> d[1], slot |-> d[2], ver |-> cached[d[1]].ver[d[2]],
                        val |-> cached[d[1]].val[d[2]]]
<1>u. Unflushed(t) /\ pc \in Executed
  BY Zenon DEF Marked, Unflushed, Behind, Executed
<1>1. ASSUME NEW r \in log[epoch].write \cap Of(t)
      PROVE  /\ r \in Records /\ TableOf[r] = t
             /\ <<r, Target(r)>> \in DirtyOf(t)
             /\ entry(<<r, Target(r)>>) = EntryOf(r)
  <2>1. r \in Records /\ TableOf[r] = t /\ Target(r) = WriteSlot(storeVer[r])
    BY IdleTags, Zenon
  <2>2. Target(r) \in SlotIds
    BY <2>1, SlotRange, Zenon
  <2>3. <<r, Target(r)>> \in dirty
    BY <2>1, <2>2, Zenon DEF SerialInv, Marks
  <2>4. cached[r] # None
    BY <1>u, Basics, TouchedRecord, Zenon DEF SerialInv, Bound
  <2>5. Written(r)
    BY <2>1, <2>4, <1>u, Zenon DEF SerialInv, CacheSerial
  <2>6. <<r, Target(r)>>[1] = r /\ <<r, Target(r)>>[2] = Target(r)
    BY Zenon
  <2>7. <<r, Target(r)>> \in DirtyOf(t)
    BY <2>1, <2>3, <2>6, Zenon DEF DirtyOf
  <2>8. entry(<<r, Target(r)>>) = EntryOf(r)
    BY <2>1, <2>5, <2>6, Zenon DEF Written, EntryOf
  <2> QED BY <2>1, <2>7, <2>8, Zenon
<1>2. ASSUME NEW d \in DirtyOf(t)
      PROVE  \E r \in log[epoch].write \cap Of(t) : d = <<r, Target(r)>>
  <2>1. d \in dirty /\ TableOf[d[1]] = t
    BY Zenon DEF DirtyOf
  <2>2. d \in Records \X SlotIds
    BY <2>1, Zenon DEF SerialInv, Marks
  <2>3. d = <<d[1], d[2]>> /\ d[1] \in Records /\ d[2] \in SlotIds
    BY <2>2
  <2>4. d[1] \in log[epoch].write /\ d[2] = Target(d[1])
    BY <2>1, <2>3, Zenon DEF SerialInv, Marks
  <2>5. d[1] \in Of(t)
    BY <2>1, <2>3, Zenon DEF Of
  <2> QED BY <2>3, <2>4, <2>5, Zenon
<1>3. \A x : x \in PackedOf(t) <=> \E d \in DirtyOf(t) : x = entry(d)
  BY Zenon DEF PackedOf
<1>4. \A x : x \in FlushSet(t) <=> \E r \in log[epoch].write \cap Of(t) : x = EntryOf(r)
  BY Zenon DEF FlushSet
<1> HIDE DEF entry
<1>5. ASSUME NEW x \in PackedOf(t) PROVE x \in FlushSet(t)
  <2>1. PICK d \in DirtyOf(t) : x = entry(d)
    BY <1>3, Zenon
  <2>2. PICK r \in log[epoch].write \cap Of(t) : d = <<r, Target(r)>>
    BY <1>2, Zenon
  <2> QED BY <2>1, <2>2, <1>1, <1>4, Zenon
<1>6. ASSUME NEW x \in FlushSet(t) PROVE x \in PackedOf(t)
  BY <1>1, <1>3, <1>4, Zenon
<1> QED BY <1>5, <1>6, Zenon

(* The worker of one table is given its flush set: store plus flight of    *)
(* that table moves on to this epoch, and its cache with it.               *)
LEMMA HandedOver ==
    ASSUME SerialInv, NEW t \in Tables, Unflushed(t), Idle(t), Running',
           UNCHANGED <<log, isDurable, storeVer, storeVal, marker, cached, gather>>,
           InFlight' = InFlight \cup FlushSet(t),
           Done(t)' = epoch, \A u \in Tables : u # t => Done(u)' = Done(u),
           ~Unflushed(t)',
           \A u \in Tables : u # t => /\ Unflushed(u)' => Unflushed(u) /\ epoch' = epoch
                                      /\ Unflushed(u) => Unflushed(u)',
           isDurable => marker = epoch + 1
    PROVE  /\ Recoverable' /\ Landed' /\ Aimed' /\ CacheSerial'
           /\ \A r \in Records : TableOf[r] # t =>
                 /\ \A s \in SlotIds : EffTag(r, s)' = EffTag(r, s)
                 /\ Target(r)' = Target(r)
<1>p. /\ Running /\ gather = {} /\ Done(t) = epoch - 1 /\ pc \in Executed
      /\ \A r \in Of(t) : r \in Records /\ TableOf[r] = t
  <2>1. pc \in Executed /\ Behind(t)
    BY Zenon DEF Unflushed
  <2>2. gather = {}
    BY <2>1, Zenon DEF SerialInv, Bound, Executed
  <2> QED BY <2>1, <2>2, Zenon DEF Running, Down, Executed, Done, Of
<1>e. \A x \in FlushSet(t) : /\ x.rec \in log[epoch].write /\ x.rec \in Of(t)
                             /\ x.rec \in Records /\ TableOf[x.rec] = t
                             /\ x.slot = WriteSlot(storeVer[x.rec])
                             /\ x.ver = epoch /\ x.val = epoch
  BY FlushSetEntries, Zenon
<1>g. /\ \A x, y \in FlushSet(t) : x.rec = y.rec => x = y
      /\ \A r \in log[epoch].write \cap Of(t) : \E x \in FlushSet(t) : x.rec = r
  BY FlushSetEntries, ZenonT(40)
<1>v. \A r \in Of(t) : \A s \in SlotIds : storeVer[r][s] \in Nat /\ storeVer[r][s] < epoch
  BY <1>p, Basics DEF SerialInv, Landed
<1>w. ASSUME NEW r \in Of(t)
      PROVE  /\ Exists(log, r, epoch) <=> Exists(log, r, epoch - 1) \/ r \in log[epoch].insert
             /\ r \in log[epoch].insert => r \in log[epoch].write
             /\ r \in log[epoch].write => Latest(log, r, epoch, epoch)
             /\ \A v : r \notin log[epoch].write /\ Latest(log, r, epoch - 1, v)
                          => Latest(log, r, epoch, v)
             /\ (\A x \in InFlight' : x.rec # r) <=> r \notin log[epoch].write
  <2>1. Exists(log, r, epoch) <=> Exists(log, r, epoch - 1) \/ r \in log[epoch].insert
    BY Basics, InsertAdds, Zenon
  <2>2. r \in log[epoch].insert => r \in log[epoch].write
    BY Basics, TouchedRecord, Zenon
  <2>3. r \in log[epoch].write => Latest(log, r, epoch, epoch)
    BY Basics, WriterWins
  <2>4. \A v : r \notin log[epoch].write /\ Latest(log, r, epoch - 1, v) => Latest(log, r, epoch, v)
    BY Basics, UnwrittenKeeps, Zenon
  <2>5. (\A x \in InFlight' : x.rec # r) <=> r \notin log[epoch].write
    <3>1. \A x \in InFlight : x.rec # r
      BY IdleTags, Zenon
    <3> QED BY <3>1, <1>e, <1>g
  <2> QED BY <2>1, <2>2, <2>3, <2>4, <2>5, Zenon
<1>o. ASSUME NEW r \in Records, TableOf[r] # t
      PROVE  /\ Done(TableOf[r])' = Done(TableOf[r])
             /\ \A x : x.rec = r => (x \in InFlight' <=> x \in InFlight)
             /\ \A s \in SlotIds : EffTag(r, s)' = EffTag(r, s)
             /\ Target(r)' = Target(r)
  <2>1. Done(TableOf[r])' = Done(TableOf[r])
    BY <1>o, Basics, Zenon
  <2>2. \A x : x.rec = r => (x \in InFlight' <=> x \in InFlight)
    BY <1>o, <1>e, Zenon
  <2>3. \A s \in SlotIds : EffTag(r, s)' = EffTag(r, s)
    BY <2>1, <2>2, Zenon DEF EffTag
  <2>4. Target(r)' = Target(r)
    BY <2>3, Zenon DEF Target, SlotIds
  <2> QED BY <2>1, <2>2, <2>3, <2>4, Zenon
<1>1. Recoverable'
  BY Zenon DEF SerialInv, Recoverable, RollbackBase, RecoveryPoint
<1>2. Landed'
  <2>1. ASSUME NEW r \in Records, TableOf[r] = t
        PROVE  /\ \A s \in SlotIds : storeVer[r][s] <= epoch
               /\ Exists(log, r, epoch) /\ (\A x \in InFlight' : x.rec # r) =>
                     Latest(log, r, epoch, storeVal[r][Newest(storeVer[r])])
               /\ ~Exists(log, r, epoch) => \A s \in SlotIds : storeVer[r][s] = 0
    <3>1. r \in Of(t) /\ \A x \in InFlight : x.rec # r
      BY <2>1, IdleTags, Zenon DEF Of
    <3>2. /\ Exists(log, r, epoch - 1) =>
               Latest(log, r, epoch - 1, storeVal[r][Newest(storeVer[r])])
          /\ ~Exists(log, r, epoch - 1) => \A s \in SlotIds : storeVer[r][s] = 0
      BY <2>1, <3>1, <1>p, Zenon DEF SerialInv, Landed
    <3>3. \A s \in SlotIds : storeVer[r][s] <= epoch
      BY <3>1, <1>v, Basics
    <3> QED BY <3>1, <3>2, <3>3, <1>w, Zenon
  <2> QED BY <2>1, <1>o, <1>p, ZenonT(40) DEF SerialInv, Landed
<1>3. Aimed'
  <2>1. ASSUME NEW x \in FlushSet(t)
        PROVE  /\ TableOf[x.rec] = t
               /\ epoch >= 1 /\ x.ver = epoch /\ x.val = epoch /\ x.rec \in log[epoch].write
               /\ storeVer[x.rec][Other(x.slot)] < epoch
               /\ x.slot # Newest(Demote(storeVer[x.rec], epoch))
    <3>1. /\ x.rec \in Records /\ TableOf[x.rec] = t /\ x.rec \in Of(t)
          /\ x.slot = WriteSlot(storeVer[x.rec]) /\ x.slot \in SlotIds
          /\ x.ver = epoch /\ x.val = epoch /\ x.rec \in log[epoch].write
      BY <1>e, SlotRange, Zenon
    <3>2. Other(x.slot) \in SlotIds
      BY <3>1, TwoSlots, Zenon
    <3>3. storeVer[x.rec] \in [SlotIds -> Nat]
      BY <3>1, Zenon DEF SerialInv, Types
    <3>4. x.slot # Newest(Demote(storeVer[x.rec], epoch))
      BY <3>1, <3>3, <1>v, OldTags, Basics, ZenonT(40)
    <3> QED BY <3>1, <3>2, <3>4, <1>v, Basics
  <2>2. ASSUME NEW x \in InFlight
        PROVE  TableOf[x.rec] # t /\ x.rec \in Records
               /\ Done(TableOf[x.rec])' = Done(TableOf[x.rec])
    BY FlightEntry, <1>o, Zenon DEF Idle, InFlight
  <2>3. \A x, y \in InFlight' : x.rec = y.rec => x = y
    <3>1. \A x, y \in InFlight : x.rec = y.rec => x = y
      BY Zenon DEF SerialInv, Aimed
    <3> QED BY <3>1, <2>1, <2>2, <1>g
  <2> QED BY <2>1, <2>2, <2>3, ZenonT(40) DEF SerialInv, Aimed
<1>4. CacheSerial'
  <2>1. ASSUME NEW r \in Records, TableOf[r] = t, cached[r] # None PROVE Coherent(r)'
    <3>1. r \in Of(t)
      BY <2>1, Zenon DEF Of
    <3>2. /\ \A x \in InFlight : x.rec # r
          /\ \A s \in SlotIds : EffTag(r, s) = storeVer[r][s]
          /\ Target(r) = WriteSlot(storeVer[r])
      BY <3>1, IdleTags, Zenon
    <3>3. CASE r \in log[epoch].write
      <4> DEFINE s == Target(r)
      <4>1. Written(r)
        BY <3>3, <2>1, Zenon DEF SerialInv, CacheSerial
      <4>2. s \in SlotIds /\ Other(s) \in SlotIds /\ Other(s) # s
            /\ \A q \in SlotIds : q = s \/ q = Other(s)
        BY <3>2, SlotRange, TwoSlots, Zenon
      <4>3. cached[r].ver[s] = epoch /\ cached[r].val[s] = epoch
            /\ cached[r].ver[Other(s)] = storeVer[r][Other(s)]
        BY <4>1, <4>2, <3>2, ZenonT(40) DEF Written
      <4>4. PICK x \in FlushSet(t) : x.rec = r /\ x.slot = s
        BY <3>1, <3>2, <3>3, <1>e, <1>g
      <4>5. \A y \in InFlight' : y.rec = r => y.slot = s
        BY <4>4, <3>2, <1>e, Zenon
      <4> HIDE DEF s
      <4>6. \A q \in SlotIds : cached[r].ver[q] = EffTag(r, q)'
        BY <4>2, <4>3, <4>4, <4>5, <2>1, ZenonT(40) DEF EffTag
      <4>7. Newest(cached[r].ver) = s
        BY <4>2, <4>3, <3>1, <1>v, Basics DEF Newest, SlotIds
      <4> QED BY <4>3, <4>6, <4>7, <3>1, <3>3, <2>1, <1>w, Zenon DEF Coherent
    <3>4. CASE r \notin log[epoch].write
      <4>1. Coherent(r)
        BY <3>4, <2>1, <1>p, Zenon DEF SerialInv, CacheSerial
      <4>2. \A s \in SlotIds : EffTag(r, s)' = EffTag(r, s)
        <5>1. \A x \in InFlight' : x.rec # r
          BY <3>1, <3>4, <1>w, Zenon
        <5>2. \A s \in SlotIds : EffTag(r, s)' = storeVer[r][s]
          BY <5>1, Zenon DEF EffTag
        <5> QED BY <5>2, <3>2, Zenon
      <4>3. Exists(log, r, epoch) => Latest(log, r, epoch, cached[r].val[Newest(cached[r].ver)])
        BY <4>1, <3>1, <3>4, <2>1, <1>p, <1>w, ZenonT(40) DEF Coherent
      <4> QED BY <4>1, <4>2, <4>3, <2>1, Zenon DEF Coherent
    <3> QED BY <3>3, <3>4, Zenon
  <2>2. ASSUME NEW r \in Records, TableOf[r] # t, cached[r] # None
        PROVE  IF Unflushed(TableOf[r])' /\ r \in log'[epoch'].write
               THEN Written(r)' ELSE Coherent(r)'
    <3>1. CASE Unflushed(TableOf[r])
      <4>1. Unflushed(TableOf[r])'
        BY <3>1, <2>2, Basics, Zenon
      <4>2. epoch' = epoch
        BY <4>1, <2>2, Basics, Zenon
      <4>3. Target(r) \in SlotIds /\ Other(Target(r)) \in SlotIds
        BY TwoSlots, Zenon DEF Target, SlotIds
      <4>4. Written(r) => Written(r)'
        BY <2>2, <4>2, <4>3, <1>o, Zenon DEF Written
      <4>5. Coherent(r) => Coherent(r)'
        BY <2>2, <1>o, Zenon DEF Coherent
      <4> QED BY <4>1, <4>2, <4>4, <4>5, <3>1, <2>2, <1>p, Zenon DEF SerialInv, CacheSerial
    <3>2. CASE ~Unflushed(TableOf[r])
      <4>1. Coherent(r)
        BY <3>2, <2>2, <1>p, Zenon DEF SerialInv, CacheSerial
      <4>2. ~Unflushed(TableOf[r])'
        BY <3>2, <2>2, Basics, Zenon
      <4> QED BY <4>1, <4>2, <2>2, <1>o, Zenon DEF Coherent
    <3> QED BY <3>1, <3>2, Zenon
  <2> QED BY <2>1, <2>2, Zenon DEF CacheSerial
<1> QED BY <1>1, <1>2, <1>3, <1>4, <1>o, Zenon

(* The sections of the stagers: pack, and in a run without a marker hand   *)
(* over at once.                                                           *)
LEMMA DrainAndPackKeeps ==
    ASSUME SerialInv, NEW t \in Tables, DrainAndPack(t) PROVE SerialInv'
<1>f. /\ UNCHANGED <<log, isDurable, overlap, storeVer, storeVal, marker, epoch, cached>>
      /\ UNCHANGED <<gather, landing, undo, crashes>>
      /\ pc = "drain" /\ pc' = "drain" /\ t \in todo /\ todo' = todo \ {t} /\ Idle(t)
      /\ dirty' = dirty \ DirtyOf(t)
  BY Zenon DEF DrainAndPack, config, store
<1>p. /\ pc \in Executed /\ pc \notin Down /\ pc' \in Executed /\ pc' \notin Down /\ overlap
      /\ gather = {}
  BY <1>f, Zenon DEF Executed, Down, SerialInv, Phase, Bound
<1>m. Marked(t) /\ Unflushed(t) /\ Behind(t) /\ ~Waiting(t)
  BY <1>f, <1>p, Zenon DEF Marked, Unflushed, Behind, Waiting
<1>c. PackedOf(t) = FlushSet(t) /\ FlushSet(t) \subseteq Entry
      /\ \A x \in FlushSet(t) : TableOf[x.rec] = t
  BY <1>f, <1>m, CollectedSet, FlushSetEntries, Zenon
<1>u. /\ \A u \in Tables : u # t => /\ Marked(u)' <=> Marked(u)
                                    /\ Waiting(u)' <=> Waiting(u)
                                    /\ Behind(u)' <=> Behind(u)
                                    /\ Unflushed(u)' <=> Unflushed(u)
                                    /\ Done(u)' = Done(u)
      /\ ~Marked(t)' /\ Running /\ Running'
      /\ Behind(t)' <=> isDurable
      /\ Waiting(t)' <=> isDurable
  BY <1>f, <1>p, Zenon DEF Marked, Waiting, Behind, Unflushed, Done, Running
<1>1. Types'
  <2>1. packed' \subseteq Entry /\ work' \subseteq Entry
    <3>1. packed \subseteq Entry /\ work \subseteq Entry
      BY Zenon DEF SerialInv, Types
    <3>2. packed' = packed \/ packed' = packed \cup FlushSet(t)
      BY <1>c, Zenon DEF DrainAndPack
    <3>3. work' = work \/ work' = work \cup FlushSet(t)
      BY <1>c, Zenon DEF DrainAndPack
    <3> QED BY <3>1, <3>2, <3>3, <1>c, Zenon
  <2> QED BY <2>1, <1>f, Zenon DEF SerialInv, Types, LogOK
<1>2. Phase'
  BY <1>f, <1>p, Zenon DEF SerialInv, Phase
<1>3. Bound'
  BY <1>f, <1>p, Zenon DEF SerialInv, Bound
<1>4. Undoing'
  BY <1>f, Zenon DEF Undoing
<1>s. \A u \in Tables : FlushSet(u)' = FlushSet(u)
  BY <1>f, Zenon DEF FlushSet, EntryOf
(* The marks of the other tables stay. *)
<1>d. ASSUME \A r \in Records : TableOf[r] # t => Target(r)' = Target(r)
      PROVE  /\ \A d \in dirty' : d \in Records \X SlotIds /\ Marked(TableOf[d[1]])'
             /\ \A r \in Records, s \in SlotIds : Marked(TableOf[r])' =>
                   (<<r, s>> \in dirty' <=> r \in log[epoch].write /\ s = Target(r)')
  <2>1. \A d \in dirty' : d \in Records \X SlotIds /\ Marked(TableOf[d[1]])'
    <3> SUFFICES ASSUME NEW d \in dirty'
                 PROVE  d \in Records \X SlotIds /\ Marked(TableOf[d[1]])'
      BY Zenon
    <3>1. d \in dirty /\ TableOf[d[1]] # t
      BY <1>f, Zenon DEF DirtyOf
    <3>2. d \in Records \X SlotIds /\ Marked(TableOf[d[1]])
      BY <3>1, <1>f, Zenon DEF SerialInv, Marks
    <3>3. TableOf[d[1]] \in Tables
      BY <3>2, Basics, Zenon
    <3> QED BY <3>1, <3>2, <3>3, <1>u, Zenon
  <2>2. ASSUME NEW r \in Records, NEW s \in SlotIds, Marked(TableOf[r])'
        PROVE  <<r, s>> \in dirty' <=> r \in log[epoch].write /\ s = Target(r)'
    <3>1. TableOf[r] # t /\ Marked(TableOf[r])
      BY <2>2, <1>u, Basics, Zenon
    <3>2. <<r, s>> \in dirty' <=> <<r, s>> \in dirty
      BY <3>1, <1>f, Zenon DEF DirtyOf
    <3> QED BY <3>1, <3>2, <1>d, Zenon DEF SerialInv, Marks
  <2> QED BY <2>1, <2>2, Zenon
<1>5. CASE isDurable
  <2>1. work' = work /\ packed' = packed \cup FlushSet(t) /\ InFlight' = InFlight
    BY <1>5, <1>c, <1>f, Zenon DEF DrainAndPack, DeferSubmit, InFlight
  <2>2. \A u \in Tables : Done(u)' = Done(u) /\ (Unflushed(u)' <=> Unflushed(u))
    BY <1>5, <1>u, <1>m, <1>f, <1>p, Zenon DEF Done, Unflushed
  <2>3. /\ Recoverable' /\ Landed' /\ Aimed'
        /\ \A r \in Records : /\ \A s \in SlotIds : EffTag(r, s)' = EffTag(r, s)
                              /\ Target(r)' = Target(r)
    BY <2>1, <2>2, <1>f, <1>u, StoreKept, Zenon
  <2>4. Placed'
    <3>1. \A x \in InFlight : TableOf[x.rec] \in todo /\ TableOf[x.rec] # t
      BY <1>5, <1>f, Zenon DEF SerialInv, Placed, Idle, InFlight
    <3> QED BY <3>1, <2>1, <1>f, <1>p, Zenon DEF Placed
  <2>5. CacheSerial'
    <3> SUFFICES ASSUME NEW r \in Records, cached[r] # None
                 PROVE  IF Unflushed(TableOf[r]) /\ r \in log[epoch].write
                        THEN Written(r)' ELSE Coherent(r)'
      BY <2>2, <1>f, Basics, Zenon DEF CacheSerial
    <3>1. Target(r) \in SlotIds /\ Other(Target(r)) \in SlotIds
      BY TwoSlots, Zenon DEF Target, SlotIds
    <3>2. Written(r) => Written(r)'
      BY <3>1, <2>3, <1>f, Zenon DEF Written
    <3>3. Coherent(r) => Coherent(r)'
      BY <2>2, <2>3, <1>f, Basics, Zenon DEF Coherent
    <3> QED BY <3>2, <3>3, <1>p, Zenon DEF SerialInv, CacheSerial
  <2>6. \A x \in packed' : Waiting(TableOf[x.rec])'
    <3>1. \A x \in packed : Waiting(TableOf[x.rec]) /\ TableOf[x.rec] \in Tables
      BY Basics, Zenon DEF SerialInv, Marks, Types, Entry
    <3> QED BY <3>1, <2>1, <1>5, <1>c, <1>u, <1>m, Zenon
  <2>7. ASSUME NEW u \in Tables, Waiting(u)'
        PROVE  {x \in packed' : TableOf[x.rec] = u} = FlushSet(u)'
    <3>1. CASE u = t
      <4>1. \A x \in packed : TableOf[x.rec] # t
        BY <1>m, Zenon DEF SerialInv, Marks
      <4> QED BY <3>1, <4>1, <2>1, <1>c, <1>s, Zenon
    <3>2. CASE u # t
      <4>1. {x \in packed : TableOf[x.rec] = u} = FlushSet(u)
        BY <2>7, <3>2, <1>u, Zenon DEF SerialInv, Marks
      <4> QED BY <3>2, <4>1, <2>1, <1>c, <1>s, Zenon
    <3> QED BY <3>1, <3>2, Zenon
  <2>8. Marks'
    BY <2>3, <2>6, <2>7, <1>d, <1>f, Zenon DEF Marks
  <2> QED BY <2>3, <2>4, <2>5, <2>8, <1>1, <1>2, <1>3, <1>4, ZenonT(40) DEF SerialInv
<1>6. CASE ~isDurable
  <2>1. packed' = packed /\ InFlight' = InFlight \cup FlushSet(t)
    BY <1>6, <1>c, <1>f, Zenon DEF DrainAndPack, DeferSubmit, InFlight
  <2>2. Done(t)' = epoch /\ ~Unflushed(t)'
    BY <1>6, <1>u, <1>f, Zenon DEF Done, Unflushed
  <2>3. /\ Recoverable' /\ Landed' /\ Aimed' /\ CacheSerial'
        /\ \A r \in Records : TableOf[r] # t => Target(r)' = Target(r)
    BY <2>1, <2>2, <1>6, <1>m, <1>f, <1>u, HandedOver, Zenon
  <2>4. Placed'
    BY <2>1, <1>6, <1>f, <1>p, Zenon DEF Placed
  <2>5. \A u : ~Waiting(u) /\ ~Waiting(u)'
    BY <1>6, <1>f, Zenon DEF Waiting
  <2>6. Marks'
    BY <2>1, <2>3, <2>5, <1>d, <1>f, Zenon DEF Marks, SerialInv
  <2> QED BY <2>3, <2>4, <2>6, <1>1, <1>2, <1>3, <1>4, ZenonT(40) DEF SerialInv
<1> QED BY <1>5, <1>6, Zenon

--------------------------------------------------------------------------------
(* Moving on does not change what a table has reached.                     *)
LEMMA AdvanceDone ==
    ASSUME SerialInv, Advance
    PROVE  /\ epoch' \in Epochs /\ todo' = Tables
           /\ \/ pc' = "stage" /\ epoch' = epoch + 1
              \/ pc' = "final" /\ epoch' = epoch /\ epoch = NEpochs
           /\ \A t : Done(t)' = epoch /\ ~Unflushed(t)' /\ ~Marked(t)' /\ ~Waiting(t)'
           /\ Running' /\ pc' \notin Down /\ pc' \notin Executed
<1>1. /\ epoch' \in Epochs /\ todo' = Tables
      /\ \/ pc' = "stage" /\ epoch' = epoch + 1
         \/ pc' = "final" /\ epoch' = epoch /\ epoch = NEpochs
  BY Basics DEF Advance, Epochs
<1>2. Running' /\ pc' \notin Down /\ pc' \notin Executed
  BY <1>1, Zenon DEF Running, Down, Executed
<1>3. \A t : Done(t)' = epoch /\ ~Unflushed(t)' /\ ~Marked(t)' /\ ~Waiting(t)'
  BY <1>1, <1>2, Basics DEF Done, Behind, Unflushed, Marked, Waiting
<1> QED BY <1>1, <1>2, <1>3, Zenon

(* The next epoch, or the end, with every table's writes on their way.     *)
LEMMA AdvanceKeeps ==
    ASSUME SerialInv, Advance, pc \in Executed,
           UNCHANGED <<log, isDurable, overlap, cached, gather>>,
           storeVer' = storeVer, storeVal' = storeVal, marker' = marker,
           work' \subseteq Entry, landing' \subseteq Entry,
           dirty' = {}, packed' = {}, isDurable => marker = epoch + 1,
           \A x \in InFlight' : overlap /\ x.rec \in log[epoch].write
    PROVE  Types' /\ Phase' /\ Placed' /\ Bound' /\ Marks' /\ Undoing'
<1>a. /\ epoch' \in Epochs /\ todo' = Tables
      /\ \/ pc' = "stage" /\ epoch' = epoch + 1
         \/ pc' = "final" /\ epoch' = epoch /\ epoch = NEpochs
      /\ \A t : ~Marked(t)' /\ ~Waiting(t)'
      /\ pc' \notin Down /\ pc' \notin Executed
  BY AdvanceDone, Zenon
<1>g. gather = {} /\ gather' = {}
  BY Zenon DEF SerialInv, Bound, Executed
<1>1. Types'
  BY <1>a, Zenon DEF SerialInv, Types, LogOK, ProgramPoints
<1>2. Phase'
  <2>1. isDurable => marker' = epoch' \/ marker' = epoch' + 1
    BY <1>a, Zenon
  <2>2. pc' = "stage" => epoch' >= 2
    BY <1>a, Basics
  <2>3. pc' = "final" => epoch' = NEpochs /\ (isDurable => marker' = epoch' + 1)
    BY <1>a, Zenon
  <2> QED BY <2>1, <2>2, <2>3, <1>a, Zenon DEF Phase, Executed
<1>3. Placed'
  <2>1. ASSUME NEW x \in InFlight'
        PROVE  overlap /\ cached[x.rec] # None /\ TableOf[x.rec] \in Tables
    <3>1. x.rec \in log[epoch].touch
      BY Basics, TouchedRecord, Zenon
    <3>2. x.rec \in Records
      BY <3>1, Basics, TouchedRecord, Zenon
    <3> QED BY <3>1, <3>2, Basics, Zenon DEF SerialInv, Bound
  <2> QED BY <2>1, <1>a, <1>g, Zenon DEF Placed
<1>4. Bound'
  <2>1. \A r \in log[epoch'].touch : TableOf[r] \in Tables
    <3>1. epoch' \in 1 .. NEpochs
      BY <1>a, Zenon DEF Epochs
    <3> QED BY <3>1, Basics, TouchedRecord, Zenon
  <2> QED BY <2>1, <1>a, <1>g, Zenon DEF Bound
<1>5. Marks'
  BY <1>a, Zenon DEF Marks
<1>6. Undoing'
  BY <1>a, Zenon DEF Undoing
<1> QED BY <1>1, <1>2, <1>3, <1>4, <1>5, <1>6, Zenon

(* Nothing but the serial state of the previous epoch is in the store when *)
(* the marker says so.                                                     *)
LEMMA MarkerRecoverable ==
    ASSUME SerialInv, Running, InFlight = {}, \A t \in Tables : Done(t) = epoch - 1,
           UNCHANGED <<log, storeVer, storeVal>>, marker' = epoch + 1
    PROVE  Recoverable'
<1>1. RecoveryPoint' = epoch - 1
  BY Basics DEF RecoveryPoint
<1>2. ASSUME NEW r \in Records
      PROVE  /\ \A s \in SlotIds : storeVer[r][s] \in Nat /\ storeVer[r][s] <= epoch - 1
             /\ Exists(log, r, epoch - 1) =>
                  Latest(log, r, epoch - 1, storeVal[r][Newest(storeVer[r])])
             /\ ~Exists(log, r, epoch - 1) => \A s \in SlotIds : storeVer[r][s] = 0
             /\ RollbackBase(r)' = storeVal[r][Newest(storeVer[r])]
  <2>1. Done(TableOf[r]) = epoch - 1
    BY Basics, Zenon
  <2>2. /\ \A s \in SlotIds : storeVer[r][s] <= epoch - 1
        /\ Exists(log, r, epoch - 1) =>
             Latest(log, r, epoch - 1, storeVal[r][Newest(storeVer[r])])
        /\ ~Exists(log, r, epoch - 1) => \A s \in SlotIds : storeVer[r][s] = 0
    BY <2>1, Zenon DEF SerialInv, Landed
  <2>3. storeVer[r] \in [SlotIds -> Nat] /\ \A s \in SlotIds : storeVer[r][s] < epoch
    BY <2>2, Basics DEF SerialInv, Types
  <2>4. Newest(Demote(storeVer[r], epoch)) = Newest(storeVer[r])
    BY <2>3, OldTags, Basics, Zenon
  <2> QED BY <2>2, <2>4, <1>1, Basics, Zenon DEF RollbackBase
<1>3. ~(marker' < 2) /\ 1 \in SlotIds
  BY Basics DEF SlotIds
<1> QED BY <1>1, <1>2, <1>3, Zenon DEF Recoverable

(* The marker moves once every stager has drained, before any submits.     *)
LEMMA BumpRecoveryMarkerKeeps == ASSUME SerialInv, BumpRecoveryMarker PROVE SerialInv'
<1>f. /\ UNCHANGED <<log, isDurable, overlap, storeVer, storeVal, cached, dirty, gather>>
      /\ UNCHANGED <<packed, work, landing, undo, crashes>>
      /\ pc = "drain" /\ todo = {}
      /\ marker' = IF isDurable THEN epoch + 1 ELSE marker
  BY Zenon DEF BumpRecoveryMarker, config, flushing
<1>i. InFlight' = InFlight
  BY <1>f, Zenon DEF InFlight
<1>p. pc \in Executed /\ pc \notin Down /\ Running /\ gather = {}
  BY <1>f, Zenon DEF Executed, Down, Running, SerialInv, Bound
<1>1. CASE overlap /\ ~isDurable
  <2>1. Advance /\ marker' = marker
    BY <1>1, <1>f, Zenon DEF BumpRecoveryMarker, DeferSubmit
  <2>2. \A t : Done(t) = epoch /\ ~Unflushed(t) /\ ~Marked(t) /\ ~Waiting(t)
    BY <1>1, <1>f, Zenon DEF Done, Unflushed, Behind, Marked, Waiting
  <2>3. dirty = {} /\ packed = {}
    BY <2>2, <1>f, Zenon DEF SerialInv, Marks
  <2>4. \A t : Done(t)' = Done(t) /\ ~Unflushed(t)'
    BY <2>1, <2>2, AdvanceDone, Zenon
  <2>5. /\ Recoverable' /\ Landed' /\ Aimed'
        /\ \A r \in Records, s \in SlotIds : EffTag(r, s)' = EffTag(r, s)
    BY <2>1, <2>4, <1>f, <1>i, <1>p, StoreKept, Zenon
  <2>6. \A x \in InFlight : overlap /\ x.rec \in log[epoch].write
    <3> SUFFICES ASSUME NEW x \in InFlight PROVE x.rec \in log[epoch].write
      BY <1>1, Zenon
    <3>1. Done(TableOf[x.rec]) = epoch
      BY <2>2, Zenon
    <3>2. x.rec \in log[Done(TableOf[x.rec])].write
      BY FlightEntry, Zenon
    <3> QED BY <3>1, <3>2, Zenon
  <2>7. Types' /\ Phase' /\ Placed' /\ Bound' /\ Marks' /\ Undoing'
    <3>1. work' \subseteq Entry /\ landing' \subseteq Entry
      BY <1>f, Zenon DEF SerialInv, Types
    <3> QED BY <3>1, <2>1, <2>3, <2>6, <1>1, <1>f, <1>i, <1>p, AdvanceKeeps, Zenon
  <2>8. CacheSerial'
    <3> SUFFICES ASSUME NEW r \in Records, cached[r] # None PROVE Coherent(r)'
      BY <2>4, <1>f, Zenon DEF CacheSerial
    <3>1. Coherent(r)
      BY <2>2, <1>p, Zenon DEF SerialInv, CacheSerial
    <3> QED BY <3>1, <2>4, <2>5, <1>f, Zenon DEF Coherent
  <2> QED BY <2>5, <2>7, <2>8, Zenon DEF SerialInv
<1>2. CASE ~overlap \/ isDurable
  <2>1. /\ epoch' = epoch /\ todo' = Tables
        /\ pc' = IF overlap THEN "submit" ELSE "flush"
    BY <1>2, Zenon DEF BumpRecoveryMarker, DeferSubmit
  <2>2. pc' \in Executed /\ pc' \notin Down /\ Running'
    BY <2>1, Zenon DEF Executed, Down, Running
  <2>3. InFlight = {}
    BY <1>2, <1>f, Zenon DEF SerialInv, Placed
  <2>4. \A t \in Tables : /\ Done(t) = epoch - 1 /\ Done(t)' = epoch - 1
                          /\ Unflushed(t) /\ Unflushed(t)'
                          /\ Marked(t)' <=> Marked(t)
                          /\ Waiting(t)' <=> Waiting(t)
    BY <2>1, <2>2, <1>2, <1>f, <1>p, Zenon DEF Done, Unflushed, Behind, Marked, Waiting
  <2>5. Recoverable'
    <3>1. CASE isDurable
      <4>1. marker' = epoch + 1
        BY <3>1, <1>f, Zenon
      <4> QED BY <4>1, <2>3, <2>4, <1>f, <1>p, MarkerRecoverable, Zenon
    <3>2. CASE ~isDurable
      BY <3>2, <1>f, Zenon DEF Recoverable
    <3> QED BY <3>1, <3>2, Zenon
  <2>6. \A r \in Records : Done(TableOf[r])' = Done(TableOf[r])
    BY <2>4, Basics, Zenon
  <2>7. Landed' /\ Aimed' /\ Placed'
    BY <2>3, <2>6, <1>f, <1>i, <1>p, Zenon DEF SerialInv, Landed, Aimed, Placed
  <2>8. \A r \in Records : /\ \A s \in SlotIds : EffTag(r, s)' = EffTag(r, s)
                           /\ Target(r)' = Target(r)
    <3>1. \A r \in Records, s \in SlotIds : EffTag(r, s)' = EffTag(r, s)
      BY <2>6, <1>f, <1>i, Zenon DEF EffTag
    <3> QED BY <3>1, Zenon DEF Target, SlotIds
  <2>9. CacheSerial'
    <3> SUFFICES ASSUME NEW r \in Records, cached[r] # None
                 PROVE  IF r \in log[epoch].write THEN Written(r)' ELSE Coherent(r)'
      BY <2>1, <2>4, <1>f, Basics, Zenon DEF CacheSerial
    <3>1. Target(r) \in SlotIds /\ Other(Target(r)) \in SlotIds
      BY TwoSlots, Zenon DEF Target, SlotIds
    <3>2. Written(r) => Written(r)'
      BY <3>1, <2>1, <2>8, <1>f, Zenon DEF Written
    <3>3. Coherent(r) => Coherent(r)'
      BY <2>6, <2>8, <1>f, Zenon DEF Coherent
    <3> QED BY <3>2, <3>3, <2>4, <1>p, Basics, Zenon DEF SerialInv, CacheSerial
  <2>10. Marks'
    <3>1. \A d \in dirty : d \in Records \X SlotIds /\ Marked(TableOf[d[1]])
      BY <1>f, Zenon DEF SerialInv, Marks
    <3>2. \A d \in dirty : TableOf[d[1]] \in Tables
      BY <3>1, Basics, Zenon
    <3>3. \A x \in packed : TableOf[x.rec] \in Tables
      BY Basics, Zenon DEF SerialInv, Types, Entry
    <3>4. \A t \in Tables : FlushSet(t)' = FlushSet(t)
      BY <2>1, <1>f, Zenon DEF FlushSet, EntryOf
    <3>5. \A r \in Records, s \in SlotIds : Marked(TableOf[r])' =>
             (<<r, s>> \in dirty' <=> r \in log'[epoch'].write /\ s = Target(r)')
      BY <2>1, <2>4, <2>8, <1>f, Basics, Zenon DEF SerialInv, Marks
    <3>6. \A t \in Tables : Waiting(t)' => {x \in packed' : TableOf[x.rec] = t} = FlushSet(t)'
      BY <3>4, <2>4, <1>f, Zenon DEF SerialInv, Marks
    <3>7. \A x \in packed' : Waiting(TableOf[x.rec])'
      BY <3>3, <2>4, <1>f, Zenon DEF SerialInv, Marks
    <3> QED BY <3>1, <3>2, <3>5, <3>6, <3>7, <2>4, <1>f, Zenon DEF Marks
  <2>11. Types'
    <3>1. marker' \in 0 .. NEpochs + 1
      BY <1>f, Basics DEF SerialInv, Types
    <3> QED BY <3>1, <2>1, <2>2, <1>f, Zenon DEF SerialInv, Types, LogOK, ProgramPoints
  <2>12. Phase'
    BY <2>1, <2>2, <1>2, <1>f, Zenon DEF Phase
  <2>13. Bound' /\ Undoing'
    BY <2>1, <2>2, <1>f, <1>p, Zenon DEF SerialInv, Bound, Undoing
  <2> QED BY <2>5, <2>7, <2>9, <2>10, <2>11, <2>12, <2>13, Zenon DEF SerialInv
<1> QED BY <1>1, <1>2, Zenon

(* A worker gets the flush set of its table.                               *)
LEMMA SubmitFlushWorkerKeeps ==
    ASSUME SerialInv, NEW t \in Tables, SubmitFlushWorker(t) PROVE SerialInv'
<1> DEFINE mine == {x \in packed : TableOf[x.rec] = t}
<1>f. /\ UNCHANGED <<log, isDurable, overlap, storeVer, storeVal, marker, cached, dirty>>
      /\ UNCHANGED <<gather, landing, undo, crashes>>
      /\ pc = "submit" /\ t \in todo /\ Idle(t)
      /\ work' = work \cup mine /\ packed' = packed \ mine
      /\ \/ todo = {t} /\ Advance
         \/ todo # {t} /\ todo' = todo \ {t} /\ epoch' = epoch /\ pc' = pc
  BY Zenon DEF SubmitFlushWorker, config, store
<1>p. /\ pc \in Executed /\ pc \notin Down /\ Running /\ gather = {} /\ overlap /\ isDurable
      /\ marker = epoch + 1
  BY <1>f, Zenon DEF Executed, Down, Running, SerialInv, Bound, Phase
<1>m. /\ Unflushed(t) /\ Waiting(t)
      /\ \A u : ~Marked(u)
      /\ \A u : Waiting(u) <=> u \in todo
      /\ \A u : Behind(u) <=> u \in todo
  BY <1>f, <1>p, Zenon DEF Unflushed, Behind, Waiting, Marked
<1>d. dirty = {}
  BY <1>m, <1>f, Zenon DEF SerialInv, Marks
<1>c. mine = FlushSet(t) /\ FlushSet(t) \subseteq Entry
      /\ (\A x \in FlushSet(t) : TableOf[x.rec] = t /\ x.rec \in log[epoch].write)
      /\ \A x \in packed : TableOf[x.rec] \in todo
  <2>1. mine = FlushSet(t) /\ \A x \in packed : TableOf[x.rec] \in todo
    BY <1>m, Zenon DEF SerialInv, Marks
  <2> QED BY <2>1, FlushSetEntries, Zenon
<1>i. InFlight' = InFlight \cup FlushSet(t)
  BY <1>c, <1>f, Zenon DEF InFlight
<1>y. work' \subseteq Entry /\ landing' \subseteq Entry
  BY <1>c, <1>f, Zenon DEF SerialInv, Types
<1>1. CASE todo = {t} /\ Advance
  <2>1. \A u : Done(u)' = epoch /\ ~Unflushed(u)'
    BY <1>1, AdvanceDone, Zenon
  <2>2. \A u : u # t => Done(u) = epoch /\ ~Unflushed(u)
    BY <1>1, <1>m, Zenon DEF Done, Unflushed
  <2>3. Running'
    BY <1>1, AdvanceDone, Zenon
  <2>4. Recoverable' /\ Landed' /\ Aimed' /\ CacheSerial'
    BY <2>1, <2>2, <2>3, <1>m, <1>p, <1>f, <1>i, HandedOver, Zenon
  <2>5. packed' = {}
    BY <1>1, <1>c, <1>f, Zenon
  <2>6. \A x \in InFlight' : overlap /\ x.rec \in log[epoch].write
    <3> SUFFICES ASSUME NEW x \in InFlight PROVE x.rec \in log[epoch].write
      BY <1>c, <1>i, <1>p, Zenon
    <3>1. TableOf[x.rec] # t
      BY <1>f, Zenon DEF Idle, InFlight
    <3>2. Done(TableOf[x.rec]) = epoch
      BY <3>1, <2>2, Zenon
    <3>3. x.rec \in log[Done(TableOf[x.rec])].write
      BY FlightEntry, Zenon
    <3> QED BY <3>2, <3>3, Zenon
  <2>7. Types' /\ Phase' /\ Placed' /\ Bound' /\ Marks' /\ Undoing'
    BY <2>5, <2>6, <1>1, <1>d, <1>f, <1>p, <1>y, AdvanceKeeps, Zenon
  <2> QED BY <2>4, <2>7, Zenon DEF SerialInv
<1>2. CASE todo # {t} /\ todo' = todo \ {t} /\ epoch' = epoch /\ pc' = pc
  <2>1. pc' \in Executed /\ pc' \notin Down /\ Running'
    BY <1>2, <1>p, Zenon DEF Running
  <2>2. /\ \A u : Behind(u)' <=> u \in todo /\ u # t
        /\ \A u : ~Marked(u)'
        /\ \A u : Waiting(u)' <=> u \in todo /\ u # t
    BY <1>2, <1>f, Zenon DEF Behind, Marked, Waiting
  <2>3. /\ Done(t)' = epoch /\ ~Unflushed(t)'
        /\ \A u : u # t => Done(u)' = Done(u) /\ (Unflushed(u)' <=> Unflushed(u))
    BY <2>1, <2>2, <1>2, <1>m, <1>p, Zenon DEF Done, Unflushed
  <2>4. Recoverable' /\ Landed' /\ Aimed' /\ CacheSerial'
    BY <2>1, <2>3, <1>2, <1>m, <1>p, <1>f, <1>i, HandedOver, Zenon
  <2>5. Types'
    <3>1. packed' \subseteq Entry
      BY <1>f, Zenon DEF SerialInv, Types
    <3> QED BY <3>1, <1>2, <1>f, <1>y, Zenon DEF SerialInv, Types, LogOK
  <2>6. Phase'
    BY <1>2, <1>f, <1>p, Zenon DEF SerialInv, Phase
  <2>7. Placed'
    <3>1. \A x \in InFlight' : TableOf[x.rec] \notin todo'
      BY <1>2, <1>c, <1>f, <1>i, Zenon DEF SerialInv, Placed
    <3> QED BY <3>1, <2>1, <1>2, <1>f, <1>p, Zenon DEF Placed
  <2>8. Bound' /\ Undoing'
    BY <2>1, <1>2, <1>f, <1>p, Zenon DEF SerialInv, Bound, Undoing
  <2>9. Marks'
    <3>1. \A u \in Tables : FlushSet(u)' = FlushSet(u)
      BY <1>2, <1>f, Zenon DEF FlushSet, EntryOf
    <3>2. ASSUME NEW u \in Tables, Waiting(u)'
          PROVE  {x \in packed' : TableOf[x.rec] = u} = FlushSet(u)'
      <4>1. u # t /\ Waiting(u)
        BY <3>2, <2>2, <1>m, Zenon
      <4>2. {x \in packed : TableOf[x.rec] = u} = FlushSet(u)
        BY <4>1, Zenon DEF SerialInv, Marks
      <4> QED BY <4>1, <4>2, <3>1, <1>f, Zenon
    <3>3. \A x \in packed' : Waiting(TableOf[x.rec])'
      BY <2>2, <1>c, <1>f, Zenon
    <3> QED BY <3>2, <3>3, <2>2, <1>d, <1>f, Zenon DEF Marks
  <2> QED BY <2>4, <2>5, <2>6, <2>7, <2>8, <2>9, Zenon DEF SerialInv
<1> QED BY <1>f, <1>1, <1>2, Zenon

(* Without overlap the main thread takes the flush set of one table.       *)
LEMMA PeriodicFlushKeeps ==
    ASSUME SerialInv, NEW t \in Tables, PeriodicFlush(t) PROVE SerialInv'
<1>f. /\ UNCHANGED <<log, isDurable, overlap, storeVer, storeVal, marker, epoch, todo>>
      /\ UNCHANGED <<cached, dirty, gather, packed, landing, undo, crashes>>
      /\ pc = "flush" /\ pc' = "landing" /\ t \in todo /\ t = First(FlushOrder)
      /\ work' = PackedOf(t)
  BY Zenon DEF PeriodicFlush, config, store
<1>p. /\ pc \in Executed /\ pc \notin Down /\ Running /\ gather = {} /\ ~overlap
      /\ pc' \in Executed /\ pc' \notin Down /\ Running'
      /\ isDurable => marker = epoch + 1
  BY <1>f, Zenon DEF Executed, Down, Running, SerialInv, Bound, Phase
<1>e. InFlight = {} /\ Idle(t) /\ landing = {}
  BY <1>f, Zenon DEF SerialInv, Placed, Idle, InFlight
<1>o. First(FlushOrder)' = First(FlushOrder)
  BY <1>f, Zenon DEF First
<1>m. /\ \A u : Behind(u) <=> u \in todo
      /\ \A u : Behind(u)' <=> u \in todo /\ u # t
      /\ \A u : Marked(u) <=> u \in todo
      /\ \A u : Marked(u)' <=> u \in todo /\ u # t
      /\ \A u : ~Waiting(u) /\ ~Waiting(u)'
  BY <1>f, <1>o, Zenon DEF Behind, Marked, Waiting
<1>u. /\ Unflushed(t) /\ ~Unflushed(t)' /\ Done(t)' = epoch
      /\ \A u : u # t => Done(u)' = Done(u) /\ (Unflushed(u)' <=> Unflushed(u))
  BY <1>f, <1>m, <1>p, Zenon DEF Done, Unflushed
<1>c. PackedOf(t) = FlushSet(t) /\ FlushSet(t) \subseteq Entry
      /\ \A x \in FlushSet(t) : TableOf[x.rec] = t
  BY <1>e, <1>m, <1>f, CollectedSet, FlushSetEntries, Zenon
<1>i. InFlight' = InFlight \cup FlushSet(t)
  BY <1>c, <1>e, <1>f, Zenon DEF InFlight
<1>1. /\ Recoverable' /\ Landed' /\ Aimed' /\ CacheSerial'
      /\ \A r \in Records : TableOf[r] # t => Target(r)' = Target(r)
  BY <1>u, <1>i, <1>e, <1>p, <1>f, HandedOver, Zenon
<1>2. Types'
  BY <1>c, <1>f, <1>p, Zenon DEF SerialInv, Types, LogOK, ProgramPoints
<1>3. Phase'
  BY <1>f, <1>o, <1>p, Zenon DEF Phase
<1>4. Placed'
  BY <1>c, <1>e, <1>f, <1>i, <1>o, <1>p, Zenon DEF Placed
<1>5. Bound' /\ Undoing'
  BY <1>f, <1>p, Zenon DEF SerialInv, Bound, Undoing
<1>6. Marks'
  <2>1. \A d \in dirty : d \in Records \X SlotIds /\ TableOf[d[1]] \in todo
    BY <1>f, <1>m, Zenon DEF SerialInv, Marks
  <2>2. \A r \in Records, s \in SlotIds : Marked(TableOf[r])' =>
           (<<r, s>> \in dirty' <=> r \in log'[epoch'].write /\ s = Target(r)')
    BY <1>1, <1>f, <1>m, Zenon DEF SerialInv, Marks
  <2> QED BY <2>1, <2>2, <1>f, <1>m, <1>o, Zenon DEF SerialInv, Marks
<1> QED BY <1>1, <1>2, <1>3, <1>4, <1>5, <1>6, Zenon DEF SerialInv

(* The table has landed.                                                   *)
LEMMA PeriodicFlushDoneKeeps ==
    ASSUME SerialInv, NEW t \in Tables, PeriodicFlushDone(t) PROVE SerialInv'
<1>f. /\ UNCHANGED <<log, isDurable, overlap, storeVer, storeVal, marker, cached, gather>>
      /\ UNCHANGED <<packed, work, landing, undo, crashes>>
      /\ pc = "landing" /\ t \in todo /\ t = First(FlushOrder) /\ Idle(t)
      /\ dirty' = dirty \ DirtyOf(t)
      /\ \/ todo = {t} /\ Advance
         \/ todo # {t} /\ todo' = todo \ {t} /\ pc' = "flush" /\ epoch' = epoch
  BY Zenon DEF PeriodicFlushDone, config, store, flushing
<1>p. /\ pc \in Executed /\ pc \notin Down /\ Running /\ gather = {} /\ ~overlap
      /\ isDurable => marker = epoch + 1
  BY <1>f, Zenon DEF Executed, Down, Running, SerialInv, Bound, Phase
<1>e. InFlight = {} /\ InFlight' = InFlight
  BY <1>f, Zenon DEF SerialInv, Placed, Idle, InFlight
<1>m. /\ \A u : Behind(u) <=> u \in todo /\ u # t
      /\ \A u : Marked(u) <=> u \in todo /\ u # t
      /\ \A u : ~Waiting(u)
  BY <1>f, Zenon DEF Behind, Marked, Waiting
<1>k. packed = {} /\ packed' = {}
  BY <1>f, <1>m, Zenon DEF SerialInv, Marks
<1>d. \A d \in dirty' : /\ d \in dirty /\ d \in Records \X SlotIds
                        /\ TableOf[d[1]] # t /\ TableOf[d[1]] \in todo
  BY <1>f, <1>m, Zenon DEF SerialInv, Marks, DirtyOf
<1>1. CASE todo = {t} /\ Advance
  <2>1. \A u : Done(u)' = Done(u) /\ ~Unflushed(u)' /\ ~Unflushed(u)
    BY <1>1, <1>m, AdvanceDone, Zenon DEF Done, Unflushed
  <2>2. /\ Recoverable' /\ Landed' /\ Aimed'
        /\ \A r \in Records, s \in SlotIds : EffTag(r, s)' = EffTag(r, s)
    BY <2>1, <1>e, <1>f, <1>p, StoreKept, Zenon
  <2>3. dirty' = {}
    BY <1>1, <1>d, Zenon
  <2>4. Types' /\ Phase' /\ Placed' /\ Bound' /\ Marks' /\ Undoing'
    <3>1. work' \subseteq Entry /\ landing' \subseteq Entry
      BY <1>f, Zenon DEF SerialInv, Types
    <3> QED BY <3>1, <2>3, <1>1, <1>e, <1>f, <1>k, <1>p, AdvanceKeeps, ZenonT(40)
  <2>5. CacheSerial'
    <3> SUFFICES ASSUME NEW r \in Records, cached[r] # None PROVE Coherent(r)'
      BY <2>1, <1>f, Zenon DEF CacheSerial
    <3>1. Coherent(r)
      BY <2>1, <1>p, Zenon DEF SerialInv, CacheSerial
    <3> QED BY <3>1, <2>1, <2>2, <1>f, Zenon DEF Coherent
  <2> QED BY <2>2, <2>4, <2>5, Zenon DEF SerialInv
<1>2. CASE todo # {t} /\ todo' = todo \ {t} /\ pc' = "flush" /\ epoch' = epoch
  <2>1. pc' \in Executed /\ pc' \notin Down /\ Running'
    BY <1>2, Zenon DEF Executed, Down, Running
  <2>2. /\ \A u : Behind(u)' <=> Behind(u)
        /\ \A u : Marked(u)' <=> Marked(u)
        /\ \A u : ~Waiting(u)'
    BY <1>2, <1>m, Zenon DEF Behind, Marked, Waiting
  <2>3. \A u : Done(u)' = Done(u) /\ (Unflushed(u)' <=> Unflushed(u))
    BY <2>1, <2>2, <1>2, <1>p, Zenon DEF Done, Unflushed
  <2>4. /\ Recoverable' /\ Landed' /\ Aimed'
        /\ \A r \in Records : /\ \A s \in SlotIds : EffTag(r, s)' = EffTag(r, s)
                              /\ Target(r)' = Target(r)
    BY <2>3, <1>e, <1>f, <1>p, StoreKept, Zenon
  <2>5. CacheSerial'
    <3> SUFFICES ASSUME NEW r \in Records, cached[r] # None
                 PROVE  IF Unflushed(TableOf[r]) /\ r \in log[epoch].write
                        THEN Written(r)' ELSE Coherent(r)'
      BY <2>3, <1>2, <1>f, Zenon DEF CacheSerial
    <3>1. Target(r) \in SlotIds /\ Other(Target(r)) \in SlotIds
      BY TwoSlots, Zenon DEF Target, SlotIds
    <3>2. Written(r) => Written(r)'
      BY <3>1, <2>4, <1>2, <1>f, Zenon DEF Written
    <3>3. Coherent(r) => Coherent(r)'
      BY <2>3, <2>4, <1>f, Zenon DEF Coherent
    <3> QED BY <3>2, <3>3, <1>p, Zenon DEF SerialInv, CacheSerial
  <2>6. Types'
    BY <2>1, <1>2, <1>f, Zenon DEF SerialInv, Types, LogOK, ProgramPoints
  <2>7. Phase'
    BY <2>1, <1>2, <1>f, <1>p, Zenon DEF Phase
  <2>8. Placed' /\ Bound' /\ Undoing'
    BY <2>1, <1>2, <1>e, <1>f, <1>p, ZenonT(40) DEF SerialInv, Placed, Bound, Undoing
  <2>9. Marks'
    <3>1. \A d \in dirty' : d \in Records \X SlotIds /\ Marked(TableOf[d[1]])'
      BY <2>2, <1>d, <1>m, Zenon
    <3>2. ASSUME NEW r \in Records, NEW s \in SlotIds, Marked(TableOf[r])'
          PROVE  <<r, s>> \in dirty' <=> r \in log[epoch].write /\ s = Target(r)'
      <4>1. TableOf[r] # t /\ Marked(TableOf[r])
        BY <3>2, <2>2, <1>m, Zenon
      <4>2. <<r, s>> \in dirty' <=> <<r, s>> \in dirty
        BY <4>1, <1>f, Zenon DEF DirtyOf
      <4> QED BY <4>1, <4>2, <2>4, Zenon DEF SerialInv, Marks
    <3> QED BY <3>1, <3>2, <2>2, <1>2, <1>f, <1>k, Zenon DEF Marks
  <2> QED BY <2>4, <2>5, <2>6, <2>7, <2>8, <2>9, Zenon DEF SerialInv
<1> QED BY <1>f, <1>1, <1>2, Zenon

(* The end of the run waits for one table after the other.                 *)
LEMMA FinalSyncKeeps ==
    ASSUME SerialInv, NEW t \in Tables, FinalSync(t) PROVE SerialInv'
<1>f. /\ UNCHANGED <<log, isDurable, overlap, storeVer, storeVal, marker, epoch, cached>>
      /\ UNCHANGED <<dirty, gather, packed, work, landing, undo, crashes>>
      /\ pc = "final" /\ t \in todo /\ (overlap => Idle(t)) /\ todo' = todo \ {t}
      /\ pc' = IF todo = {t} THEN "done" ELSE pc
  BY Zenon DEF FinalSync, config, store, flushing
<1>i. InFlight' = InFlight
  BY <1>f, Zenon DEF InFlight
<1>p. /\ pc' \in {"final", "done"}
      /\ pc \notin Executed /\ pc \notin Down /\ Running /\ pc' \notin Executed /\ pc' \notin Down
  BY <1>f, Zenon DEF Executed, Down, Running
<1>m. /\ \A u : Done(u)' = Done(u) /\ ~Unflushed(u) /\ ~Unflushed(u)'
      /\ \A u : ~Marked(u) /\ ~Marked(u)' /\ ~Waiting(u) /\ ~Waiting(u)'
  BY <1>f, <1>p, Zenon DEF Behind, Done, Unflushed, Marked, Waiting
<1>1. /\ Recoverable' /\ Landed' /\ Aimed'
      /\ \A r \in Records, s \in SlotIds : EffTag(r, s)' = EffTag(r, s)
  BY <1>f, <1>i, <1>m, <1>p, StoreKept, Zenon
<1>2. Types'
  BY <1>f, <1>p, Zenon DEF SerialInv, Types, LogOK, ProgramPoints
<1>3. Phase'
  BY <1>f, <1>p, Zenon DEF SerialInv, Phase
<1>4. Placed'
  <2>1. \A x \in InFlight : /\ overlap /\ TableOf[x.rec] \in todo' /\ x.rec \notin gather
                            /\ pc' = "final"
    BY <1>f, Zenon DEF SerialInv, Placed, Idle, InFlight
  <2> QED BY <2>1, <1>f, <1>i, <1>p, Zenon DEF Placed
<1>5. Bound' /\ Undoing'
  BY <1>f, <1>p, Zenon DEF SerialInv, Bound, Undoing
<1>6. Marks'
  BY <1>f, <1>m, Zenon DEF SerialInv, Marks
<1>7. CacheSerial'
  <2> SUFFICES ASSUME NEW r \in Records, cached[r] # None, r \notin gather PROVE Coherent(r)'
    BY <1>f, <1>m, Zenon DEF CacheSerial
  <2>1. Coherent(r)
    BY <1>m, Zenon DEF SerialInv, CacheSerial
  <2> QED BY <2>1, <1>1, <1>f, <1>m, Zenon DEF Coherent
<1> QED BY <1>1, <1>2, <1>3, <1>4, <1>5, <1>6, <1>7, Zenon DEF SerialInv

--------------------------------------------------------------------------------
(* The workers.                                                            *)

(* Landing epoch k in the version rollback does not return to: readers now *)
(* use it, and rollback of epoch k still returns to the other one.         *)
LEMMA LandsBeside ==
    ASSUME NEW t \in [SlotIds -> Nat], NEW u \in [SlotIds -> Nat], NEW s \in SlotIds,
           NEW k \in Nat \ {0}, t[Other(s)] < k, s # Newest(Demote(t, k)),
           u[s] = k, u[Other(s)] = t[Other(s)]
    PROVE  Newest(u) = s /\ Newest(Demote(u, k)) = Newest(Demote(t, k))
BY DEF SlotIds, Other, Newest, Demote, DemoteTag

(* What Aimed says of one entry.                                           *)
LEMMA AimedEntry ==
    ASSUME SerialInv, NEW x \in InFlight, NEW k, k = Done(TableOf[x.rec])
    PROVE  /\ k \in Nat \ {0} /\ k \in 1 .. NEpochs /\ x.ver = k /\ x.val = k
           /\ x.rec \in log[k].write
           /\ storeVer[x.rec][Other(x.slot)] < k
           /\ x.slot # Newest(Demote(storeVer[x.rec], k))
           /\ isDurable => marker >= 2 /\ RecoveryPoint + 1 = k
           /\ Exists(log, x.rec, k) /\ Latest(log, x.rec, k, k)
           /\ \A y \in InFlight : y.rec = x.rec => y = x
<1>1. /\ k >= 1 /\ x.ver = k /\ x.val = k /\ x.rec \in log[k].write
      /\ storeVer[x.rec][Other(x.slot)] < k
      /\ x.slot # Newest(Demote(storeVer[x.rec], k))
      /\ isDurable => marker = k + 1
  BY Zenon DEF SerialInv, Aimed
<1>2. k \in Nat \ {0} /\ k \in 1 .. NEpochs
  BY <1>1, FlightEntry, Basics
<1>3. isDurable => marker >= 2 /\ RecoveryPoint + 1 = k
  BY <1>1, <1>2 DEF RecoveryPoint
<1>4. Exists(log, x.rec, k)
  <2>1. k - 1 \in Nat /\ (k - 1) + 1 = k
    BY <1>2
  <2>2. x.rec \in log[k].insert \/ Exists(log, x.rec, k - 1)
    BY <1>1, <1>2, TouchedRecord, Zenon
  <2> QED BY <2>1, <2>2, InsertAdds, Zenon
<1>5. Latest(log, x.rec, k, k)
  BY <1>1, <1>2, WriterWins, Zenon
<1>6. \A y \in InFlight : y.rec = x.rec => y = x
  BY Zenon DEF SerialInv, Aimed
<1> QED BY <1>1, <1>2, <1>3, <1>4, <1>5, <1>6, Zenon

(* A worker's step leaves everything but the store and the flight alone.   *)
LEMMA WorkerFrame ==
    ASSUME SerialInv, NEW x \in InFlight,
           UNCHANGED <<log, isDurable, overlap, marker, epoch, pc, todo, cached, dirty>>,
           UNCHANGED <<gather, packed, undo, crashes>>,
           InFlight' \subseteq InFlight, work' \subseteq Entry, landing' \subseteq Entry,
           storeVer' \in [Records -> [SlotIds -> Nat]],
           storeVal' \in [Records -> [SlotIds -> Int]],
           \A r \in Records : r # x.rec => storeVer'[r] = storeVer[r],
           \A r \in Records, s \in SlotIds : EffTag(r, s)' = EffTag(r, s)
    PROVE  /\ \A t : Done(t)' = Done(t)
           /\ Types' /\ Phase' /\ Placed' /\ Bound' /\ CacheSerial' /\ Marks' /\ Undoing'
<1>d. \A t : /\ Done(t)' = Done(t) /\ (Behind(t)' <=> Behind(t))
             /\ (Unflushed(t)' <=> Unflushed(t))
             /\ (Marked(t)' <=> Marked(t)) /\ (Waiting(t)' <=> Waiting(t))
  BY Zenon DEF Done, Behind, Unflushed, Marked, Waiting, First
<1>t. \A r \in Records : Target(r)' = Target(r)
  BY Zenon DEF Target, SlotIds
<1>1. Types'
  BY ZenonT(40) DEF SerialInv, Types, LogOK
<1>2. Phase'
  BY DEF SerialInv, Phase, First
<1>3. Placed'
  BY Zenon DEF SerialInv, Placed, First
<1>4. Bound'
  BY Zenon DEF SerialInv, Bound
<1>5. CacheSerial'
  <2> SUFFICES ASSUME NEW r \in Records, cached[r] # None
               PROVE  IF Unflushed(TableOf[r]) /\ r \in log[epoch].write
                      THEN Written(r)' ELSE Coherent(r)' \/ r \in gather
    BY <1>d, Zenon DEF CacheSerial
  <2>1. Target(r) \in SlotIds /\ Other(Target(r)) \in SlotIds
    BY TwoSlots, Zenon DEF Target, SlotIds
  <2>2. Written(r) => Written(r)'
    BY <2>1, <1>t, Zenon DEF Written
  <2>3. Coherent(r) => Coherent(r)'
    BY <1>d, Zenon DEF Coherent
  <2> QED BY <2>2, <2>3, Zenon DEF SerialInv, CacheSerial
<1>6. Marks'
  <2>1. ASSUME NEW t \in Tables, Waiting(t) PROVE FlushSet(t)' = FlushSet(t)
    <3>1. TableOf[x.rec] # t
      BY <2>1, Zenon DEF Waiting, SerialInv, Placed
    <3>2. \A r \in log[epoch].write \cap Of(t) : EntryOf(r)' = EntryOf(r)
      BY <3>1, Zenon DEF EntryOf, Of
    <3> QED BY <3>2, Zenon DEF FlushSet, Of
  <2>2. \A t \in Tables : Waiting(t)' => {y \in packed' : TableOf[y.rec] = t} = FlushSet(t)'
    BY <2>1, <1>d, Zenon DEF SerialInv, Marks
  <2>3. \A r \in Records, s \in SlotIds : Marked(TableOf[r])' =>
           (<<r, s>> \in dirty' <=> r \in log'[epoch'].write /\ s = Target(r)')
    BY <1>d, <1>t, Zenon DEF SerialInv, Marks
  <2>4. \A y \in packed' : Waiting(TableOf[y.rec])'
    BY <1>d, Zenon DEF SerialInv, Marks
  <2>5. \A d \in dirty' : /\ d \in Records \X SlotIds
                          /\ \/ Marked(TableOf[d[1]])'
                             \/ pc' = "landing" /\ TableOf[d[1]] = First(FlushOrder)'
    BY <1>d, Zenon DEF SerialInv, Marks, First
  <2> QED BY <2>2, <2>3, <2>4, <2>5, Zenon DEF Marks
<1>7. Undoing'
  BY Zenon DEF SerialInv, Placed, Undoing, Down
<1> QED BY <1>d, <1>1, <1>2, <1>3, <1>4, <1>5, <1>6, <1>7, Zenon

(* A torn value is in the version nobody reads or rolls back to.           *)
LEMMA ScatterValueKeeps ==
    ASSUME SerialInv, NEW x \in work, ScatterValue(x) PROVE SerialInv'
<1> DEFINE k == Done(TableOf[x.rec])
<1>f. /\ UNCHANGED <<log, isDurable, overlap, storeVer, marker, epoch, pc, todo, cached>>
      /\ UNCHANGED <<dirty, gather, packed, undo, crashes>>
      /\ work' = work \ {x} /\ landing' = landing \cup {x}
      /\ storeVal' = [storeVal EXCEPT ![x.rec][x.slot] = IF @ = x.val THEN @ ELSE Junk]
  BY Zenon DEF ScatterValue, config
<1>i. x \in InFlight /\ InFlight' = InFlight
  BY <1>f, Zenon DEF InFlight
<1>x. x.rec \in Records /\ x.slot \in SlotIds /\ x \in Entry
  BY <1>i, FlightEntry, Zenon
<1>d. \A t : Done(t)' = Done(t)
  BY <1>f, Zenon DEF Done, Behind, First
<1>e. \A r \in Records, s \in SlotIds : EffTag(r, s)' = EffTag(r, s)
  BY <1>d, <1>f, <1>i, Zenon DEF EffTag
<1>y. /\ storeVal' \in [Records -> [SlotIds -> Int]]
      /\ \A r \in Records, s \in SlotIds : r # x.rec \/ s # x.slot => storeVal'[r][s] = storeVal[r][s]
  BY <1>f, <1>x DEF SerialInv, Types, Junk
<1>1. Types' /\ Phase' /\ Placed' /\ Bound' /\ CacheSerial' /\ Marks' /\ Undoing'
  <2>1. work' \subseteq Entry /\ landing' \subseteq Entry /\ InFlight' \subseteq InFlight
    BY <1>f, <1>i, <1>x, Zenon DEF SerialInv, Types
  <2>2. storeVer' \in [Records -> [SlotIds -> Nat]]
    BY <1>f, Zenon DEF SerialInv, Types
  <2> QED BY <2>1, <2>2, <1>e, <1>f, <1>i, <1>y, WorkerFrame, Zenon
<1>2. Recoverable'
  <2> SUFFICES ASSUME isDurable, NEW r \in Records PROVE RollbackBase(r)' = RollbackBase(r)
    BY <1>f, Zenon DEF SerialInv, Recoverable, RecoveryPoint
  <2>1. CASE r # x.rec
    BY <2>1, <1>f, <1>y, SlotRange, Zenon DEF RollbackBase, RecoveryPoint
  <2>2. CASE r = x.rec
    <3>1. x.slot # Newest(Demote(storeVer[r], k)) /\ RecoveryPoint + 1 = k
      BY <2>2, <1>i, AimedEntry, Zenon
    <3>2. RecoveryPoint' = RecoveryPoint
      BY <1>f, Zenon DEF RecoveryPoint
    <3>3. Newest(Demote(storeVer[r], k)) \in SlotIds
      BY SlotRange, Zenon
    <3>4. storeVal'[r][Newest(Demote(storeVer[r], k))] = storeVal[r][Newest(Demote(storeVer[r], k))]
      BY <3>1, <3>3, <1>y, Zenon
    <3> QED BY <3>1, <3>2, <3>4, <1>f, Zenon DEF RollbackBase
  <2> QED BY <2>1, <2>2, Zenon
<1>3. Landed'
  <2> SUFFICES ASSUME Running, NEW r \in Records, \A y \in InFlight : y.rec # r
               PROVE  storeVal'[r][Newest(storeVer[r])] = storeVal[r][Newest(storeVer[r])]
    BY <1>d, <1>f, <1>i, Zenon DEF SerialInv, Landed, Running
  <2> QED BY <1>i, <1>y, SlotRange, Zenon
<1>4. Aimed'
  BY <1>d, <1>f, <1>i, ZenonT(40) DEF SerialInv, Aimed
<1> QED BY <1>1, <1>2, <1>3, <1>4, Zenon DEF SerialInv

(* Once the tag is stored, the record has landed.                          *)
LEMMA ScatterTagKeeps ==
    ASSUME SerialInv, NEW x \in landing, ScatterTag(x) PROVE SerialInv'
<1> DEFINE k == Done(TableOf[x.rec])
<1>f. /\ UNCHANGED <<log, isDurable, overlap, marker, epoch, pc, todo, cached>>
      /\ UNCHANGED <<dirty, gather, packed, work, undo, crashes>>
      /\ landing' = landing \ {x}
      /\ storeVal' = [storeVal EXCEPT ![x.rec][x.slot] = x.val]
      /\ storeVer' = [storeVer EXCEPT ![x.rec][x.slot] = x.ver]
  BY Zenon DEF ScatterTag, config
<1>i. x \in InFlight /\ InFlight' \subseteq InFlight /\ \A y \in InFlight : y # x => y \in InFlight'
  BY <1>f, Zenon DEF InFlight
<1>x. x.rec \in Records /\ x.slot \in SlotIds /\ x \in Entry
  BY <1>i, FlightEntry, Zenon
<1>a. /\ k \in Nat \ {0} /\ x.ver = k /\ x.val = k
      /\ storeVer[x.rec][Other(x.slot)] < k
      /\ x.slot # Newest(Demote(storeVer[x.rec], k))
      /\ isDurable => marker >= 2 /\ RecoveryPoint + 1 = k
      /\ Exists(log, x.rec, k) /\ Latest(log, x.rec, k, k)
      /\ \A y \in InFlight : y.rec = x.rec => y = x
  BY <1>i, AimedEntry, Zenon
<1>d. RecoveryPoint' = RecoveryPoint /\ \A t : Done(t)' = Done(t)
  BY <1>f, Zenon DEF Done, Behind, First, RecoveryPoint
<1>y. /\ storeVal' \in [Records -> [SlotIds -> Int]] /\ storeVer' \in [Records -> [SlotIds -> Nat]]
      /\ storeVer'[x.rec][x.slot] = k /\ storeVal'[x.rec][x.slot] = k
      /\ \A s \in SlotIds : s # x.slot => /\ storeVer'[x.rec][s] = storeVer[x.rec][s]
                                          /\ storeVal'[x.rec][s] = storeVal[x.rec][s]
      /\ \A r \in Records : r # x.rec => storeVal'[r] = storeVal[r] /\ storeVer'[r] = storeVer[r]
  <2> HIDE DEF k
  <2>0. x.ver \in Nat /\ x.val \in Int
    BY <1>a
  <2>1. storeVer \in [Records -> [SlotIds -> Nat]] /\ storeVal \in [Records -> [SlotIds -> Int]]
    BY Zenon DEF SerialInv, Types
  <2>2. /\ storeVer' \in [Records -> [SlotIds -> Nat]] /\ storeVer'[x.rec][x.slot] = x.ver
        /\ \A s \in SlotIds : s # x.slot => storeVer'[x.rec][s] = storeVer[x.rec][s]
        /\ \A r \in Records : r # x.rec => storeVer'[r] = storeVer[r]
    BY <2>0, <2>1, <1>f, <1>x, Zenon
  <2>3. /\ storeVal' \in [Records -> [SlotIds -> Int]] /\ storeVal'[x.rec][x.slot] = x.val
        /\ \A s \in SlotIds : s # x.slot => storeVal'[x.rec][s] = storeVal[x.rec][s]
        /\ \A r \in Records : r # x.rec => storeVal'[r] = storeVal[r]
    BY <2>0, <2>1, <1>f, <1>x, Zenon
  <2> QED BY <2>2, <2>3, <1>a, Zenon
<1>n. /\ Newest(storeVer'[x.rec]) = x.slot
      /\ Newest(Demote(storeVer'[x.rec], k)) = Newest(Demote(storeVer[x.rec], k))
  <2>1. storeVer[x.rec] \in [SlotIds -> Nat] /\ storeVer'[x.rec] \in [SlotIds -> Nat]
    BY <1>x, <1>y, Zenon DEF SerialInv, Types
  <2>2. storeVer'[x.rec][Other(x.slot)] = storeVer[x.rec][Other(x.slot)]
    BY <1>x, <1>y, TwoSlots, Zenon
  <2>3. \A t, u \in [SlotIds -> Nat], s \in SlotIds, j \in Nat \ {0} :
           /\ t[Other(s)] < j /\ s # Newest(Demote(t, j)) /\ u[s] = j /\ u[Other(s)] = t[Other(s)]
           => Newest(u) = s /\ Newest(Demote(u, j)) = Newest(Demote(t, j))
    BY LandsBeside
  <2> QED BY <2>1, <2>2, <2>3, <1>a, <1>x, <1>y, ZenonT(60)
<1>e. ASSUME NEW r \in Records, NEW s \in SlotIds PROVE EffTag(r, s)' = EffTag(r, s)
  <2>1. CASE r # x.rec
    <3>1. (\E y \in InFlight' : y.rec = r /\ y.slot = s)
             <=> \E y \in InFlight : y.rec = r /\ y.slot = s
      BY <2>1, <1>i, Zenon
    <3> QED BY <3>1, <2>1, <1>d, <1>y, Zenon DEF EffTag
  <2>2. CASE r = x.rec /\ s = x.slot
    <3>1. EffTag(r, s) = k
      BY <2>2, <1>i, Zenon DEF EffTag
    <3>2. EffTag(r, s)' = k
      BY <2>2, <1>d, <1>y, Zenon DEF EffTag
    <3> QED BY <3>1, <3>2, Zenon
  <2>3. CASE r = x.rec /\ s # x.slot
    <3>1. /\ ~\E y \in InFlight : y.rec = r /\ y.slot = s
          /\ ~\E y \in InFlight' : y.rec = r /\ y.slot = s
      BY <2>3, <1>a, <1>i, Zenon
    <3> QED BY <3>1, <2>3, <1>y, Zenon DEF EffTag
  <2> QED BY <2>1, <2>2, <2>3, Zenon
<1>1. Types' /\ Phase' /\ Placed' /\ Bound' /\ CacheSerial' /\ Marks' /\ Undoing'
  <2>1. work' \subseteq Entry /\ landing' \subseteq Entry
    BY <1>f, Zenon DEF SerialInv, Types
  <2> QED BY <2>1, <1>e, <1>f, <1>i, <1>y, WorkerFrame, Zenon
<1>2. Recoverable'
  <2> SUFFICES ASSUME isDurable, NEW r \in Records
               PROVE  /\ Exists(log, r, RecoveryPoint) =>
                            Latest(log, r, RecoveryPoint, RollbackBase(r)')
                      /\ \E s \in SlotIds : storeVer'[r][s] <= RecoveryPoint
                      /\ ~Exists(log, r, RecoveryPoint) =>
                            \A s \in SlotIds : storeVer'[r][s] = 0 \/ storeVer'[r][s] > RecoveryPoint
                      /\ marker < 2 => \A s \in SlotIds : storeVer'[r][s] = 0
    BY <1>d, <1>f, Zenon DEF Recoverable
  <2>1. /\ Exists(log, r, RecoveryPoint) => Latest(log, r, RecoveryPoint, RollbackBase(r))
        /\ \E s \in SlotIds : storeVer[r][s] <= RecoveryPoint
        /\ ~Exists(log, r, RecoveryPoint) =>
              \A s \in SlotIds : storeVer[r][s] = 0 \/ storeVer[r][s] > RecoveryPoint
        /\ marker < 2 => \A s \in SlotIds : storeVer[r][s] = 0
    BY Zenon DEF SerialInv, Recoverable
  <2>2. CASE r # x.rec
    <3>1. RollbackBase(r)' = RollbackBase(r)
      BY <2>2, <1>d, <1>y, Zenon DEF RollbackBase
    <3> QED BY <3>1, <2>1, <2>2, <1>y, Zenon
  <2>3. CASE r = x.rec
    <3>1. RollbackBase(r)' = RollbackBase(r)
      <4>1. Newest(Demote(storeVer[r], k)) \in SlotIds
        BY SlotRange, Zenon
      <4>2. storeVal'[r][Newest(Demote(storeVer[r], k))] = storeVal[r][Newest(Demote(storeVer[r], k))]
        BY <4>1, <2>3, <1>a, <1>y, ZenonT(40)
      <4> QED BY <4>2, <2>3, <1>a, <1>d, <1>n, ZenonT(40) DEF RollbackBase
    <3>2. storeVer'[r][Other(x.slot)] <= RecoveryPoint /\ Other(x.slot) \in SlotIds
      <4>1. Other(x.slot) \in SlotIds /\ Other(x.slot) # x.slot
        BY <1>x, TwoSlots, Zenon
      <4>2. storeVer'[r][Other(x.slot)] = storeVer[r][Other(x.slot)]
        BY <4>1, <2>3, <1>y, ZenonT(40)
      <4> HIDE DEF k
      <4> QED BY <4>1, <4>2, <2>3, <1>a, <1>x, Basics
    <3>3. storeVer'[r][x.slot] > RecoveryPoint /\ marker >= 2
      <4> HIDE DEF k
      <4> QED BY <2>3, <1>a, <1>y, Basics
    <3>4. ASSUME NEW s \in SlotIds, ~Exists(log, r, RecoveryPoint)
          PROVE  storeVer'[r][s] = 0 \/ storeVer'[r][s] > RecoveryPoint
      BY <3>4, <3>3, <2>1, <2>3, <1>y, ZenonT(40)
    <3>5. ~(marker < 2)
      BY <3>3, Basics
    <3> QED BY <3>1, <3>2, <3>4, <3>5, <2>1, Zenon
  <2> QED BY <2>2, <2>3, Zenon
<1>3. Landed'
  <2> SUFFICES ASSUME Running, NEW r \in Records
               PROVE  /\ \A s \in SlotIds : storeVer'[r][s] <= Done(TableOf[r])
                      /\ Exists(log, r, Done(TableOf[r])) /\ (\A y \in InFlight' : y.rec # r) =>
                            Latest(log, r, Done(TableOf[r]), storeVal'[r][Newest(storeVer'[r])])
                      /\ ~Exists(log, r, Done(TableOf[r])) => \A s \in SlotIds : storeVer'[r][s] = 0
    BY <1>d, <1>f, Zenon DEF Landed, Running
  <2>1. /\ \A s \in SlotIds : storeVer[r][s] <= Done(TableOf[r])
        /\ Exists(log, r, Done(TableOf[r])) /\ (\A y \in InFlight : y.rec # r) =>
              Latest(log, r, Done(TableOf[r]), storeVal[r][Newest(storeVer[r])])
        /\ ~Exists(log, r, Done(TableOf[r])) => \A s \in SlotIds : storeVer[r][s] = 0
    BY Zenon DEF SerialInv, Landed
  <2>2. CASE r # x.rec
    <3>1. (\A y \in InFlight' : y.rec # r) => \A y \in InFlight : y.rec # r
      BY <2>2, <1>i, Zenon
    <3> QED BY <3>1, <2>1, <2>2, <1>y, Zenon
  <2>3. CASE r = x.rec
    <3>1. ASSUME NEW s \in SlotIds PROVE storeVer'[r][s] <= Done(TableOf[r])
      <4>1. storeVer'[r][s] = k \/ storeVer'[r][s] = storeVer[r][s]
        BY <2>3, <1>y, ZenonT(40)
      <4>2. k <= k /\ k = Done(TableOf[r])
        BY <2>3, <1>a
      <4> QED BY <4>1, <4>2, <2>1, Zenon
    <3>2. Latest(log, r, Done(TableOf[r]), storeVal'[r][Newest(storeVer'[r])])
      BY <2>3, <1>a, <1>n, <1>y, Zenon
    <3> QED BY <3>1, <3>2, <2>3, <1>a, Zenon
  <2> QED BY <2>2, <2>3, Zenon
<1>4. Aimed'
  <2>1. ASSUME NEW y \in InFlight', NEW j, j = Done(TableOf[y.rec])
        PROVE  /\ j >= 1 /\ y.ver = j /\ y.val = j /\ y.rec \in log[j].write
               /\ storeVer'[y.rec][Other(y.slot)] < j
               /\ y.slot # Newest(Demote(storeVer'[y.rec], j))
               /\ isDurable => marker = j + 1
    <3>1. /\ j >= 1 /\ y.ver = j /\ y.val = j /\ y.rec \in log[j].write
          /\ storeVer[y.rec][Other(y.slot)] < j
          /\ y.slot # Newest(Demote(storeVer[y.rec], j))
          /\ isDurable => marker = j + 1
      BY <2>1, <1>i, Zenon DEF SerialInv, Aimed
    <3>2. CASE y.rec # x.rec
      <4>1. y.rec \in Records
        BY <1>i, FlightEntry, Zenon
      <4> QED BY <4>1, <3>1, <3>2, <1>y, Zenon
    <3>3. CASE y.rec = x.rec
      <4>1. y = x /\ j = k
        BY <3>3, <2>1, <1>a, <1>i, Zenon
      <4>2. Other(x.slot) \in SlotIds /\ Other(x.slot) # x.slot
        BY <1>x, TwoSlots, Zenon
      <4>3. storeVer'[x.rec][Other(x.slot)] = storeVer[x.rec][Other(x.slot)]
        BY <4>2, <1>y, Zenon
      <4> QED BY <4>1, <4>3, <3>1, <1>n, Zenon
    <3> QED BY <3>2, <3>3, Zenon
  <2>2. \A y, z \in InFlight' : y.rec = z.rec => y = z
    BY <1>i, Zenon DEF SerialInv, Aimed
  <2> QED BY <2>1, <2>2, <1>d, <1>f, ZenonT(40) DEF Aimed
<1> QED BY <1>1, <1>2, <1>3, <1>4, Zenon DEF SerialInv

--------------------------------------------------------------------------------
(* Crashes and recovery.                                                   *)

(* A process that has not begun its first epoch holds nothing.             *)
LEMMA DownHoldsNothing ==
    ASSUME SerialInv, pc \in Down
    PROVE  /\ InFlight = {} /\ work = {} /\ landing = {} /\ packed = {}
           /\ dirty = {} /\ gather = {} /\ ~Running /\ isDurable /\ epoch = 1
           /\ \A r \in Records : cached[r] = None
<1>1. pc # "stage" /\ \A t : ~Marked(t) /\ ~Waiting(t) /\ pc # "landing"
  BY Zenon DEF Down, Marked, Waiting
<1>2. InFlight = {}
  BY Zenon DEF SerialInv, Placed
<1>3. work = {} /\ landing = {}
  BY <1>2, Zenon DEF InFlight
<1>4. dirty = {} /\ packed = {}
  BY <1>1, Zenon DEF SerialInv, Marks
<1>5. gather = {} /\ \A r \in Records : cached[r] = None
  BY <1>1, Zenon DEF SerialInv, Bound
<1> QED BY <1>2, <1>3, <1>4, <1>5, Zenon DEF SerialInv, Phase, Running

(* A process that holds nothing, about to stage or not yet.                *)
LEMMA NothingHeld ==
    ASSUME SerialInv, log' = log, pc' \in Down \cup {"stage"}, epoch' \in Epochs,
           pc' = "stage" => todo' = Tables,
           InFlight' = {}, packed' = {}, dirty' = {}, gather' = {},
           \A r \in Records : cached'[r] = None
    PROVE  Aimed' /\ Placed' /\ Bound' /\ CacheSerial' /\ Marks'
<1>1. pc' \notin Executed /\ \A t : ~Marked(t)' /\ ~Waiting(t)'
  BY Zenon DEF Down, Executed, Marked, Waiting
<1>2. Aimed' /\ Placed'
  BY Zenon DEF Aimed, Placed
<1>3. Bound'
  <2>1. \A r \in log[epoch'].touch : TableOf[r] \in Tables
    BY Basics, TouchedRecord, Zenon DEF Epochs
  <2> QED BY <2>1, <1>1, Zenon DEF Bound
<1>4. CacheSerial' /\ Marks'
  BY <1>1, Zenon DEF CacheSerial, Marks
<1> QED BY <1>2, <1>3, <1>4, Zenon

(* Only the store and the marker survive, and the marker is past epoch 1   *)
(* or was never set.                                                       *)
LEMMA CrashKeeps == ASSUME SerialInv, Crash PROVE SerialInv'
<1> USE TpccAssumption DEF TpccAssumption
<1>f. /\ UNCHANGED <<log, isDurable, overlap, storeVer, storeVal, marker>>
      /\ pc' = "recover" /\ epoch' = 1 /\ todo' = {} /\ cached' = [r \in Records |-> None]
      /\ dirty' = {} /\ gather' = {} /\ packed' = {} /\ work' = {} /\ landing' = {}
      /\ isDurable
  BY Zenon DEF Crash, config, store
<1>p. pc' \in Down /\ pc' # "stage" /\ ~Running' /\ InFlight' = {} /\ epoch' \in Epochs
  <2>1. 1 \in Epochs
    BY DEF Epochs
  <2> QED BY <2>1, <1>f, Zenon DEF Down, Running, InFlight
<1>m. marker # 1
  <2>1. \/ marker = epoch /\ epoch >= 2
        \/ marker = epoch + 1 \/ marker = 0 \/ marker >= 2 \/ marker # 1
    BY <1>f, Zenon DEF SerialInv, Types, Phase, ProgramPoints, Executed, Down
  <2> QED BY <2>1, Basics
<1>1. Types'
  BY <1>f, <1>p, Zenon DEF SerialInv, Types, LogOK, ProgramPoints
<1>2. Phase'
  BY <1>f, <1>m, <1>p, Zenon DEF Phase
<1>3. Recoverable' /\ Landed'
  BY <1>f, <1>p, Zenon DEF SerialInv, Recoverable, RollbackBase, RecoveryPoint, Landed
<1>4. Aimed' /\ Placed' /\ Bound' /\ CacheSerial' /\ Marks'
  BY <1>f, <1>p, NothingHeld, Zenon
<1>5. Undoing'
  BY <1>f, Zenon DEF Undoing
<1> QED BY <1>1, <1>2, <1>3, <1>4, <1>5, ZenonT(40) DEF SerialInv

(* Without a marker nothing was written: the replay starts from a fresh    *)
(* store.                                                                  *)
LEMMA RecoverKeeps == ASSUME SerialInv, Recover PROVE SerialInv'
<1>f. /\ UNCHANGED <<log, isDurable, overlap, storeVer, storeVal, marker, epoch, cached>>
      /\ UNCHANGED <<dirty, gather, packed, work, landing, crashes>>
      /\ pc = "recover" /\ todo' = Tables
      /\ \/ marker < 2 /\ pc' = "stage" /\ undo' = {}
         \/ ~(marker < 2) /\ pc' = "rollback" /\ undo' = Records \X SlotIds
  BY Zenon DEF Recover, config, store, flushing
<1>p. /\ pc \in Down /\ pc' \in Down \cup {"stage"} /\ InFlight' = InFlight
      /\ RecoveryPoint' = RecoveryPoint
  BY <1>f, Zenon DEF Down, InFlight, RecoveryPoint
<1>h. /\ InFlight = {} /\ packed = {} /\ dirty = {} /\ gather = {} /\ isDurable /\ epoch = 1
      /\ \A r \in Records : cached[r] = None
  BY <1>p, DownHoldsNothing, Zenon
<1>1. Types'
  BY <1>f, Zenon DEF SerialInv, Types, LogOK, ProgramPoints, Down
<1>2. Phase'
  <2>1. marker # 1 /\ marker \in Nat
    BY <1>f, Basics, Zenon DEF SerialInv, Phase
  <2> QED BY <2>1, <1>f, <1>h DEF Phase, Down
<1>3. Recoverable'
  BY <1>f, <1>p, ZenonT(40) DEF SerialInv, Recoverable, RollbackBase
<1>4. Landed'
  <2> SUFFICES ASSUME Running', NEW r \in Records
               PROVE  /\ \A s \in SlotIds : storeVer[r][s] <= Done(TableOf[r])'
                      /\ Exists(log, r, Done(TableOf[r])') =>
                            Latest(log, r, Done(TableOf[r])', storeVal[r][Newest(storeVer[r])])
                      /\ \A s \in SlotIds : storeVer[r][s] = 0
    BY <1>f, Zenon DEF Landed
  <2>1. marker < 2 /\ pc' = "stage"
    BY <1>f, Zenon DEF Running, Down
  <2>2. RecoveryPoint = 0 /\ Done(TableOf[r])' = 0
    BY <2>1, <1>f, <1>h DEF RecoveryPoint, Done, Behind
  <2>3. \A s \in SlotIds : storeVer[r][s] = 0
    BY <2>1, <1>h, ZenonT(40) DEF SerialInv, Recoverable
  <2>4. Newest(Demote(storeVer[r], RecoveryPoint + 1)) = Newest(storeVer[r])
    <3>1. storeVer[r] \in [SlotIds -> Nat]
      BY Zenon DEF SerialInv, Types
    <3> QED BY <3>1, <2>2, <2>3, OldTags
  <2>5. Exists(log, r, 0) => Latest(log, r, 0, storeVal[r][Newest(storeVer[r])])
    BY <2>2, <2>4, <1>h, Zenon DEF SerialInv, Recoverable, RollbackBase
  <2> QED BY <2>2, <2>3, <2>5
<1>5. Aimed' /\ Placed' /\ Bound' /\ CacheSerial' /\ Marks'
  <2>1. epoch' \in Epochs
    BY <1>f, Zenon DEF SerialInv, Types
  <2> QED BY <2>1, <1>f, <1>h, <1>p, NothingHeld, Zenon
<1>6. Undoing'
  <2>1. \A d \in Records \X SlotIds : TableOf[d[1]] \in Tables
    BY Basics, Zenon
  <2> QED BY <2>1, <1>f, Zenon DEF Undoing
<1> QED BY <1>1, <1>2, <1>3, <1>4, <1>5, <1>6, ZenonT(40) DEF SerialInv

(* Demoting a tag does not change what rollback returns to.                *)
LEMMA RollbackTagKeeps ==
    ASSUME SerialInv, NEW r \in Records, NEW s \in SlotIds, RollbackTag(r, s) PROVE SerialInv'
<1>f. /\ UNCHANGED <<log, isDurable, overlap, storeVal, marker, epoch, pc, todo, cached>>
      /\ UNCHANGED <<dirty, gather, packed, work, landing, crashes>>
      /\ pc = "rollback" /\ undo' = undo \ {<<r, s>>}
      /\ storeVer' = [storeVer EXCEPT ![r][s] = DemoteTag(@, marker - 1)]
  BY Zenon DEF RollbackTag, config, flushing
<1>p. /\ pc \in Down /\ pc' \in Down \cup {"stage"} /\ pc' # "stage" /\ InFlight' = InFlight
      /\ RecoveryPoint' = RecoveryPoint /\ ~Running'
  BY <1>f, Zenon DEF Down, InFlight, RecoveryPoint, Running
<1>h. /\ InFlight = {} /\ packed = {} /\ dirty = {} /\ gather = {}
      /\ \A q \in Records : cached[q] = None
  BY <1>p, DownHoldsNothing, ZenonT(40)
<1>m. RecoveryPoint \in Nat /\ marker - 1 = RecoveryPoint + 1
  BY <1>f, Basics DEF SerialInv, Phase, RecoveryPoint
<1>y. /\ storeVer' \in [Records -> [SlotIds -> Nat]]
      /\ storeVer'[r][s] = DemoteTag(storeVer[r][s], RecoveryPoint + 1)
      /\ \A q \in Records, p \in SlotIds :
            q # r \/ p # s => storeVer'[q][p] = storeVer[q][p]
  BY <1>f, <1>m, Zenon DEF SerialInv, Types, DemoteTag
<1>t. ASSUME NEW q \in Records, NEW p \in SlotIds
      PROVE  /\ storeVer'[q][p] = storeVer[q][p] \/ storeVer'[q][p] = 0
             /\ storeVer'[q][p] <= storeVer[q][p]
             /\ q = r /\ p = s => storeVer'[q][p] <= RecoveryPoint
             /\ DemoteTag(storeVer'[q][p], RecoveryPoint + 1)
                   = DemoteTag(storeVer[q][p], RecoveryPoint + 1)
  <2>1. storeVer[q][p] \in Nat
    BY Basics, ZenonT(40)
  <2>2. CASE q = r /\ p = s
    BY <2>1, <2>2, <1>m, <1>y DEF DemoteTag
  <2>3. CASE q # r \/ p # s
    BY <2>1, <2>3, <1>y
  <2> QED BY <2>2, <2>3, Zenon
<1>1. Types'
  BY <1>f, <1>y, Zenon DEF SerialInv, Types, LogOK
<1>2. Phase'
  BY <1>f, Zenon DEF SerialInv, Phase
<1>3. Recoverable'
  <2> SUFFICES ASSUME isDurable, NEW q \in Records
               PROVE  /\ Exists(log, q, RecoveryPoint) =>
                            Latest(log, q, RecoveryPoint, RollbackBase(q)')
                      /\ \E p \in SlotIds : storeVer'[q][p] <= RecoveryPoint
                      /\ ~Exists(log, q, RecoveryPoint) =>
                            \A p \in SlotIds : storeVer'[q][p] = 0 \/ storeVer'[q][p] > RecoveryPoint
                      /\ marker < 2 => \A p \in SlotIds : storeVer'[q][p] = 0
    BY <1>f, <1>p, Zenon DEF Recoverable
  <2>1. /\ Exists(log, q, RecoveryPoint) => Latest(log, q, RecoveryPoint, RollbackBase(q))
        /\ \E p \in SlotIds : storeVer[q][p] <= RecoveryPoint
        /\ ~Exists(log, q, RecoveryPoint) =>
              \A p \in SlotIds : storeVer[q][p] = 0 \/ storeVer[q][p] > RecoveryPoint
        /\ marker < 2 => \A p \in SlotIds : storeVer[q][p] = 0
    BY Zenon DEF SerialInv, Recoverable
  <2>2. RollbackBase(q)' = RollbackBase(q)
    <3>1. Demote(storeVer'[q], RecoveryPoint + 1) = Demote(storeVer[q], RecoveryPoint + 1)
      BY <1>t, ZenonT(40) DEF Demote
    <3> QED BY <3>1, <1>f, <1>p, Zenon DEF RollbackBase
  <2>3. \E p \in SlotIds : storeVer'[q][p] <= RecoveryPoint
    <3>1. PICK p \in SlotIds : storeVer[q][p] <= RecoveryPoint
      BY <2>1, Zenon
    <3> QED BY <3>1, <1>m, <1>t, Basics
  <2> QED BY <2>1, <2>2, <2>3, <1>t, Zenon
<1>4. Landed'
  BY <1>p, Zenon DEF Landed
<1>5. Aimed' /\ Placed' /\ Bound' /\ CacheSerial' /\ Marks'
  <2>1. epoch' \in Epochs
    BY <1>f, Zenon DEF SerialInv, Types
  <2> QED BY <2>1, <1>f, <1>h, <1>p, NothingHeld, ZenonT(40)
<1>6. Undoing'
  <2>1. ASSUME NEW q \in Records, NEW p \in SlotIds, <<q, p>> \notin undo'
        PROVE  storeVer'[q][p] <= RecoveryPoint
    <3>1. (q = r /\ p = s) \/ <<q, p>> \notin undo
      BY <2>1, <1>f, Zenon
    <3>2. CASE q = r /\ p = s
      BY <3>2, <1>t, Zenon
    <3>3. CASE (q # r \/ p # s) /\ <<q, p>> \notin undo
      BY <3>3, <1>f, <1>y, Zenon DEF SerialInv, Undoing
    <3> QED BY <3>1, <3>2, <3>3, Zenon
  <2> QED BY <2>1, <1>f, <1>p, Zenon DEF SerialInv, Undoing
<1> QED BY <1>1, <1>2, <1>3, <1>4, <1>5, <1>6, ZenonT(40) DEF SerialInv

(* After the last table the store is the serial state the marker names.    *)
LEMMA RollbackTableDoneKeeps ==
    ASSUME SerialInv, NEW t \in Tables, RollbackTableDone(t) PROVE SerialInv'
<1>f. /\ UNCHANGED <<log, isDurable, overlap, storeVer, storeVal, marker, cached>>
      /\ UNCHANGED <<dirty, gather, packed, work, landing, undo, crashes>>
      /\ pc = "rollback" /\ t \in todo /\ \A d \in undo : TableOf[d[1]] # t
      /\ \/ todo = {t} /\ pc' = "stage" /\ epoch' = marker - 1 /\ todo' = Tables
         \/ todo # {t} /\ todo' = todo \ {t} /\ pc' = pc /\ epoch' = epoch
  BY Zenon DEF RollbackTableDone, config, store, flushing
<1>p. /\ pc \in Down /\ pc' \in Down \cup {"stage"} /\ InFlight' = InFlight
      /\ RecoveryPoint' = RecoveryPoint
  BY <1>f, Zenon DEF Down, InFlight, RecoveryPoint
<1>h. /\ InFlight = {} /\ packed = {} /\ dirty = {} /\ gather = {} /\ isDurable /\ epoch = 1
      /\ \A q \in Records : cached[q] = None
  BY <1>p, DownHoldsNothing, Zenon
<1>m. /\ RecoveryPoint \in Nat /\ marker >= 2 /\ marker \in Nat /\ marker = RecoveryPoint + 2
      /\ marker - 1 \in Epochs
  <2>1. marker >= 2 /\ marker \in 0 .. NEpochs + 1
    BY <1>f, Zenon DEF SerialInv, Phase, Types
  <2>2. NEpochs \in Nat
    BY Basics, Zenon
  <2> QED BY <2>1, <2>2 DEF RecoveryPoint, Epochs
<1>e. epoch' \in Epochs
  BY <1>f, <1>m, Zenon DEF SerialInv, Types
<1>1. Types'
  BY <1>e, <1>f, Zenon DEF SerialInv, Types, LogOK, ProgramPoints, Down
<1>2. Phase'
  <2>1. CASE pc' = "stage" /\ epoch' = marker - 1
    <3>1. marker' = epoch' + 1 /\ pc' \notin Down
      BY <2>1, <1>f, <1>m DEF Down
    <3> QED BY <3>1, <2>1, ZenonT(40) DEF Phase
  <2>2. CASE pc' = pc /\ epoch' = epoch
    BY <2>2, <1>f, Zenon DEF SerialInv, Phase
  <2> QED BY <2>1, <2>2, <1>f, Zenon
<1>3. Recoverable'
  BY <1>f, <1>p, Zenon DEF SerialInv, Recoverable, RollbackBase
<1>4. Landed'
  <2> SUFFICES ASSUME Running', NEW r \in Records
               PROVE  /\ \A s \in SlotIds : storeVer[r][s] <= Done(TableOf[r])'
                      /\ Exists(log, r, Done(TableOf[r])') =>
                            Latest(log, r, Done(TableOf[r])', storeVal[r][Newest(storeVer[r])])
                      /\ ~Exists(log, r, Done(TableOf[r])') =>
                            \A s \in SlotIds : storeVer[r][s] = 0
    BY <1>f, Zenon DEF Landed
  <2>1. todo = {t} /\ pc' = "stage" /\ epoch' = marker - 1
    BY <1>f, Zenon DEF Running, Down
  <2>2. Done(TableOf[r])' = RecoveryPoint
    BY <2>1, <1>m DEF Done, Behind
  <2>3. undo = {}
    BY <2>1, <1>f, Zenon DEF SerialInv, Undoing
  <2>4. \A s \in SlotIds : storeVer[r][s] <= RecoveryPoint
    BY <2>3, <1>f, ZenonT(40) DEF SerialInv, Undoing
  <2>5. Newest(Demote(storeVer[r], RecoveryPoint + 1)) = Newest(storeVer[r])
    <3>1. storeVer[r] \in [SlotIds -> Nat] /\ \A s \in SlotIds : storeVer[r][s] < RecoveryPoint + 1
      BY <2>4, <1>m, Basics DEF SerialInv, Types
    <3> QED BY <3>1, <1>m, OldTags
  <2>6. /\ Exists(log, r, RecoveryPoint) =>
              Latest(log, r, RecoveryPoint, storeVal[r][Newest(storeVer[r])])
        /\ ~Exists(log, r, RecoveryPoint) =>
              \A s \in SlotIds : storeVer[r][s] = 0 \/ storeVer[r][s] > RecoveryPoint
    BY <2>5, <1>h, Zenon DEF SerialInv, Recoverable, RollbackBase
  <2>7. \A s \in SlotIds : ~(storeVer[r][s] > RecoveryPoint)
    BY <2>4, <1>m, Basics
  <2> QED BY <2>2, <2>4, <2>6, <2>7, Zenon
<1>5. Aimed' /\ Placed' /\ Bound' /\ CacheSerial' /\ Marks'
  <2>1. pc' = "stage" => todo' = Tables
    BY <1>f, Zenon
  <2> QED BY <2>1, <1>e, <1>f, <1>h, <1>p, NothingHeld, Zenon
<1>6. Undoing'
  BY <1>f, <1>p, Zenon DEF SerialInv, Undoing
<1> QED BY <1>1, <1>2, <1>3, <1>4, <1>5, <1>6, ZenonT(40) DEF SerialInv

--------------------------------------------------------------------------------
(* Every step keeps the invariant.                                         *)
LEMMA SerialInvNext == SerialInv /\ [Next]_vars => SerialInv'
  <1> SUFFICES ASSUME SerialInv, [Next]_vars PROVE SerialInv'
    BY Zenon
  <1>1. CASE PreWarm
    BY <1>1, PreWarmKeeps, Zenon
  <1>2. CASE \E t \in Tables : PrepareEpoch(t)
    BY <1>2, PrepareEpochKeeps, Zenon
  <1>3. CASE \E r \in Records : Admit(r)
    BY <1>3, AdmitKeeps, Zenon
  <1>4. CASE Execute
    BY <1>4, ExecuteKeeps, Zenon
  <1>5. CASE \E t \in Tables : DrainAndPack(t)
    BY <1>5, DrainAndPackKeeps, Zenon
  <1>6. CASE BumpRecoveryMarker
    BY <1>6, BumpRecoveryMarkerKeeps, Zenon
  <1>7. CASE \E t \in Tables : SubmitFlushWorker(t)
    BY <1>7, SubmitFlushWorkerKeeps, Zenon
  <1>8. CASE \E t \in Tables : PeriodicFlush(t)
    BY <1>8, PeriodicFlushKeeps, Zenon
  <1>9. CASE \E t \in Tables : PeriodicFlushDone(t)
    BY <1>9, PeriodicFlushDoneKeeps, Zenon
  <1>10. CASE \E t \in Tables : FinalSync(t)
    BY <1>10, FinalSyncKeeps, Zenon
  <1>11. CASE \E x \in work : ScatterValue(x)
    BY <1>11, ScatterValueKeeps, Zenon
  <1>12. CASE \E x \in landing : ScatterTag(x)
    BY <1>12, ScatterTagKeeps, Zenon
  <1>13. CASE Crash
    BY <1>13, CrashKeeps, Zenon
  <1>14. CASE Recover
    BY <1>14, RecoverKeeps, Zenon
  <1>15. CASE \E r \in Records, s \in SlotIds : RollbackTag(r, s)
    BY <1>15, RollbackTagKeeps, Zenon
  <1>16. CASE \E t \in Tables : RollbackTableDone(t)
    BY <1>16, RollbackTableDoneKeeps, Zenon
  <1>17. CASE UNCHANGED vars
    <2>1. /\ UNCHANGED <<log, isDurable, overlap, storeVer, storeVal, marker, epoch, pc, todo>>
          /\ UNCHANGED <<cached, dirty, gather, packed, work, landing, undo>>
      BY <1>17, Zenon DEF vars, config, store, flushing
    <2>2. InFlight' = InFlight /\ First(FlushOrder)' = First(FlushOrder)
      BY <2>1, Zenon DEF InFlight, First
    <2>3. \A t : /\ Done(t)' = Done(t) /\ (Unflushed(t)' <=> Unflushed(t))
                 /\ (Marked(t)' <=> Marked(t)) /\ (Waiting(t)' <=> Waiting(t))
                 /\ FlushSet(t)' = FlushSet(t)
      BY <2>1, <2>2, Zenon DEF Done, Behind, Unflushed, Marked, Waiting, FlushSet, EntryOf
    <2>4. \A r : /\ Target(r)' = Target(r) /\ (Coherent(r)' <=> Coherent(r))
                 /\ (Written(r)' <=> Written(r))
      <3>1. \A r, s : EffTag(r, s)' = EffTag(r, s)
        BY <2>1, <2>2, <2>3, Zenon DEF EffTag
      <3>2. \A r : Target(r)' = Target(r)
        BY <3>1, Zenon DEF Target
      <3>3. \A r : Coherent(r)' <=> Coherent(r)
        BY <3>1, <2>1, <2>3, Zenon DEF Coherent
      <3>4. \A r : Written(r)' <=> Written(r)
        BY <3>1, <3>2, <2>1, Zenon DEF Written
      <3> QED BY <3>2, <3>3, <3>4, Zenon
    <2>5. Types' /\ Phase' /\ Recoverable'
      <3>1. Types'
        BY <2>1, Zenon DEF SerialInv, Types, LogOK
      <3>2. Phase'
        BY <2>1, <2>2, Zenon DEF SerialInv, Phase
      <3>3. Recoverable'
        BY <2>1, Zenon DEF SerialInv, Recoverable, RollbackBase, RecoveryPoint
      <3> QED BY <3>1, <3>2, <3>3, Zenon
    <2>6. Landed' /\ Placed'
      BY <2>1, <2>2, <2>3, Zenon DEF SerialInv, Landed, Running, Placed
    <2>7. Aimed'
      BY <2>1, <2>2, <2>3, Zenon DEF SerialInv, Aimed
    <2>8. Bound' /\ CacheSerial' /\ Undoing'
      BY <2>1, <2>3, <2>4, Zenon DEF SerialInv, Bound, CacheSerial, Undoing, RecoveryPoint
    <2>9. Marks'
      BY <2>1, <2>2, <2>3, <2>4, Zenon DEF SerialInv, Marks
    <2> QED BY <2>5, <2>6, <2>7, <2>8, <2>9, Zenon DEF SerialInv
  <1> QED BY <1>1, <1>2, <1>3, <1>4, <1>5, <1>6, <1>7, <1>8, <1>9, <1>10, <1>11, <1>12,
             <1>13, <1>14, <1>15, <1>16, <1>17, Zenon DEF Next, Terminated

(* The inductive invariant holds in every reachable state.                 *)
LEMMA SerialInvHolds == Spec => []SerialInv
  BY SerialInvInit, SerialInvNext, PTL DEF Spec

(* Whenever a durable run dies, with some tables landed, some half landed  *)
(* and some not submitted, rolling the tables back gives the serial state  *)
(* of the epoch the one marker names.                                      *)
THEOREM RollbackToSerial == Spec => []RollbackSound
  <1>1. SerialInv => RollbackSound
    BY Zenon DEF SerialInv, Recoverable, RollbackSound
  <1> QED BY <1>1, SerialInvHolds, PTL

(* When the executor starts, what it reads in any table is resident and    *)
(* has its serial value, and no worker is writing a record that is being   *)
(* transferred, whatever tables, caches and batches there are.             *)
THEOREM ExecutorReadsSerial == Spec => []ReadsSerial
  <1>1. SerialInv => ReadsSerial
    <2> SUFFICES ASSUME SerialInv PROVE ReadsSerial
      BY Zenon
    <2>1. ASSUME Staged PROVE (\A r \in log[epoch].touch : cached[r] # None) /\ BasesSerial
      BY <2>1, StagedReads, Zenon DEF BasesSerial
    <2>2. \A x \in InFlight : x.rec \notin gather
      BY Zenon DEF SerialInv, Placed
    <2> QED BY <2>1, <2>2, Zenon DEF ReadsSerial, InFlight
  <1> QED BY <1>1, SerialInvHolds, PTL

(* A run that ends, after any number of crashes and replays, overlapped or *)
(* not, durable or not, has left the serial state of the whole log in      *)
(* every table.                                                            *)
THEOREM RunLeavesSerialState == Spec => []FinalStateSerial
  <1>1. SerialInv => FinalStateSerial
    <2> SUFFICES ASSUME SerialInv, pc = "done", NEW r \in Records, Exists(log, r, NEpochs)
                 PROVE  Latest(log, r, NEpochs, storeVal[r][Newest(storeVer[r])])
      BY Zenon DEF FinalStateSerial
    <2>1. Running /\ epoch = NEpochs /\ InFlight = {}
      BY Zenon DEF SerialInv, Phase, Placed, Running, Down
    <2>2. Done(TableOf[r]) = NEpochs
      BY <2>1, Zenon DEF Done, Behind
    <2> QED BY <2>1, <2>2, Zenon DEF SerialInv, Landed
  <1> QED BY <1>1, SerialInvHolds, PTL
================================================================================
