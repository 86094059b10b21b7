-------------------------- MODULE EpochPipelineProofs --------------------------
(***************************************************************************)
(* The inductive invariant of EpochPipeline and what follows from it for   *)
(* any set of records, any cache, any number of epochs and of crashes.     *)
(*                                                                         *)
(* The idea.  While the process runs, the Primary Store together with the  *)
(* entries still in flight is the serial state at the end of epoch Done;   *)
(* the cache agrees with "store plus flight" on tags and on base values;   *)
(* and an entry in flight always targets the slot that rollback under the  *)
(* current marker does not use.                                            *)
(***************************************************************************)
EXTENDS EpochPipeline, TLAPS

BeforeBump == {"prepare", "gather", "execute", "sync", "bump"}
AfterFlush == {"drain", "final", "join", "done"}
Executed   == {"sync", "bump", "flush"}
Running    == pc \notin {"recover", "rollback"}

(* The last epoch whose writes have left the cache.                        *)
Done == IF pc \in AfterFlush THEN epoch ELSE epoch - 1

(* The tag slot s of record r will have once the entries of flight, all of *)
(* epoch k, have landed on a store with tags ver.                          *)
EffTag(flight, ver, k, r, s) ==
    IF \E x \in flight : x.rec = r /\ x.slot = s THEN k ELSE ver[r][s]

(* Where the marker stands with respect to the main loop.                  *)
MarkerInv ==
    /\ pc \in BeforeBump =>
         \/ marker = epoch /\ epoch >= 2
         \/ marker = epoch + 1
         \/ marker = 0 /\ epoch = 1
    /\ pc \in {"flush"} \cup AfterFlush => marker = epoch + 1
    /\ pc \in {"final", "join", "done"} => epoch = NEpochs
    /\ pc = "recover" => marker # 1 /\ epoch = 1
    /\ pc = "rollback" => marker >= 2

(* The durable state, whatever the process is doing.                       *)
StoreInv ==
    \A r \in Records :
        /\ Exists(log, r, RecoveryPoint) => Latest(log, r, RecoveryPoint, RollbackBase(r))
        /\ \E s \in SlotIds : storeVer[r][s] <= RecoveryPoint
        /\ ~Exists(log, r, RecoveryPoint) =>
              \A s \in SlotIds : storeVer[r][s] = 0 \/ storeVer[r][s] > RecoveryPoint
        /\ marker < 2 => \A s \in SlotIds : storeVer[r][s] = 0

(* The store plus what is in flight is the serial state of epoch Done.     *)
LandedInv ==
    Running =>
        \A r \in Records :
            /\ \A s \in SlotIds : storeVer[r][s] <= Done
            /\ Exists(log, r, Done) /\ (\A x \in InFlight : x.rec # r) =>
                  Latest(log, r, Done, storeVal[r][Newest(storeVer[r])])
            /\ ~Exists(log, r, Done) => \A s \in SlotIds : storeVer[r][s] = 0

(* What is in flight: the writes of epoch Done, one entry per record, each *)
(* aimed at the slot that is not the rollback base.                        *)
FlightInv ==
    /\ \A x \in InFlight :
          /\ Running
          /\ Done >= 1
          /\ RecoveryPoint = Done - 1
          /\ x.ver = Done /\ x.val = Done
          /\ x.rec \in log[Done].write
          /\ storeVer[x.rec][Other(x.slot)] < Done
          /\ x.slot # Newest(Demote(storeVer[x.rec], Done))
    /\ \A x, y \in InFlight : x.rec = y.rec => x = y
    /\ \A x \in copied : storeVal[x.rec][x.slot] = x.val
    /\ pc \in {"bump", "flush", "done"} => InFlight = {}
    /\ InFlight # {} => valid \/ pc = "drain"
    /\ pc = "prepare" => \A x \in InFlight : \E g \in Slots : resident[g] = x.rec

(* Which records are in the cache.                                         *)
ResidentInv ==
    /\ \A g, h \in Slots : resident[g] = resident[h] /\ resident[g] # None => g = h
    /\ pc \in {"gather", "execute"} \cup Executed =>
          \A r \in log[epoch].touch : \E g \in Slots : resident[g] = r
    /\ gather # {} => pc = "gather"
    /\ pc = "gather" => gather \subseteq log[epoch].touch \ log[epoch].insert
    /\ \A x \in InFlight : x.rec \notin gather
    /\ \A g \in Slots : resident[g] # None /\ Running =>
          \/ Exists(log, resident[g], Done)
          \/ pc \in {"gather", "execute"} \cup Executed /\ resident[g] \in log[epoch].insert
    /\ ~Running => \A g \in Slots : resident[g] = None

(* A cache slot whose contents the epoch has neither still to transfer nor *)
(* already overwritten agrees with the store plus what is in flight.       *)
Coherent(g) ==
    /\ \A s \in SlotIds :
          cacheVer[g][s] = EffTag(InFlight, storeVer, Done, resident[g], s)
    /\ Exists(log, resident[g], Done) =>
          Latest(log, resident[g], Done, cacheVal[g][Newest(cacheVer[g])])

(* A slot the executor has written: one version, tagged and valued with    *)
(* this epoch, marked dirty, where the older one was.                      *)
Written(g) ==
    \E s \in SlotIds :
        /\ <<g, s>> \in dirty
        /\ <<g, Other(s)>> \notin dirty
        /\ cacheVer[g][s] = epoch
        /\ cacheVal[g][s] = epoch
        /\ cacheVer[g][Other(s)] =
              EffTag(InFlight, storeVer, Done, resident[g], Other(s))
        /\ s = IF EffTag(InFlight, storeVer, Done, resident[g], 1)
                    < EffTag(InFlight, storeVer, Done, resident[g], 2)
               THEN 1 ELSE 2

CacheInv ==
    /\ \A g \in Slots : resident[g] # None =>
          IF pc \in Executed /\ resident[g] \in log[epoch].write
          THEN Written(g)
          ELSE \/ Coherent(g)
               \/ resident[g] \in gather
               \/ pc = "gather" /\ resident[g] \in log[epoch].insert
    /\ \A d \in dirty : \/ pc \in Executed /\ resident[d[1]] \in log[epoch].write
                        \/ pc = "drain"

(* Rollback proceeds tag by tag.                                           *)
UndoInv ==
    pc = "rollback" =>
        \A r \in Records, s \in SlotIds :
            <<r, s>> \notin undo => storeVer[r][s] <= RecoveryPoint

Inv ==
    /\ TypeOK
    /\ WellFormed(log, NEpochs)
    /\ MarkerInv
    /\ StoreInv
    /\ LandedInv
    /\ FlightInv
    /\ ResidentInv
    /\ CacheInv
    /\ UndoInv

--------------------------------------------------------------------------------
(* Facts about the serial execution of a log.                              *)

(* An epoch that does not write r leaves its serial value as it was.       *)
LEMMA LatestUnwritten ==
    ASSUME NEW lg, NEW r, NEW k \in Nat, NEW v, Latest(lg, r, k, v),
           r \notin lg[k + 1].write
    PROVE  Latest(lg, r, k + 1, v)
BY DEF Latest

(* The serial value after an epoch that writes r is that epoch's.          *)
LEMMA LatestWritten ==
    ASSUME NEW lg, NEW r, NEW k \in Nat \ {0}, r \in lg[k].write
    PROVE  Latest(lg, r, k, k)
BY DEF Latest

(* A record stays in the database, and only an insert adds one.            *)
LEMMA ExistsNext ==
    ASSUME NEW lg, NEW r, NEW k \in Nat
    PROVE  Exists(lg, r, k + 1) <=> Exists(lg, r, k) \/ r \in lg[k + 1].insert
BY DEF Exists

--------------------------------------------------------------------------------
(* The initial state.                                                      *)
LEMMA InitInv == Init => Inv
<1> SUFFICES ASSUME Init PROVE Inv
  BY Zenon
<1> USE ConstantsAssumption DEF ConstantsAssumption
<1>e. InFlight = {}
  BY Zenon DEF Init, InFlight
<1>d. Done = 0 /\ RecoveryPoint = 0 /\ Running
  BY DEF Init, Done, RecoveryPoint, Running, AfterFlush
<1>0. FlagsOK
  BY Zenon DEF Init, FlagsOK
<1>1. TypeOK
  BY <1>0 DEF Init, TypeOK, ProgramPoints, Epochs, Values, Tags, SlotIds, Junk
<1>2. WellFormed(log, NEpochs)
  BY Zenon DEF Init
<1>3. MarkerInv
  BY Zenon DEF Init, MarkerInv, BeforeBump, AfterFlush
<1>a. ASSUME NEW r \in Records
      PROVE  /\ Exists(log, r, 0) <=> r \in Initial
             /\ r \in Initial => Latest(log, r, 0, storeVal[r][1])
             /\ \A s \in SlotIds : storeVer[r][s] = 0
             /\ Newest(storeVer[r]) = 1
             /\ Newest(Demote(storeVer[r], 1)) = 1
  BY DEF Init, Exists, Latest, SlotIds, Newest, Demote, DemoteTag
<1>4. StoreInv
  BY <1>a, <1>d DEF StoreInv, RollbackBase, SlotIds
<1>5. LandedInv
  BY <1>a, <1>d DEF LandedInv, SlotIds
<1>6. FlightInv
  BY <1>e, Zenon DEF FlightInv, InFlight
<1>7. ResidentInv
  BY <1>e, <1>d, Zenon DEF ResidentInv, Init, Executed
<1>8. CacheInv
  BY Zenon DEF CacheInv, Init
<1>9. UndoInv
  BY Zenon DEF UndoInv, Init
<1> QED
  BY <1>1, <1>2, <1>3, <1>4, <1>5, <1>6, <1>7, <1>8, <1>9, Zenon DEF Inv

--------------------------------------------------------------------------------
(* Consequences of the invariant that every step uses.                     *)
LEMMA Basics ==
    ASSUME Inv
    PROVE  /\ NEpochs \in Nat \ {0}
           /\ epoch \in 1 .. NEpochs
           /\ marker \in 0 .. NEpochs + 1
           /\ RecoveryPoint \in Nat
           /\ Done \in Nat
           /\ \A r \in Records, s \in SlotIds : storeVer[r][s] \in Nat
           /\ \A x \in InFlight : x \in Entry /\ x.rec \in Records /\ x.slot \in SlotIds
           /\ InFlight \subseteq Entry
BY ConstantsAssumption
   DEF ConstantsAssumption, Inv, TypeOK, Epochs, Tags, RecoveryPoint, Done, InFlight, Entry

--------------------------------------------------------------------------------
(* The writeback worker.                                                   *)

(* The worker starts copying a value: only a slot that rollback discards   *)
(* may tear, a slot that already holds the value does not change.          *)
LEMMA ValueCopyBeginStep ==
    ASSUME Inv, NEW x \in part, ValueCopyBegin(x)
    PROVE  Inv'
<1> USE ConstantsAssumption DEF ConstantsAssumption
<1>b. /\ RecoveryPoint \in Nat /\ Done \in Nat
      /\ x \in InFlight /\ x.rec \in Records /\ x.slot \in SlotIds
      /\ \A r \in Records, s \in SlotIds : storeVer[r][s] \in Nat
  BY Basics, Zenon DEF InFlight
<1>f. /\ UNCHANGED <<log, storeVer, marker, epoch, pc, resident, cacheVer, cacheVal>>
      /\ UNCHANGED <<dirty, gather, sgDone, valid, rest, copied, undo, crashes>>
      /\ part' = part \ {x} /\ copying' = copying \cup {x}
  BY Zenon DEF ValueCopyBegin, cache
<1>i. InFlight' = InFlight
  BY <1>f, Zenon DEF InFlight
<1>d. Done' = Done /\ RecoveryPoint' = RecoveryPoint /\ Running' = Running
  BY <1>f, Zenon DEF Done, RecoveryPoint, Running
<1>v. /\ \A r \in Records, s \in SlotIds :
            ~(r = x.rec /\ s = x.slot) => storeVal'[r][s] = storeVal[r][s]
      /\ storeVal[x.rec][x.slot] = x.val => storeVal'[x.rec][x.slot] = x.val
      /\ storeVal' \in [Records -> [SlotIds -> Values]]
  BY <1>b DEF ValueCopyBegin, Inv, TypeOK, Values
<1>1. TypeOK'
  BY <1>f, <1>v, Zenon DEF Inv, TypeOK, FlagsOK
<1>2. WellFormed(log, NEpochs)'
  BY <1>f, Zenon DEF Inv
<1>3. MarkerInv'
  BY <1>f, Zenon DEF Inv, MarkerInv
<1>4. StoreInv'
  <2>1. ASSUME NEW r \in Records PROVE RollbackBase(r)' = RollbackBase(r)
    <3>1. Newest(Demote(storeVer[r], RecoveryPoint + 1)) \in SlotIds
      BY Zenon DEF Newest, SlotIds
    <3>2. r = x.rec => x.slot # Newest(Demote(storeVer[r], RecoveryPoint + 1))
      BY <1>b DEF Inv, FlightInv
    <3> QED BY <3>1, <3>2, <1>f, <1>d, <1>v, Zenon DEF RollbackBase
  <2> QED BY <2>1, <1>f, <1>d, Zenon DEF Inv, StoreInv
<1>5. LandedInv'
  BY <1>b, <1>f, <1>i, <1>d, <1>v, Zenon DEF Inv, LandedInv, Newest, SlotIds
<1>6. FlightInv'
  <2>1. \A y \in copied : storeVal'[y.rec][y.slot] = y.val
    <3> SUFFICES ASSUME NEW y \in copied PROVE storeVal'[y.rec][y.slot] = y.val
      BY Zenon
    <3>1. y \in InFlight /\ storeVal[y.rec][y.slot] = y.val
      BY Zenon DEF Inv, FlightInv, InFlight
    <3>2. y.rec \in Records /\ y.slot \in SlotIds /\ (y.rec = x.rec => y = x)
      BY <3>1, <1>b, Basics, Zenon DEF Inv, FlightInv
    <3> QED BY <3>1, <3>2, <1>v, Zenon
  <2> QED BY <2>1, <1>f, <1>i, <1>d, Zenon DEF Inv, FlightInv
<1>7. ResidentInv'
  BY <1>f, <1>i, <1>d, Zenon DEF Inv, ResidentInv
<1>8. CacheInv'
  BY <1>f, <1>i, <1>d, ZenonT(40) DEF Inv, CacheInv, Coherent, Written
<1>9. UndoInv'
  BY <1>f, <1>d, Zenon DEF Inv, UndoInv
<1> QED
  BY <1>1, <1>2, <1>3, <1>4, <1>5, <1>6, <1>7, <1>8, <1>9, Zenon DEF Inv

(* The worker finishes a value; its tag is still the old one.              *)
LEMMA ValueCopyEndStep ==
    ASSUME Inv, NEW x \in copying, ValueCopyEnd(x)
    PROVE  Inv'
<1> USE ConstantsAssumption DEF ConstantsAssumption
<1>b. /\ RecoveryPoint \in Nat /\ Done \in Nat
      /\ x \in InFlight /\ x.rec \in Records /\ x.slot \in SlotIds
      /\ x \in Entry
      /\ \A r \in Records, s \in SlotIds : storeVer[r][s] \in Nat
  BY Basics, Zenon DEF InFlight
<1>f. /\ UNCHANGED <<log, storeVer, marker, epoch, pc, resident, cacheVer, cacheVal>>
      /\ UNCHANGED <<dirty, gather, sgDone, valid, part, rest, undo, crashes>>
      /\ copying' = copying \ {x} /\ copied' = copied \cup {x}
  BY Zenon DEF ValueCopyEnd, cache, handle
<1>i. InFlight' = InFlight
  BY <1>f, Zenon DEF InFlight
<1>d. Done' = Done /\ RecoveryPoint' = RecoveryPoint /\ Running' = Running
  BY <1>f, Zenon DEF Done, RecoveryPoint, Running
<1>v. /\ \A r \in Records, s \in SlotIds :
            ~(r = x.rec /\ s = x.slot) => storeVal'[r][s] = storeVal[r][s]
      /\ storeVal'[x.rec][x.slot] = x.val
      /\ storeVal' \in [Records -> [SlotIds -> Values]]
  BY <1>b, Zenon DEF ValueCopyEnd, Inv, TypeOK, Values, Entry
<1>1. TypeOK'
  BY <1>f, <1>v, Zenon DEF Inv, TypeOK, FlagsOK
<1>2. WellFormed(log, NEpochs)'
  BY <1>f, Zenon DEF Inv
<1>3. MarkerInv'
  BY <1>f, Zenon DEF Inv, MarkerInv
<1>4. StoreInv'
  <2>1. ASSUME NEW r \in Records PROVE RollbackBase(r)' = RollbackBase(r)
    <3>1. Newest(Demote(storeVer[r], RecoveryPoint + 1)) \in SlotIds
      BY Zenon DEF Newest, SlotIds
    <3>2. r = x.rec => x.slot # Newest(Demote(storeVer[r], RecoveryPoint + 1))
      BY <1>b DEF Inv, FlightInv
    <3> QED BY <3>1, <3>2, <1>f, <1>d, <1>v, Zenon DEF RollbackBase
  <2> QED BY <2>1, <1>f, <1>d, Zenon DEF Inv, StoreInv
<1>5. LandedInv'
  BY <1>b, <1>f, <1>i, <1>d, <1>v, Zenon DEF Inv, LandedInv, Newest, SlotIds
<1>6. FlightInv'
  <2>1. \A y \in copied' : storeVal'[y.rec][y.slot] = y.val
    <3> SUFFICES ASSUME NEW y \in copied, y # x
                 PROVE  storeVal'[y.rec][y.slot] = y.val
      BY <1>f, <1>v, Zenon
    <3>1. y \in InFlight /\ storeVal[y.rec][y.slot] = y.val
      BY Zenon DEF Inv, FlightInv, InFlight
    <3>2. y.rec \in Records /\ y.slot \in SlotIds /\ (y.rec = x.rec => y = x)
      BY <3>1, <1>b, Basics, Zenon DEF Inv, FlightInv
    <3> QED BY <3>1, <3>2, <1>v, Zenon
  <2> QED BY <2>1, <1>f, <1>i, <1>d, Zenon DEF Inv, FlightInv
<1>7. ResidentInv'
  BY <1>f, <1>i, <1>d, Zenon DEF Inv, ResidentInv
<1>8. CacheInv'
  BY <1>f, <1>i, <1>d, Zenon DEF Inv, CacheInv, Coherent, Written
<1>9. UndoInv'
  BY <1>f, <1>d, Zenon DEF Inv, UndoInv
<1> QED
  BY <1>1, <1>2, <1>3, <1>4, <1>5, <1>6, <1>7, <1>8, <1>9, Zenon DEF Inv

(* The worker turns to the second half of the flush set.                   *)
LEMMA SecondHalfStep ==
    ASSUME Inv, SecondHalf
    PROVE  Inv'
<1>f. /\ UNCHANGED <<log, storeVer, storeVal, marker, epoch, pc, resident, cacheVer>>
      /\ UNCHANGED <<cacheVal, dirty, gather, sgDone, valid, copying, copied>>
      /\ UNCHANGED <<undo, crashes>>
      /\ part = {} /\ part' = rest /\ rest' = {}
  BY Zenon DEF SecondHalf, durable, cache, landing
<1>i. InFlight' = InFlight
  BY <1>f, Zenon DEF InFlight
<1>d. Done' = Done /\ RecoveryPoint' = RecoveryPoint /\ Running' = Running
  BY <1>f, Zenon DEF Done, RecoveryPoint, Running
<1>1. TypeOK'
  BY <1>f, Zenon DEF Inv, TypeOK, FlagsOK
<1>2. WellFormed(log, NEpochs)' /\ MarkerInv'
  BY <1>f, Zenon DEF Inv, MarkerInv
<1>4. StoreInv'
  BY <1>f, <1>d, Zenon DEF Inv, StoreInv, RollbackBase
<1>5. LandedInv'
  BY <1>f, <1>i, <1>d, Zenon DEF Inv, LandedInv
<1>6. FlightInv'
  BY <1>f, <1>i, <1>d, Zenon DEF Inv, FlightInv
<1>7. ResidentInv'
  BY <1>f, <1>i, <1>d, Zenon DEF Inv, ResidentInv
<1>8. CacheInv'
  BY <1>f, <1>i, <1>d, ZenonT(40) DEF Inv, CacheInv, Coherent, Written
<1>9. UndoInv'
  BY <1>f, <1>d, Zenon DEF Inv, UndoInv
<1> QED
  BY <1>1, <1>2, <1>4, <1>5, <1>6, <1>7, <1>8, <1>9, Zenon DEF Inv

(* The tag makes the copied value the newest of its record, and the entry  *)
(* leaves the flight unless the second half holds it once more.            *)
LEMMA TagStoreStep ==
    ASSUME Inv, NEW x \in copied, TagStore(x)
    PROVE  Inv'
<1> USE ConstantsAssumption DEF ConstantsAssumption
<1>b. /\ RecoveryPoint \in Nat /\ Done \in Nat
      /\ x \in InFlight /\ x.rec \in Records /\ x.slot \in SlotIds
      /\ x \in Entry
      /\ \A r \in Records, s \in SlotIds : storeVer[r][s] \in Nat
  BY Basics, Zenon DEF InFlight
<1>x. /\ Running /\ Done >= 1 /\ RecoveryPoint = Done - 1
      /\ x.ver = Done /\ x.val = Done
      /\ x.rec \in log[Done].write
      /\ storeVer[x.rec][Other(x.slot)] < Done
      /\ x.slot # Newest(Demote(storeVer[x.rec], Done))
      /\ storeVal[x.rec][x.slot] = Done
  BY <1>b, Zenon DEF Inv, FlightInv
<1>f. /\ UNCHANGED <<log, storeVal, marker, epoch, pc, resident, cacheVer, cacheVal>>
      /\ UNCHANGED <<dirty, gather, sgDone, valid, part, rest, copying, undo, crashes>>
      /\ copied' = copied \ {x}
  BY Zenon DEF TagStore, cache, handle
<1>i. /\ InFlight' \subseteq InFlight
      /\ \A y \in InFlight : y # x => y \in InFlight'
      /\ copied' \subseteq InFlight'
  BY <1>f, Zenon DEF InFlight
<1>d. Done' = Done /\ RecoveryPoint' = RecoveryPoint /\ Running' = Running
  BY <1>f, Zenon DEF Done, RecoveryPoint, Running
<1>v. /\ \A r \in Records, s \in SlotIds :
            storeVer'[r][s] = IF r = x.rec /\ s = x.slot THEN Done ELSE storeVer[r][s]
      /\ storeVer' \in [Records -> [SlotIds -> Tags]]
  BY <1>b, <1>x DEF TagStore, Inv, TypeOK, Tags, Entry, Epochs
<1>n. /\ Newest(storeVer'[x.rec]) = x.slot
      /\ Newest(Demote(storeVer'[x.rec], Done)) = Newest(Demote(storeVer[x.rec], Done))
  BY <1>b, <1>x, <1>v DEF Newest, Demote, DemoteTag, SlotIds, Other
<1>r. ASSUME NEW r \in Records, r # x.rec
      PROVE  /\ Newest(storeVer'[r]) = Newest(storeVer[r])
             /\ \A k : Newest(Demote(storeVer'[r], k)) = Newest(Demote(storeVer[r], k))
  BY <1>r, <1>v, Zenon DEF Newest, Demote, DemoteTag, SlotIds
<1>1. TypeOK'
  BY <1>f, <1>v, Zenon DEF Inv, TypeOK, FlagsOK
<1>2. WellFormed(log, NEpochs)' /\ MarkerInv'
  BY <1>f, Zenon DEF Inv, MarkerInv
<1>m. marker >= 2
  BY <1>x, Basics DEF Inv, TypeOK, MarkerInv, Running, Done, RecoveryPoint, BeforeBump,
     AfterFlush, ProgramPoints
<1>4. StoreInv'
  <2> SUFFICES ASSUME NEW r \in Records
               PROVE /\ Exists(log, r, RecoveryPoint)
                          => Latest(log, r, RecoveryPoint, RollbackBase(r)')
                     /\ \E s \in SlotIds : storeVer'[r][s] <= RecoveryPoint
                     /\ ~Exists(log, r, RecoveryPoint) =>
                          \A s \in SlotIds :
                              storeVer'[r][s] = 0 \/ storeVer'[r][s] > RecoveryPoint
    BY <1>m, <1>f, <1>d, Basics DEF StoreInv
  <2>1. RollbackBase(r)' = RollbackBase(r)
    <3>1. Newest(Demote(storeVer'[r], RecoveryPoint + 1))
            = Newest(Demote(storeVer[r], RecoveryPoint + 1))
      <4>1. RecoveryPoint + 1 = Done BY <1>x, <1>b
      <4> QED BY <4>1, <1>n, <1>r, Zenon
    <3> QED BY <3>1, <1>f, <1>d, Zenon DEF RollbackBase
  <2>2. \E s \in SlotIds : storeVer'[r][s] <= RecoveryPoint
    <3>1. CASE r = x.rec
      <4>1. Other(x.slot) \in SlotIds /\ Other(x.slot) # x.slot
        BY <1>b DEF Other, SlotIds
      <4> QED BY <4>1, <3>1, <1>b, <1>x, <1>v
    <3>2. CASE r # x.rec
      BY <3>2, <1>v DEF Inv, StoreInv
    <3> QED BY <3>1, <3>2, Zenon
  <2>3. ~Exists(log, r, RecoveryPoint) =>
           \A s \in SlotIds : storeVer'[r][s] = 0 \/ storeVer'[r][s] > RecoveryPoint
    BY <1>b, <1>x, <1>v DEF Inv, StoreInv
  <2> QED BY <2>1, <2>2, <2>3, Zenon DEF Inv, StoreInv
<1>5. LandedInv'
  <2> SUFFICES ASSUME NEW r \in Records
               PROVE /\ \A s \in SlotIds : storeVer'[r][s] <= Done
                     /\ Exists(log, r, Done) /\ (\A y \in InFlight' : y.rec # r) =>
                          Latest(log, r, Done, storeVal[r][Newest(storeVer'[r])])
                     /\ ~Exists(log, r, Done) => \A s \in SlotIds : storeVer'[r][s] = 0
    BY <1>f, <1>d, Zenon DEF LandedInv
  <2>1. \A s \in SlotIds : storeVer'[r][s] <= Done
    BY <1>b, <1>x, <1>v DEF Inv, LandedInv
  <2>2. CASE r = x.rec
    <3>1. Latest(log, r, Done, storeVal[r][Newest(storeVer'[r])])
      BY <2>2, <1>b, <1>x, <1>n, LatestWritten
    <3>2. Exists(log, r, Done)
      <4>1. Done \in 1 .. NEpochs
        BY <1>x, Basics DEF Done
      <4>2. r \in log[Done].touch
        BY <4>1, <2>2, <1>x, Zenon DEF Inv, WellFormed
      <4>3. Exists(log, r, Done - 1) \/ r \in log[Done].insert
        BY <4>1, <4>2, Zenon DEF Inv, WellFormed
      <4> QED BY <4>1, <4>3 DEF Exists
    <3> QED BY <2>1, <3>1, <3>2, Zenon
  <2>3. CASE r # x.rec
    BY <2>3, <2>1, <1>x, <1>i, <1>r, <1>v, SMTT(60) DEF Inv, LandedInv
  <2> QED BY <2>2, <2>3, Zenon
<1>6. FlightInv'
  <2>1. ASSUME NEW y \in InFlight'
        PROVE  /\ Running /\ Done >= 1 /\ RecoveryPoint = Done - 1
               /\ y.ver = Done /\ y.val = Done
               /\ y.rec \in log[Done].write
               /\ storeVer'[y.rec][Other(y.slot)] < Done
               /\ y.slot # Newest(Demote(storeVer'[y.rec], Done))
    <3>1. y \in InFlight /\ y.rec \in Records /\ y.slot \in SlotIds
      BY <1>i, Basics, Zenon
    <3>2. y.rec = x.rec => y = x
      BY <3>1, <1>b, Zenon DEF Inv, FlightInv
    <3>3. Other(y.slot) \in SlotIds /\ Other(y.slot) # y.slot
      BY <3>1 DEF Other, SlotIds
    <3> QED BY <3>1, <3>2, <3>3, <1>v, <1>n, <1>r, SMTT(60) DEF Inv, FlightInv
  <2>2. \A y \in copied' : storeVal[y.rec][y.slot] = y.val
    BY <1>f, Zenon DEF Inv, FlightInv
  <2> QED BY <2>1, <2>2, <1>f, <1>i, <1>d, Zenon DEF Inv, FlightInv
<1>7. ResidentInv'
  BY <1>f, <1>i, <1>d, ZenonT(40) DEF Inv, ResidentInv
<1>8. CacheInv'
  <2>1. \A r \in Records, s \in SlotIds :
           EffTag(InFlight', storeVer', Done, r, s) = EffTag(InFlight, storeVer, Done, r, s)
    BY <1>b, <1>i, <1>v, Basics DEF EffTag
  <2> QED BY <2>1, <1>f, <1>d, SMTT(60) DEF Inv, TypeOK, CacheInv, Coherent, Written, SlotIds, Other
<1>9. UndoInv'
  BY <1>x, <1>d, Zenon DEF UndoInv, Running
<1> QED
  BY <1>1, <1>2, <1>4, <1>5, <1>6, <1>7, <1>8, <1>9, Zenon DEF Inv

--------------------------------------------------------------------------------
(* The end of an epoch, crashes and recovery.                              *)

(* After the join of sync_flush nothing is in flight.                      *)
LEMMA SyncFlushStep ==
    ASSUME Inv, SyncFlush
    PROVE  Inv'
<1>f. /\ UNCHANGED <<log, storeVer, storeVal, marker, epoch, resident, cacheVer>>
      /\ UNCHANGED <<cacheVal, dirty, gather, sgDone, part, rest, copying, copied>>
      /\ UNCHANGED <<undo, crashes>>
      /\ pc = "sync" /\ pc' = "bump" /\ valid' = FALSE
  BY Zenon DEF SyncFlush, durable, cache, landing
<1>i. InFlight = {} /\ InFlight' = InFlight
  BY <1>f, Zenon DEF SyncFlush, WorkerIdle, Inv, FlightInv, InFlight
<1>d. /\ Done' = Done /\ RecoveryPoint' = RecoveryPoint
      /\ Running /\ Running'
  BY <1>f, Zenon DEF Done, RecoveryPoint, Running, AfterFlush
<1>0. FlagsOK'
  BY <1>f, Zenon DEF FlagsOK, Inv, TypeOK
<1>1. TypeOK'
  BY <1>0, <1>f, Zenon DEF Inv, TypeOK, ProgramPoints
<1>2. WellFormed(log, NEpochs)' /\ MarkerInv'
  BY <1>f, Zenon DEF Inv, MarkerInv, BeforeBump, AfterFlush
<1>4. StoreInv'
  BY <1>f, <1>d, Zenon DEF Inv, StoreInv, RollbackBase
<1>5. LandedInv'
  BY <1>f, <1>i, <1>d, Zenon DEF Inv, LandedInv
<1>6. FlightInv'
  BY <1>f, <1>i, <1>d, Zenon DEF FlightInv, InFlight
<1>7. ResidentInv'
  BY <1>f, <1>i, <1>d, Zenon DEF Inv, ResidentInv, Executed
<1>8. CacheInv'
  BY <1>f, <1>i, <1>d, ZenonT(40) DEF Inv, CacheInv, Coherent, Written, Executed
<1>9. UndoInv'
  BY <1>f, Zenon DEF UndoInv
<1> QED
  BY <1>1, <1>2, <1>4, <1>5, <1>6, <1>7, <1>8, <1>9, Zenon DEF Inv

(* With the previous epoch landed, the whole store is the serial state at  *)
(* its end, which is what the new marker promises to recovery.             *)
LEMMA BumpMarkerStep ==
    ASSUME Inv, BumpMarker
    PROVE  Inv'
<1> USE ConstantsAssumption DEF ConstantsAssumption
<1>f. /\ UNCHANGED <<log, storeVer, storeVal, epoch, resident, cacheVer>>
      /\ UNCHANGED <<cacheVal, dirty, gather, sgDone, valid, part, rest, copying, copied>>
      /\ UNCHANGED <<undo, crashes>>
      /\ pc = "bump" /\ pc' = "flush" /\ marker' = epoch + 1
  BY Zenon DEF BumpMarker, cache, handle, landing
<1>i. InFlight = {} /\ InFlight' = InFlight
  BY <1>f, Zenon DEF Inv, FlightInv, InFlight
<1>d. /\ Done' = Done /\ RecoveryPoint' = Done /\ Done = epoch - 1
      /\ Running /\ Running'
  BY <1>f, Basics DEF Done, RecoveryPoint, Running, AfterFlush
<1>1. TypeOK'
  BY <1>f, Basics DEF Inv, TypeOK, ProgramPoints, FlagsOK
<1>2. WellFormed(log, NEpochs)' /\ MarkerInv'
  BY <1>f, Zenon DEF Inv, MarkerInv, BeforeBump, AfterFlush
<1>4. StoreInv'
  <2>1. ASSUME NEW r \in Records
        PROVE  RollbackBase(r)' = storeVal[r][Newest(storeVer[r])]
    <3>1. \A s \in SlotIds : storeVer[r][s] \in Nat /\ storeVer[r][s] <= Done
      BY <1>d, Basics, Zenon DEF Inv, LandedInv
    <3>2. Done \in Nat BY Basics, Zenon
    <3>3. Newest(Demote(storeVer[r], Done + 1)) = Newest(storeVer[r])
      BY <3>1, <3>2 DEF Newest, Demote, DemoteTag, SlotIds
    <3> QED BY <3>3, <1>f, <1>d, Zenon DEF RollbackBase
  <2> QED BY <2>1, <1>f, <1>i, <1>d, Basics DEF Inv, StoreInv, LandedInv, SlotIds
<1>5. LandedInv'
  BY <1>f, <1>i, <1>d, Zenon DEF Inv, LandedInv
<1>6. FlightInv'
  BY <1>f, <1>i, <1>d, Zenon DEF FlightInv, InFlight
<1>7. ResidentInv'
  BY <1>f, <1>i, <1>d, Zenon DEF Inv, ResidentInv, Executed
<1>8. CacheInv'
  BY <1>f, <1>i, <1>d, ZenonT(40) DEF Inv, CacheInv, Coherent, Written, Executed
<1>9. UndoInv'
  BY <1>f, Zenon DEF UndoInv
<1> QED
  BY <1>1, <1>2, <1>4, <1>5, <1>6, <1>7, <1>8, <1>9, Zenon DEF Inv

(* The synchronous flush is complete and the next epoch starts.            *)
LEMMA FinishPeriodicFlushStep ==
    ASSUME Inv, FinishPeriodicFlush
    PROVE  Inv'
<1> USE ConstantsAssumption DEF ConstantsAssumption
<1>f. /\ UNCHANGED <<log, storeVer, storeVal, marker, resident, cacheVer>>
      /\ UNCHANGED <<cacheVal, gather, sgDone, valid, part, rest, copying, copied>>
      /\ UNCHANGED <<undo, crashes>>
      /\ pc = "drain" /\ dirty' = {}
      /\ \/ epoch < NEpochs /\ epoch' = epoch + 1 /\ pc' = "prepare"
         \/ epoch = NEpochs /\ epoch' = epoch /\ pc' = "final"
  BY Basics DEF FinishPeriodicFlush, Advance, durable, cache, handle, landing
<1>i. InFlight = {} /\ InFlight' = InFlight
  BY <1>f, Zenon DEF FinishPeriodicFlush, WorkerIdle, InFlight
<1>d. /\ Done' = Done /\ RecoveryPoint' = RecoveryPoint
      /\ Running /\ Running'
  BY <1>f, Basics DEF Done, RecoveryPoint, Running, AfterFlush
<1>1. TypeOK'
  BY <1>f, Basics, SMTT(20) DEF Inv, TypeOK, ProgramPoints, FlagsOK, Epochs
<1>2. WellFormed(log, NEpochs)' /\ MarkerInv'
  BY <1>f, Basics DEF Inv, MarkerInv, BeforeBump, AfterFlush
<1>4. StoreInv'
  BY <1>f, <1>d, Zenon DEF Inv, StoreInv, RollbackBase
<1>5. LandedInv'
  BY <1>f, <1>i, <1>d, Zenon DEF Inv, LandedInv
<1>6. FlightInv'
  BY <1>f, <1>i, <1>d, Zenon DEF FlightInv, InFlight
<1>7. ResidentInv'
  BY <1>f, <1>i, <1>d, Zenon DEF Inv, ResidentInv, Executed
<1>8. CacheInv'
  BY <1>f, <1>i, <1>d, Zenon DEF Inv, CacheInv, Coherent, Executed
<1>9. UndoInv'
  BY <1>f, Zenon DEF UndoInv
<1> QED
  BY <1>1, <1>2, <1>4, <1>5, <1>6, <1>7, <1>8, <1>9, Zenon DEF Inv

(* Releasing the last worker changes no record.                            *)
LEMMA FinalSignalStep ==
    ASSUME Inv, FinalSignal
    PROVE  Inv'
<1>f. /\ UNCHANGED <<log, storeVer, storeVal, marker, epoch, resident, cacheVer>>
      /\ UNCHANGED <<cacheVal, dirty, gather, valid, part, rest, copying, copied>>
      /\ UNCHANGED <<undo, crashes>>
      /\ pc = "final" /\ pc' = "join"
  BY Zenon DEF FinalSignal, durable, cache, handle, landing
<1>i. InFlight' = InFlight
  BY <1>f, Zenon DEF InFlight
<1>d. /\ Done' = Done /\ RecoveryPoint' = RecoveryPoint
      /\ Running /\ Running'
  BY <1>f, Zenon DEF Done, RecoveryPoint, Running, AfterFlush
<1>0. FlagsOK'
  BY <1>f, Zenon DEF FlagsOK, Inv, TypeOK, FinalSignal
<1>1. TypeOK'
  BY <1>0, <1>f, Zenon DEF Inv, TypeOK, ProgramPoints
<1>2. WellFormed(log, NEpochs)' /\ MarkerInv'
  BY <1>f, Zenon DEF Inv, MarkerInv, BeforeBump, AfterFlush
<1>4. StoreInv'
  BY <1>f, <1>d, Zenon DEF Inv, StoreInv, RollbackBase
<1>5. LandedInv'
  BY <1>f, <1>i, <1>d, Zenon DEF Inv, LandedInv
<1>6. FlightInv'
  BY <1>f, <1>i, <1>d, Zenon DEF Inv, FlightInv
<1>7. ResidentInv'
  BY <1>f, <1>i, <1>d, Zenon DEF Inv, ResidentInv, Executed
<1>8. CacheInv'
  BY <1>f, <1>i, <1>d, Zenon DEF Inv, CacheInv, Coherent, Executed
<1>9. UndoInv'
  BY <1>f, Zenon DEF UndoInv
<1> QED
  BY <1>1, <1>2, <1>4, <1>5, <1>6, <1>7, <1>8, <1>9, Zenon DEF Inv

(* After the last join the store holds every committed value.              *)
LEMMA FinalJoinStep ==
    ASSUME Inv, FinalJoin
    PROVE  Inv'
<1>f. /\ UNCHANGED <<log, storeVer, storeVal, marker, epoch, resident, cacheVer>>
      /\ UNCHANGED <<cacheVal, dirty, gather, sgDone, part, rest, copying, copied>>
      /\ UNCHANGED <<undo, crashes>>
      /\ pc = "join" /\ pc' = "done" /\ valid' = FALSE
  BY Zenon DEF FinalJoin, durable, cache, landing
<1>i. InFlight = {} /\ InFlight' = InFlight
  BY <1>f, Zenon DEF FinalJoin, WorkerIdle, Inv, FlightInv, InFlight
<1>d. /\ Done' = Done /\ RecoveryPoint' = RecoveryPoint
      /\ Running /\ Running'
  BY <1>f, Zenon DEF Done, RecoveryPoint, Running, AfterFlush
<1>0. FlagsOK'
  BY <1>f, Zenon DEF FlagsOK, Inv, TypeOK
<1>1. TypeOK'
  BY <1>0, <1>f, Zenon DEF Inv, TypeOK, ProgramPoints
<1>2. WellFormed(log, NEpochs)' /\ MarkerInv'
  BY <1>f, Zenon DEF Inv, MarkerInv, BeforeBump, AfterFlush
<1>4. StoreInv'
  BY <1>f, <1>d, Zenon DEF Inv, StoreInv, RollbackBase
<1>5. LandedInv'
  BY <1>f, <1>i, <1>d, Zenon DEF Inv, LandedInv
<1>6. FlightInv'
  BY <1>f, <1>i, <1>d, Zenon DEF FlightInv, InFlight
<1>7. ResidentInv'
  BY <1>f, <1>i, <1>d, Zenon DEF Inv, ResidentInv, Executed
<1>8. CacheInv'
  BY <1>f, <1>i, <1>d, Zenon DEF Inv, CacheInv, Coherent, Executed
<1>9. UndoInv'
  BY <1>f, Zenon DEF UndoInv
<1> QED
  BY <1>1, <1>2, <1>4, <1>5, <1>6, <1>7, <1>8, <1>9, Zenon DEF Inv

--------------------------------------------------------------------------------
(* Crash and recovery.                                                     *)

(* A crash loses the cache and the flight; the store and the marker keep   *)
(* what recovery needs.                                                    *)
LEMMA CrashStep ==
    ASSUME Inv, Crash
    PROVE  Inv'
<1> USE ConstantsAssumption DEF ConstantsAssumption
<1>f. /\ UNCHANGED <<log, storeVer, storeVal, marker>>
      /\ pc' = "recover" /\ epoch' = 1
      /\ resident' = [g \in Slots |-> None]
      /\ dirty' = {} /\ gather' = {} /\ undo' = {}
      /\ part' = {} /\ rest' = {} /\ copying' = {} /\ copied' = {}
  BY Zenon DEF Crash, durable
<1>i. InFlight' = {}
  BY <1>f, Zenon DEF InFlight
<1>d. RecoveryPoint' = RecoveryPoint /\ ~Running'
  BY <1>f, Zenon DEF RecoveryPoint, Running
<1>0. FlagsOK'
  BY Zenon DEF FlagsOK, Crash
<1>1. TypeOK'
  <2>1. 1 \in Epochs /\ 0 \in Tags /\ Junk \in Values
    BY DEF Epochs, Tags, Values
  <2>2. crashes' \in 0 .. MaxCrashes
    <3>1. crashes \in 0 .. MaxCrashes
      BY Zenon DEF Inv, TypeOK
    <3>2. crashes < MaxCrashes /\ crashes' = crashes + 1
      BY Zenon DEF Crash
    <3> QED BY <3>1, <3>2
  <2>3. /\ cacheVer' \in [Slots -> [SlotIds -> Tags]]
        /\ cacheVal' \in [Slots -> [SlotIds -> Values]]
        /\ resident' \in [Slots -> Records \cup {None}]
    BY <2>1, ZenonT(40) DEF Crash
  <2> QED BY <2>1, <2>2, <2>3, <1>0, <1>f, Zenon DEF Inv, TypeOK, ProgramPoints
<1>m. marker # 1
  BY <1>f, Basics, SMTT(60) DEF Inv, TypeOK, MarkerInv, BeforeBump, AfterFlush, ProgramPoints
<1>2. WellFormed(log, NEpochs)' /\ MarkerInv'
  BY <1>m, <1>f, Zenon DEF Inv, MarkerInv, BeforeBump, AfterFlush
<1>4. StoreInv'
  BY <1>f, <1>d, Zenon DEF Inv, StoreInv, RollbackBase
<1>5. LandedInv'
  BY <1>d, Zenon DEF LandedInv
<1>6. FlightInv'
  BY <1>f, <1>i, Zenon DEF FlightInv
<1>7. ResidentInv'
  BY <1>f, <1>i, <1>d, Zenon DEF ResidentInv, Executed
<1>8. CacheInv'
  BY <1>f, Zenon DEF CacheInv
<1>9. UndoInv'
  BY <1>f, Zenon DEF UndoInv
<1> QED
  BY <1>1, <1>2, <1>4, <1>5, <1>6, <1>7, <1>8, <1>9, Zenon DEF Inv

(* Without a usable marker nothing has ever been written back, and the     *)
(* store still is the initial population.                                  *)
LEMMA RecoverStep ==
    ASSUME Inv, Recover
    PROVE  Inv'
<1> USE ConstantsAssumption DEF ConstantsAssumption
<1>f. /\ UNCHANGED <<log, storeVer, storeVal, marker, epoch, resident, cacheVer>>
      /\ UNCHANGED <<cacheVal, dirty, gather, sgDone, valid, part, rest, copying>>
      /\ UNCHANGED <<copied, crashes>>
      /\ pc = "recover"
      /\ \/ marker < 2 /\ pc' = "prepare" /\ undo' = {}
         \/ ~(marker < 2) /\ pc' = "rollback" /\ undo' = Records \X SlotIds
  BY Zenon DEF Recover, durable, cache, handle, landing
<1>i. InFlight = {} /\ InFlight' = {}
  BY <1>f, ZenonT(40) DEF Inv, FlightInv, InFlight, Running
<1>e. epoch = 1 /\ marker \in Nat /\ marker # 1 /\ ~Running
  BY <1>f, Basics DEF Inv, MarkerInv, Running
<1>d. RecoveryPoint' = RecoveryPoint
  BY <1>f, Zenon DEF RecoveryPoint
<1>1. TypeOK'
  BY <1>f, Zenon DEF Inv, TypeOK, ProgramPoints, FlagsOK
<1>2. WellFormed(log, NEpochs)' /\ MarkerInv'
  BY <1>e, <1>f DEF Inv, MarkerInv, BeforeBump, AfterFlush
<1>4. StoreInv'
  BY <1>f, <1>d, Zenon DEF Inv, StoreInv, RollbackBase
<1>5. LandedInv'
  <2> SUFFICES ASSUME Running' PROVE LandedInv'
    BY Zenon DEF LandedInv
  <2>1. marker < 2 /\ pc' = "prepare"
    BY <1>f, Zenon DEF Running
  <2>2. Done' = 0 /\ RecoveryPoint = 0
    BY <2>1, <1>f, <1>e DEF Done, RecoveryPoint, AfterFlush
  <2>3. ASSUME NEW r \in Records
        PROVE  /\ \A s \in SlotIds : storeVer[r][s] = 0
               /\ Newest(Demote(storeVer[r], 1)) = Newest(storeVer[r])
    <3>1. \A s \in SlotIds : storeVer[r][s] = 0
      BY <2>1, Zenon DEF Inv, StoreInv
    <3> QED BY <3>1, Zenon DEF Newest, Demote, DemoteTag, SlotIds
  <2>4. ASSUME NEW r \in Records, Exists(log, r, 0)
        PROVE  Latest(log, r, 0, storeVal[r][Newest(storeVer[r])])
    <3>1. Latest(log, r, 0, RollbackBase(r))
      BY <2>2, <2>4, Zenon DEF Inv, StoreInv
    <3>2. RollbackBase(r) = storeVal[r][Newest(storeVer[r])]
      BY <2>2, <2>3 DEF RollbackBase
    <3> QED BY <3>1, <3>2, Zenon
  <2>5. \A r \in Records, s \in SlotIds : storeVer[r][s] <= 0
    BY <2>3
  <2> QED BY <2>2, <2>3, <2>4, <2>5, <1>f, Zenon DEF LandedInv
<1>6. FlightInv'
  BY <1>f, <1>i, Zenon DEF FlightInv, InFlight
<1>7. ResidentInv'
  BY <1>f, <1>i, <1>e, Zenon DEF Inv, ResidentInv, Executed
<1>8. CacheInv'
  BY <1>f, <1>e, Zenon DEF Inv, CacheInv, ResidentInv, Executed
<1>9. UndoInv'
  BY <1>f, Zenon DEF UndoInv
<1> QED
  BY <1>1, <1>2, <1>4, <1>5, <1>6, <1>7, <1>8, <1>9, Zenon DEF Inv

(* Demoting one tag leaves the value rollback would return to as it was.   *)
LEMMA RollbackTagStep ==
    ASSUME Inv, NEW r \in Records, NEW s \in SlotIds, RollbackTag(r, s)
    PROVE  Inv'
<1> USE ConstantsAssumption DEF ConstantsAssumption
<1>f. /\ UNCHANGED <<log, storeVal, marker, epoch, pc, resident, cacheVer>>
      /\ UNCHANGED <<cacheVal, dirty, gather, sgDone, valid, part, rest, copying>>
      /\ UNCHANGED <<copied, crashes>>
      /\ pc = "rollback"
      /\ undo' = undo \ {<<r, s>>}
  BY Zenon DEF RollbackTag, cache, handle, landing
<1>i. InFlight = {} /\ InFlight' = {}
  BY <1>f, Zenon DEF Inv, FlightInv, InFlight, Running
<1>d. /\ RecoveryPoint' = RecoveryPoint /\ RecoveryPoint = marker - 2
      /\ RecoveryPoint \in Nat /\ marker \in Nat /\ marker >= 2
      /\ ~Running /\ ~Running'
  BY <1>f, Basics DEF RecoveryPoint, Running, Inv, MarkerInv
<1>v. /\ \A q \in Records, t \in SlotIds :
            storeVer'[q][t] = IF q = r /\ t = s
                              THEN DemoteTag(storeVer[q][t], RecoveryPoint + 1)
                              ELSE storeVer[q][t]
      /\ storeVer' \in [Records -> [SlotIds -> Tags]]
  <2>1. marker - 1 = RecoveryPoint + 1
    BY <1>d
  <2> QED BY <2>1, <1>d DEF RollbackTag, DemoteTag, Inv, TypeOK, Tags
<1>n. /\ \A q \in Records, t \in SlotIds : storeVer[q][t] \in Nat
      /\ \A q \in Records, t \in SlotIds :
            /\ storeVer'[q][t] <= storeVer[q][t]
            /\ storeVer'[q][t] = storeVer[q][t] \/ storeVer'[q][t] = 0
            /\ DemoteTag(storeVer'[q][t], RecoveryPoint + 1)
                 = DemoteTag(storeVer[q][t], RecoveryPoint + 1)
  BY <1>v, <1>d, Basics DEF DemoteTag
<1>1. TypeOK'
  BY <1>f, <1>v, Zenon DEF Inv, TypeOK, FlagsOK
<1>2. WellFormed(log, NEpochs)' /\ MarkerInv'
  BY <1>f, ZenonT(40) DEF Inv, MarkerInv
<1>4. StoreInv'
  <2>1. ASSUME NEW q \in Records PROVE RollbackBase(q)' = RollbackBase(q)
    <3>1. Newest(Demote(storeVer'[q], RecoveryPoint + 1))
             = Newest(Demote(storeVer[q], RecoveryPoint + 1))
      BY <1>n, ZenonT(40) DEF Demote, Newest, SlotIds
    <3> QED BY <3>1, <1>f, <1>d, Zenon DEF RollbackBase
  <2>2. ASSUME NEW q \in Records
        PROVE  /\ \E t \in SlotIds : storeVer'[q][t] <= RecoveryPoint
               /\ ~Exists(log, q, RecoveryPoint) => \A t \in SlotIds :
                     storeVer'[q][t] = 0 \/ storeVer'[q][t] > RecoveryPoint
    BY <1>n, <1>d, SMTT(60) DEF Inv, StoreInv
  <2> QED BY <2>1, <2>2, <1>f, <1>d, SMTT(60) DEF Inv, StoreInv
<1>5. LandedInv'
  BY <1>d, Zenon DEF LandedInv
<1>6. FlightInv'
  BY <1>f, <1>i, Zenon DEF FlightInv, InFlight
<1>7. ResidentInv'
  BY <1>f, <1>i, <1>d, Zenon DEF Inv, ResidentInv
<1>8. CacheInv'
  BY <1>f, <1>d, ZenonT(40) DEF Inv, CacheInv, ResidentInv, Executed
<1>9. UndoInv'
  BY <1>f, <1>d, <1>v, <1>n, SMTT(60) DEF Inv, UndoInv, DemoteTag
<1> QED
  BY <1>1, <1>2, <1>4, <1>5, <1>6, <1>7, <1>8, <1>9, Zenon DEF Inv

(* Once every tag was visited the store is at the end of epoch E-2, where  *)
(* replay starts.                                                          *)
LEMMA RollbackDoneStep ==
    ASSUME Inv, RollbackDone
    PROVE  Inv'
<1> USE ConstantsAssumption DEF ConstantsAssumption
<1>f. /\ UNCHANGED <<log, storeVer, storeVal, marker, resident, cacheVer>>
      /\ UNCHANGED <<cacheVal, dirty, gather, sgDone, valid, part, rest, copying>>
      /\ UNCHANGED <<copied, undo, crashes>>
      /\ pc = "rollback" /\ pc' = "prepare" /\ undo = {} /\ epoch' = marker - 1
  BY Zenon DEF RollbackDone, durable, cache, handle, landing
<1>i. InFlight = {} /\ InFlight' = {}
  BY <1>f, Zenon DEF Inv, FlightInv, InFlight, Running
<1>d. /\ RecoveryPoint' = RecoveryPoint /\ RecoveryPoint = marker - 2
      /\ RecoveryPoint \in Nat /\ marker \in 2 .. NEpochs + 1
      /\ Done' = RecoveryPoint
      /\ ~Running /\ Running'
  <2>1. marker >= 2
    BY <1>f, Zenon DEF Inv, MarkerInv
  <2>2. marker \in 0 .. NEpochs + 1 /\ NEpochs \in Nat
    BY Basics
  <2>3. ~Running /\ Running' /\ pc' \notin AfterFlush
    BY <1>f, Zenon DEF Running, AfterFlush
  <2> QED BY <1>f, <2>1, <2>2, <2>3 DEF RecoveryPoint, Done
<1>1. TypeOK'
  BY <1>f, <1>d DEF Inv, TypeOK, ProgramPoints, FlagsOK, Epochs
<1>2. WellFormed(log, NEpochs)' /\ MarkerInv'
  BY <1>d, <1>f DEF Inv, MarkerInv, BeforeBump, AfterFlush
<1>4. StoreInv'
  BY <1>f, <1>d, ZenonT(40) DEF Inv, StoreInv, RollbackBase
<1>5. LandedInv'
  <2>1. ASSUME NEW r \in Records
        PROVE  /\ \A s \in SlotIds : storeVer[r][s] \in Nat /\ storeVer[r][s] <= RecoveryPoint
               /\ RollbackBase(r) = storeVal[r][Newest(storeVer[r])]
    <3>1. \A s \in SlotIds : storeVer[r][s] \in Nat /\ storeVer[r][s] <= RecoveryPoint
      BY <1>f, Basics, Zenon DEF Inv, UndoInv
    <3>2. Newest(Demote(storeVer[r], RecoveryPoint + 1)) = Newest(storeVer[r])
      BY <3>1, <1>d DEF Newest, Demote, DemoteTag, SlotIds
    <3> QED BY <3>1, <3>2, Zenon DEF RollbackBase
  <2> QED BY <2>1, <1>f, <1>d, SMTT(60) DEF Inv, StoreInv, LandedInv
<1>6. FlightInv'
  BY <1>f, <1>i, Zenon DEF FlightInv, InFlight
<1>7. ResidentInv'
  BY <1>f, <1>i, <1>d, Zenon DEF Inv, ResidentInv, Executed
<1>8. CacheInv'
  BY <1>f, <1>d, Zenon DEF Inv, CacheInv, ResidentInv, Executed
<1>9. UndoInv'
  BY <1>f, Zenon DEF UndoInv
<1> QED
  BY <1>1, <1>2, <1>4, <1>5, <1>6, <1>7, <1>8, <1>9, Zenon DEF Inv

--------------------------------------------------------------------------------
(* Staging and executing an epoch.                                         *)

(* A record an epoch touches existed before it or is inserted by it.       *)
LEMMA TouchedExists ==
    ASSUME Inv, NEW r \in log[epoch].touch
    PROVE  /\ r \in Records
           /\ Exists(log, r, epoch - 1) \/ r \in log[epoch].insert
           /\ r \in log[epoch].insert => ~Exists(log, r, epoch - 1)
<1>1. epoch \in 1 .. NEpochs /\ log[epoch] \in Batch
  BY ConstantsAssumption, Basics, Zenon DEF ConstantsAssumption, Inv, TypeOK, Epochs
<1> QED
  BY <1>1, Zenon DEF Inv, WellFormed, Batch

(* Binding cache slots: the records to transfer are not in flight, because *)
(* what is in flight stayed resident.                                      *)
LEMMA PrepareBindStep ==
    ASSUME Inv, PrepareBind
    PROVE  Inv'
<1> USE ConstantsAssumption DEF ConstantsAssumption
<1> DEFINE need == log[epoch].touch
           new  == need \ Held
<1>f. /\ UNCHANGED <<log, storeVer, storeVal, marker, epoch, cacheVer, cacheVal, dirty>>
      /\ UNCHANGED <<sgDone, valid, part, rest, copying, copied, undo, crashes>>
      /\ pc = "prepare" /\ pc' = "gather"
      /\ gather' = new \ log[epoch].insert
  BY Zenon DEF PrepareBind, durable, handle, landing
<1>p. PICK bind \in [new -> {g \in Slots : resident[g] \notin need}] :
        /\ \A r1, r2 \in new : bind[r1] = bind[r2] => r1 = r2
        /\ resident' = [g \in Slots |->
                          IF \E r \in new : bind[r] = g
                          THEN CHOOSE r \in new : bind[r] = g
                          ELSE resident[g]]
  BY Zenon DEF PrepareBind
<1> HIDE DEF need, new
<1>t. /\ need \subseteq Records
      /\ new = need \ Held
      /\ \A r \in need : /\ Exists(log, r, epoch - 1) \/ r \in log[epoch].insert
                         /\ r \in log[epoch].insert => ~Exists(log, r, epoch - 1)
  BY TouchedExists, Zenon DEF need, new
<1>i. InFlight' = InFlight
  BY <1>f, Zenon DEF InFlight
<1>d. Done' = Done /\ RecoveryPoint' = RecoveryPoint /\ Running' /\ Running /\ Done = epoch - 1
  BY <1>f, Zenon DEF Done, RecoveryPoint, Running, AfterFlush
(* A slot keeps its record, or gets a new one that no slot held before. *)
<1>r. \A g \in Slots : \/ resident'[g] = resident[g] /\ \A r \in new : bind[r] # g
                       \/ resident'[g] \in new /\ bind[resident'[g]] = g
  BY <1>p, Zenon
<1>b. \A r \in new : bind[r] \in Slots /\ resident'[bind[r]] = r
  BY <1>p, Zenon
<1>h. /\ \A g \in Slots : resident[g] \in Held \/ resident[g] = None
      /\ None \notin need
      /\ \A r \in Held : \E g \in Slots : resident[g] = r
  BY <1>t, Zenon DEF Held
<1>k. \A r \in need : r \notin new => \E g \in Slots : resident[g] = r /\ resident'[g] = r
  <2> SUFFICES ASSUME NEW r \in need, r \notin new
               PROVE \E g \in Slots : resident[g] = r /\ resident'[g] = r
    BY Zenon
  <2>1. PICK g \in Slots : resident[g] = r
    BY <1>t, <1>h, Zenon
  <2>2. \A q \in new : bind[q] # g
    BY <1>p, <2>1, Zenon
  <2> QED BY <2>1, <2>2, <1>r, Zenon
<1>1. TypeOK'
  <2>1. resident' \in [Slots -> Records \cup {None}]
    BY <1>p, <1>r, <1>t, ZenonT(40) DEF Inv, TypeOK
  <2>2. gather' \subseteq Records
    BY <1>f, <1>t, Zenon
  <2> QED BY <2>1, <2>2, <1>f, Zenon DEF Inv, TypeOK, FlagsOK, ProgramPoints
<1>2. WellFormed(log, NEpochs)' /\ MarkerInv'
  BY <1>f, Zenon DEF Inv, MarkerInv, BeforeBump, AfterFlush
<1>4. StoreInv'
  BY <1>f, <1>d, Zenon DEF Inv, StoreInv, RollbackBase
<1>5. LandedInv'
  BY <1>f, <1>d, <1>i, Zenon DEF Inv, LandedInv
<1>6. FlightInv'
  BY <1>f, <1>d, <1>i, Zenon DEF Inv, FlightInv
<1>7. ResidentInv'
  <2>1. \A g, h \in Slots : resident'[g] = resident'[h] /\ resident'[g] # None => g = h
    <3> SUFFICES ASSUME NEW g \in Slots, NEW h \in Slots,
                        resident'[g] = resident'[h], resident'[g] # None
                 PROVE  g = h
      BY Zenon
    <3>1. CASE resident'[g] \in new
      <4>1. resident[g] # resident'[g] /\ resident[h] # resident'[h]
        BY <3>1, <1>t, <1>h, Zenon
      <4> QED BY <4>1, <1>r, Zenon
    <3>2. CASE resident'[g] \notin new
      BY <3>2, <1>r, Zenon DEF Inv, ResidentInv
    <3> QED BY <3>1, <3>2, Zenon
  <2>2. \A r \in need : \E g \in Slots : resident'[g] = r
    BY <1>b, <1>k, Zenon
  <2>3. \A x \in InFlight : x.rec \notin new
    <3>1. \A x \in InFlight : x.rec \in Records /\ \E g \in Slots : resident[g] = x.rec
      BY <1>f, Basics, Zenon DEF Inv, FlightInv
    <3> QED BY <3>1, <1>t, Zenon DEF Held
  <2>4. \A g \in Slots : resident'[g] # None =>
           Exists(log, resident'[g], Done) \/ resident'[g] \in log[epoch].insert
    <3> SUFFICES ASSUME NEW g \in Slots, resident'[g] # None
                 PROVE  Exists(log, resident'[g], Done) \/ resident'[g] \in log[epoch].insert
      BY Zenon
    <3>1. CASE resident'[g] \in new
      BY <3>1, <1>t, <1>d, Zenon
    <3>2. CASE resident'[g] = resident[g]
      BY <3>2, <1>f, <1>d, Zenon DEF Inv, ResidentInv, Executed
    <3> QED BY <3>1, <3>2, <1>r, Zenon
  <2>5. gather' \subseteq log[epoch].touch \ log[epoch].insert
    BY <1>f, <1>t, Zenon DEF need
  <2>6. \A r \in log[epoch].touch : \E g \in Slots : resident'[g] = r
    BY <2>2, Zenon DEF need
  <2>7. \A x \in InFlight : x.rec \notin gather'
    BY <2>3, <1>f, Zenon
  <2> QED BY <2>1, <2>6, <2>7, <2>4, <2>5, <1>f, <1>i, <1>d, Zenon DEF ResidentInv
<1>8. CacheInv'
  <2>1. ASSUME NEW g \in Slots, resident'[g] # None, resident'[g] = resident[g]
        PROVE  Coherent(g)'
    <3>1. Coherent(g)
      BY <2>1, <1>f, Zenon DEF Inv, CacheInv, ResidentInv, Executed
    <3> QED BY <3>1, <2>1, <1>f, <1>d, <1>i, Zenon DEF Coherent
  <2>2. \A g \in Slots : resident'[g] # None => \/ Coherent(g)'
                                               \/ resident'[g] \in gather'
                                               \/ resident'[g] \in log[epoch].insert
    BY <2>1, <1>r, <1>f, Zenon
  <2>3. dirty' = {}
    BY <1>f, Zenon DEF Inv, CacheInv, Executed
  <2> QED BY <2>2, <2>3, <1>f, Zenon DEF CacheInv, Executed
<1>9. UndoInv'
  BY <1>f, Zenon DEF UndoInv
<1> QED
  BY <1>1, <1>2, <1>4, <1>5, <1>6, <1>7, <1>8, <1>9, Zenon DEF Inv

(* The transfer of one record brings in the serial value.                  *)
LEMMA AdmitStep ==
    ASSUME Inv, NEW r \in Records, Admit(r)
    PROVE  Inv'
<1> USE ConstantsAssumption DEF ConstantsAssumption
<1> DEFINE src == ReadSlot(storeVer[r], epoch)
<1>f. /\ UNCHANGED <<log, storeVer, storeVal, marker, epoch, pc, resident, dirty>>
      /\ UNCHANGED <<sgDone, valid, part, rest, copying, copied, undo, crashes>>
      /\ pc = "gather" /\ r \in gather
      /\ gather' = gather \ {r}
      /\ cacheVer' = [g \in Slots |->
                        IF resident[g] = r THEN storeVer[r] ELSE cacheVer[g]]
      /\ cacheVal' = [g \in Slots |->
                        IF resident[g] = r
                        THEN [cacheVal[g] EXCEPT ![src] = storeVal[r][src]]
                        ELSE cacheVal[g]]
  BY Zenon DEF Admit, durable, handle, landing
<1>i. InFlight' = InFlight
  BY <1>f, Zenon DEF InFlight
<1>d. /\ Done' = Done /\ RecoveryPoint' = RecoveryPoint /\ Running' /\ Running
      /\ Done = epoch - 1 /\ Done \in Nat
  BY <1>f, Basics, Zenon DEF Done, RecoveryPoint, Running, AfterFlush
(* The record is not in flight, so the store alone has its serial value. *)
<1>s. /\ \A x \in InFlight : x.rec # r
      /\ \A s \in SlotIds : storeVer[r][s] \in Nat /\ storeVer[r][s] < epoch
      /\ Exists(log, r, Done) => Latest(log, r, Done, storeVal[r][Newest(storeVer[r])])
  <2>1. \A x \in InFlight : x.rec # r
    BY <1>f, ZenonT(40) DEF Inv, ResidentInv
  <2>2. Exists(log, r, Done) => Latest(log, r, Done, storeVal[r][Newest(storeVer[r])])
    BY <2>1, <1>d, Zenon DEF Inv, LandedInv
  <2>3. \A s \in SlotIds : storeVer[r][s] <= Done /\ storeVer[r][s] \in Nat
    BY <1>d, Basics, Zenon DEF Inv, LandedInv
  <2>4. epoch \in Nat
    BY Basics
  <2>5. \A s \in SlotIds : storeVer[r][s] < epoch
    BY <2>3, <2>4, <1>d
  <2> QED BY <2>1, <2>2, <2>3, <2>5, Zenon
<1>n. src = Newest(storeVer[r]) /\ src \in SlotIds
  BY <1>s, Basics, SMTT(60) DEF ReadSlot, Newest, SlotIds
<1> HIDE DEF src
<1>1. TypeOK'
  <2>1. cacheVer' \in [Slots -> [SlotIds -> Tags]]
    BY <1>f, Zenon DEF Inv, TypeOK
  <2>2. cacheVal' \in [Slots -> [SlotIds -> Values]]
    BY <1>f, <1>n DEF Inv, TypeOK
  <2> QED BY <2>1, <2>2, <1>f, Zenon DEF Inv, TypeOK, FlagsOK
<1>2. WellFormed(log, NEpochs)' /\ MarkerInv'
  BY <1>f, Zenon DEF Inv, MarkerInv
<1>4. StoreInv'
  BY <1>f, <1>d, Zenon DEF Inv, StoreInv, RollbackBase
<1>5. LandedInv'
  BY <1>f, <1>d, <1>i, Zenon DEF Inv, LandedInv
<1>6. FlightInv'
  BY <1>f, <1>d, <1>i, Zenon DEF Inv, FlightInv
<1>7. ResidentInv'
  BY <1>f, <1>d, <1>i, Zenon DEF Inv, ResidentInv, Executed
<1>8. CacheInv'
  <2>1. ASSUME NEW g \in Slots, resident[g] = r
        PROVE  Coherent(g)'
    <3>1. cacheVer'[g] = storeVer[r] /\ cacheVal'[g][src] = storeVal[r][src]
      BY <2>1, <1>f, <1>n, Zenon DEF Inv, TypeOK
    <3>2. \A s \in SlotIds : EffTag(InFlight, storeVer, Done, r, s) = storeVer[r][s]
      BY <1>s, Zenon DEF EffTag
    <3> QED BY <3>1, <3>2, <2>1, <1>s, <1>n, <1>f, <1>d, <1>i, Zenon DEF Coherent
  <2>2. ASSUME NEW g \in Slots, resident[g] # r, Coherent(g)
        PROVE  Coherent(g)'
    BY <2>2, <1>f, <1>d, <1>i, Zenon DEF Coherent
  <2> QED BY <2>1, <2>2, <1>f, Zenon DEF Inv, CacheInv, Executed
<1>9. UndoInv'
  BY <1>f, Zenon DEF UndoInv
<1> QED
  BY <1>1, <1>2, <1>4, <1>5, <1>6, <1>7, <1>8, <1>9, Zenon DEF Inv

(* The slots of this epoch's inserts start with both tags zero, as in the  *)
(* store: no earlier epoch knew the record.                                *)
LEMMA PrepareDoneStep ==
    ASSUME Inv, PrepareDone
    PROVE  Inv'
<1> USE ConstantsAssumption DEF ConstantsAssumption
<1>f. /\ UNCHANGED <<log, storeVer, storeVal, marker, epoch, resident, cacheVal, dirty>>
      /\ UNCHANGED <<gather, valid, part, rest, copying, copied, undo, crashes>>
      /\ pc = "gather" /\ pc' = "execute" /\ gather = {} /\ sgDone' = TRUE
      /\ cacheVer' = [g \in Slots |->
                        IF resident[g] \in log[epoch].insert
                        THEN [s \in SlotIds |-> 0] ELSE cacheVer[g]]
  BY Zenon DEF PrepareDone, durable, handle, landing
<1>i. InFlight' = InFlight
  BY <1>f, Zenon DEF InFlight
<1>d. /\ Done' = Done /\ RecoveryPoint' = RecoveryPoint /\ Running' /\ Running
      /\ Done = epoch - 1 /\ Done \in Nat
  BY <1>f, Basics, Zenon DEF Done, RecoveryPoint, Running, AfterFlush
<1>0. FlagsOK'
  BY <1>f, Zenon DEF Inv, TypeOK, FlagsOK
<1>1. TypeOK'
  <2>1. cacheVer' \in [Slots -> [SlotIds -> Tags]]
    BY <1>f, SMTT(60) DEF Inv, TypeOK, Tags
  <2> QED BY <2>1, <1>0, <1>f, ZenonT(40) DEF Inv, TypeOK, ProgramPoints
<1>2. WellFormed(log, NEpochs)' /\ MarkerInv'
  BY <1>f, Zenon DEF Inv, MarkerInv, BeforeBump, AfterFlush
<1>4. StoreInv'
  BY <1>f, <1>d, Zenon DEF Inv, StoreInv, RollbackBase
<1>5. LandedInv'
  BY <1>f, <1>d, <1>i, Zenon DEF Inv, LandedInv
<1>6. FlightInv'
  BY <1>f, <1>d, <1>i, Zenon DEF Inv, FlightInv
<1>7. ResidentInv'
  BY <1>f, <1>d, <1>i, Zenon DEF Inv, ResidentInv, Executed
<1>8. CacheInv'
  <2>1. ASSUME NEW g \in Slots, resident[g] \in log[epoch].insert
        PROVE  Coherent(g)'
    <3> DEFINE r == resident[g]
    <3>1. r \in log[epoch].touch
      BY <2>1, Basics, Zenon DEF Inv, WellFormed
    <3>2. r \in Records /\ ~Exists(log, r, Done)
      BY <2>1, <3>1, <1>d, TouchedExists, Zenon
    <3>3. \A s \in SlotIds : storeVer[r][s] = 0
      BY <3>2, <1>d, Zenon DEF Inv, LandedInv
    <3>4. \A x \in InFlight : x.rec # r
      <4> SUFFICES ASSUME NEW x \in InFlight, x.rec = r PROVE FALSE
        BY ZenonT(40)
      <4>1. Done \in 1 .. NEpochs /\ r \in log[Done].write
        BY <1>d, Basics DEF Inv, FlightInv
      <4>2. Exists(log, r, Done - 1) \/ r \in log[Done].insert
        BY <4>1, Zenon DEF Inv, WellFormed
      <4>3. Exists(log, r, Done)
        BY <4>1, <4>2 DEF Exists
      <4> QED BY <4>3, <3>2, Zenon
    <3>5. \A s \in SlotIds : EffTag(InFlight, storeVer, Done, r, s) = 0
      BY <3>3, <3>4, Zenon DEF EffTag
    <3> QED BY <2>1, <3>2, <3>5, <1>f, <1>d, <1>i, Zenon DEF Coherent
  <2>2. ASSUME NEW g \in Slots, resident[g] \notin log[epoch].insert, Coherent(g)
        PROVE  Coherent(g)'
    BY <2>2, <1>f, <1>d, <1>i, Zenon DEF Coherent
  <2> QED BY <2>1, <2>2, <1>f, Zenon DEF Inv, CacheInv, Executed
<1>9. UndoInv'
  BY <1>f, Zenon DEF UndoInv
<1> QED
  BY <1>1, <1>2, <1>4, <1>5, <1>6, <1>7, <1>8, <1>9, Zenon DEF Inv

(* What the epoch's readers find: a coherent slot gives them the serial    *)
(* value, and the slot its last writer overwrites is the other one.        *)
LEMMA CoherentRead ==
    ASSUME Inv, pc = "execute", NEW g \in Slots, resident[g] # None
    PROVE  /\ Coherent(g)
           /\ \A s \in SlotIds : cacheVer[g][s] \in Nat /\ cacheVer[g][s] < epoch
           /\ ReadSlot(cacheVer[g], epoch) = Newest(cacheVer[g])
<1>1. Coherent(g)
  BY ZenonT(40) DEF Inv, CacheInv, ResidentInv, Executed
<1>2. Done = epoch - 1 /\ Running /\ epoch \in Nat /\ resident[g] \in Records
  BY Basics, SMTT(20) DEF Done, Running, AfterFlush, Inv, TypeOK
<1>3. \A s \in SlotIds : cacheVer[g][s] \in Nat /\ cacheVer[g][s] < epoch
  BY <1>1, <1>2, Basics, SMTT(60) DEF Coherent, EffTag, Inv, LandedInv
<1>4. ReadSlot(cacheVer[g], epoch) = Newest(cacheVer[g])
  BY <1>2, <1>3 DEF ReadSlot, Newest, SlotIds
<1> QED
  BY <1>1, <1>3, <1>4, Zenon

(* The kernel leaves the serial value of the epoch in each written record. *)
LEMMA ExecuteStep ==
    ASSUME Inv, Execute
    PROVE  Inv'
<1> USE ConstantsAssumption DEF ConstantsAssumption
<1> DEFINE w == {g \in Slots : resident[g] \in log[epoch].write}
           new(g) == NewVal(resident[g], epoch, cacheVal[g][ReadSlot(cacheVer[g], epoch)])
<1>f. /\ UNCHANGED <<log, storeVer, storeVal, marker, epoch, resident, gather>>
      /\ UNCHANGED <<sgDone, valid, part, rest, copying, copied, undo, crashes>>
      /\ pc = "execute" /\ pc' = "sync"
  BY Zenon DEF Execute, durable, handle, landing
<1>g. /\ cacheVal' = [g \in Slots |->
                        IF g \in w
                        THEN [cacheVal[g] EXCEPT ![WriteSlot(cacheVer[g])] = new(g)]
                        ELSE cacheVal[g]]
      /\ cacheVer' = [g \in Slots |->
                        IF g \in w
                        THEN [cacheVer[g] EXCEPT ![WriteSlot(cacheVer[g])] = epoch]
                        ELSE cacheVer[g]]
      /\ dirty' = dirty \cup {<<g, WriteSlot(cacheVer[g])>> : g \in w}
  BY Zenon DEF Execute
<1>i. InFlight' = InFlight
  BY <1>f, Zenon DEF InFlight
<1>d. /\ Done' = Done /\ RecoveryPoint' = RecoveryPoint /\ Running' /\ Running
      /\ Done = epoch - 1 /\ Done \in Nat /\ epoch \in 1 .. NEpochs
  BY <1>f, Basics, Zenon DEF Done, RecoveryPoint, Running, AfterFlush
<1>y. dirty = {} /\ gather = {}
  BY <1>f, Zenon DEF Inv, CacheInv, ResidentInv, Executed
<1>w. ASSUME NEW g \in w
      PROVE  /\ resident[g] \in Records
             /\ resident[g] # None
             /\ resident[g] \in log[epoch].touch
  <2>1. resident[g] \in log[epoch].touch
    BY <1>d, Zenon DEF Inv, WellFormed
  <2> QED BY <2>1, TouchedExists, Zenon
<1>s. \A g \in Slots : WriteSlot(cacheVer[g]) \in SlotIds
  BY Zenon DEF WriteSlot, SlotIds
<1>n. ASSUME NEW g \in w PROVE new(g) = epoch
  <2>1. CASE resident[g] \in log[epoch].insert
    BY <2>1, Zenon DEF NewVal
  <2>2. CASE resident[g] \notin log[epoch].insert
    <3>1. Exists(log, resident[g], Done)
      BY <2>2, <1>w, <1>d, TouchedExists, Zenon
    <3>2. Latest(log, resident[g], epoch - 1, cacheVal[g][ReadSlot(cacheVer[g], epoch)])
      BY <3>1, <1>w, <1>f, <1>d, CoherentRead, Zenon DEF Coherent
    <3> QED BY <3>2, Zenon DEF NewVal
  <2> QED BY <2>1, <2>2, Zenon
<1> HIDE DEF new
<1>1. TypeOK'
  <2>1. cacheVer' \in [Slots -> [SlotIds -> Tags]]
    BY <1>g, <1>s, <1>d DEF Inv, TypeOK, Tags
  <2>2. cacheVal' \in [Slots -> [SlotIds -> Values]]
    BY <1>g, <1>s, <1>d, <1>n, SMTT(20) DEF Inv, TypeOK, Values
  <2>3. dirty' \subseteq Slots \X SlotIds
    BY <1>g, <1>s DEF Inv, TypeOK
  <2> QED BY <2>1, <2>2, <2>3, <1>f, ZenonT(40) DEF Inv, TypeOK, FlagsOK, ProgramPoints
<1>2. WellFormed(log, NEpochs)' /\ MarkerInv'
  BY <1>f, Zenon DEF Inv, MarkerInv, BeforeBump, AfterFlush
<1>4. StoreInv'
  BY <1>f, <1>d, Zenon DEF Inv, StoreInv, RollbackBase
<1>5. LandedInv'
  BY <1>f, <1>d, <1>i, Zenon DEF Inv, LandedInv
<1>6. FlightInv'
  BY <1>f, <1>d, <1>i, Zenon DEF Inv, FlightInv
<1>7. ResidentInv'
  BY <1>f, <1>d, <1>i, Zenon DEF Inv, ResidentInv, Executed
<1>8. CacheInv'
  <2>1. ASSUME NEW g \in w PROVE Written(g)'
    <3> DEFINE s == WriteSlot(cacheVer[g])
               t(k) == EffTag(InFlight, storeVer, Done, resident[g], k)
    <3>1. s \in SlotIds /\ Other(s) \in SlotIds /\ Other(s) # s
      BY <1>s DEF SlotIds, Other
    <3>2. \A k \in SlotIds : cacheVer[g][k] = t(k)
      BY <1>w, <1>f, CoherentRead, Zenon DEF Coherent
    <3>3. s = IF t(1) < t(2) THEN 1 ELSE 2
      BY <3>2, Zenon DEF WriteSlot, SlotIds
    <3>4. /\ cacheVer'[g][s] = epoch /\ cacheVal'[g][s] = epoch
          /\ cacheVer'[g][Other(s)] = cacheVer[g][Other(s)]
      BY <3>1, <1>g, <1>n, Zenon DEF Inv, TypeOK
    <3>5. <<g, s>> \in dirty' /\ <<g, Other(s)>> \notin dirty'
      BY <3>1, <1>g, <1>y, Zenon
    <3> HIDE DEF s, t
    <3>6. /\ cacheVer'[g][Other(s)] = t(Other(s))
      BY <3>1, <3>2, <3>4, Zenon
    <3> QED BY <3>1, <3>3, <3>4, <3>5, <3>6, <1>f, <1>d, <1>i, Zenon DEF Written, t
  <2>2. ASSUME NEW g \in Slots, g \notin w, Coherent(g)
        PROVE  Coherent(g)'
    BY <2>2, <1>f, <1>g, <1>d, <1>i, Zenon DEF Coherent
  <2>3. \A g \in Slots : resident[g] # None => Coherent(g)
    BY <1>f, CoherentRead, Zenon
  <2>4. \A e \in dirty' : resident[e[1]] \in log[epoch].write
    BY <1>g, <1>y, SMTT(60)
  <2> QED BY <2>1, <2>2, <2>3, <2>4, <1>f, Zenon DEF CacheInv, Executed
<1>9. UndoInv'
  BY <1>f, Zenon DEF UndoInv
<1> QED
  BY <1>1, <1>2, <1>4, <1>5, <1>6, <1>7, <1>8, <1>9, Zenon DEF Inv

--------------------------------------------------------------------------------
(* The start of a writeback, invariance, and the theorems.                 *)

(* What is packed for writeback.                                           *)
LEMMA FlushSet ==
    ASSUME Inv, pc = "flush"
    PROVE  /\ InFlight = {}
           /\ Packed \subseteq Entry
           /\ \A x \in Packed : /\ x.ver = epoch /\ x.val = epoch
                                /\ x.rec \in log[epoch].write
                                /\ x.slot = WriteSlot(storeVer[x.rec])
           /\ \A x, y \in Packed : x.rec = y.rec => x = y
           /\ \A r \in log[epoch].write : \E x \in Packed : x.rec = r
           /\ \A x \in Packed : \E g \in Slots : resident[g] = x.rec
<1> USE ConstantsAssumption DEF ConstantsAssumption
<1>i. InFlight = {}
  BY Zenon DEF Inv, FlightInv
<1>e. epoch \in Epochs /\ epoch \in Values /\ epoch \in 1 .. NEpochs
  BY Basics DEF Epochs, Values
<1>d. ASSUME NEW d \in dirty
      PROVE  LET g == d[1]
                 s == d[2]
             IN  /\ d = <<g, s>> /\ g \in Slots /\ s \in SlotIds
                 /\ resident[g] \in log[epoch].write
                 /\ resident[g] \in Records
                 /\ cacheVer[g][s] = epoch /\ cacheVal[g][s] = epoch
                 /\ s = WriteSlot(storeVer[resident[g]])
  <2> DEFINE g == d[1]
             s == d[2]
  <2>1. d = <<g, s>> /\ g \in Slots /\ s \in SlotIds
    BY DEF Inv, TypeOK
  <2>2. resident[g] \in log[epoch].write
    BY Zenon DEF Inv, CacheInv
  <2>3. resident[g] \in log[epoch].touch
    BY <2>2, <1>e, Zenon DEF Inv, WellFormed
  <2>4. resident[g] \in Records /\ resident[g] # None
    BY <2>3, TouchedExists, Zenon
  <2>5. Written(g)
    BY <2>1, <2>2, <2>4, Zenon DEF Inv, CacheInv, Executed
  <2>6. PICK t \in SlotIds :
          /\ <<g, t>> \in dirty /\ <<g, Other(t)>> \notin dirty
          /\ cacheVer[g][t] = epoch /\ cacheVal[g][t] = epoch
          /\ t = IF EffTag(InFlight, storeVer, Done, resident[g], 1)
                      < EffTag(InFlight, storeVer, Done, resident[g], 2)
                 THEN 1 ELSE 2
    BY <2>5, Zenon DEF Written
  <2>7. s = t
    BY <2>1, <2>6 DEF SlotIds, Other
  <2>8. s = WriteSlot(storeVer[resident[g]])
    BY <2>6, <2>7, <1>i, Zenon DEF EffTag, WriteSlot
  <2> QED BY <2>1, <2>2, <2>4, <2>6, <2>7, <2>8, Zenon
<1>p. \A x \in Packed : \E d \in dirty :
         x = [rec |-> resident[d[1]], slot |-> d[2],
              ver |-> cacheVer[d[1]][d[2]], val |-> cacheVal[d[1]][d[2]]]
  BY Zenon DEF Packed
<1>1. ASSUME NEW x \in Packed
      PROVE  /\ x = [rec |-> x.rec, slot |-> x.slot, ver |-> epoch, val |-> epoch]
             /\ x \in Entry
             /\ x.ver = epoch /\ x.val = epoch
             /\ x.rec \in log[epoch].write
             /\ x.slot = WriteSlot(storeVer[x.rec])
             /\ \E g \in Slots : resident[g] = x.rec
  <2>1. PICK d \in dirty :
          x = [rec |-> resident[d[1]], slot |-> d[2],
               ver |-> cacheVer[d[1]][d[2]], val |-> cacheVal[d[1]][d[2]]]
    BY <1>p, Zenon
  <2>2. /\ d[1] \in Slots /\ d[2] \in SlotIds
        /\ resident[d[1]] \in log[epoch].write
        /\ resident[d[1]] \in Records
        /\ cacheVer[d[1]][d[2]] = epoch /\ cacheVal[d[1]][d[2]] = epoch
        /\ d[2] = WriteSlot(storeVer[resident[d[1]]])
    BY <1>d, Zenon
  <2>3. x = [rec |-> resident[d[1]], slot |-> d[2], ver |-> epoch, val |-> epoch]
    BY <2>1, <2>2, Zenon
  <2> QED BY <2>3, <2>2, <1>e, Zenon DEF Entry
<1>2. ASSUME NEW x \in Packed, NEW y \in Packed, x.rec = y.rec PROVE x = y
  <2>1. x.slot = y.slot
    BY <1>1, <1>2, Zenon
  <2>2. /\ x = [rec |-> x.rec, slot |-> x.slot, ver |-> epoch, val |-> epoch]
        /\ y = [rec |-> y.rec, slot |-> y.slot, ver |-> epoch, val |-> epoch]
    BY <1>1, Zenon
  <2> QED BY <2>1, <2>2, <1>2, Zenon
<1>3. ASSUME NEW r \in log[epoch].write PROVE \E x \in Packed : x.rec = r
  <2>1. r \in log[epoch].touch
    BY <1>e, Zenon DEF Inv, WellFormed
  <2>2. PICK g \in Slots : resident[g] = r
    BY <2>1, Zenon DEF Inv, ResidentInv, Executed
  <2>3. Written(g)
    BY <2>1, <2>2, TouchedExists, Zenon DEF Inv, CacheInv, Executed
  <2>4. PICK s \in SlotIds : <<g, s>> \in dirty
    BY <2>3, Zenon DEF Written
  <2>5. [rec |-> resident[g], slot |-> s, ver |-> cacheVer[g][s],
         val |-> cacheVal[g][s]] \in Packed
    <3>1. <<g, s>>[1] = g /\ <<g, s>>[2] = s
      OBVIOUS
    <3> QED BY <2>4, <3>1, Zenon DEF Packed
  <2> QED BY <2>2, <2>5, Zenon
<1> QED
  BY <1>i, <1>1, <1>2, <1>3, Zenon

(* The dirty versions become entries in flight, and nothing else changes:  *)
(* store plus flight moves from the end of epoch-1 to the end of epoch.    *)
LEMMA FlushLaunched ==
    ASSUME Inv, pc = "flush",
           InFlight' = Packed, copied' = {}, dirty' = {} \/ pc' = "drain",
           UNCHANGED <<log, storeVer, storeVal, marker, resident>>,
           UNCHANGED <<cacheVer, cacheVal, gather>>,
           Done' = epoch, pc' \in {"prepare", "drain", "final"},
           Packed = {} \/ valid' \/ pc' = "drain"
    PROVE  LandedInv' /\ FlightInv' /\ ResidentInv' /\ CacheInv'
<1> USE ConstantsAssumption DEF ConstantsAssumption
<1>e. /\ epoch \in 1 .. NEpochs /\ Done = epoch - 1 /\ Done \in Nat
      /\ Running /\ Running' /\ RecoveryPoint = epoch - 1
      /\ RecoveryPoint' = RecoveryPoint
      /\ InFlight = {} /\ gather = {}
  <2>1. Done = epoch - 1 /\ Running /\ Running'
    BY Zenon DEF Done, Running, AfterFlush
  <2>2. marker = epoch + 1 /\ gather = {}
    BY Zenon DEF Inv, MarkerInv, ResidentInv
  <2>3. epoch \in 1 .. NEpochs /\ Done \in Nat /\ InFlight = {}
    BY Basics, FlushSet, Zenon
  <2>4. RecoveryPoint = epoch - 1
    BY <2>2, <2>3 DEF RecoveryPoint
  <2>5. RecoveryPoint' = RecoveryPoint
    BY Zenon DEF RecoveryPoint
  <2> QED BY <2>1, <2>2, <2>3, <2>4, <2>5, Zenon
<1>v. \A r \in Records, s \in SlotIds : storeVer[r][s] \in Nat /\ storeVer[r][s] < epoch
  <2>1. \A r \in Records, s \in SlotIds : storeVer[r][s] \in Nat
    BY Basics, Zenon
  <2>2. \A r \in Records, s \in SlotIds : storeVer[r][s] <= Done
    BY <1>e, Zenon DEF Inv, LandedInv
  <2>3. epoch \in Nat /\ Done = epoch - 1
    BY <1>e
  <2> QED BY <2>1, <2>2, <2>3
<1>w. ASSUME NEW r \in Records
      PROVE  /\ Exists(log, r, epoch) <=> Exists(log, r, Done) \/ r \in log[epoch].insert
             /\ r \in log[epoch].insert => r \in log[epoch].write
             /\ r \in log[epoch].write => Latest(log, r, epoch, epoch)
             /\ \A v : r \notin log[epoch].write /\ Latest(log, r, Done, v)
                          => Latest(log, r, epoch, v)
             /\ (\A x \in Packed : x.rec # r) <=> r \notin log[epoch].write
  <2>1. Done + 1 = epoch
    BY <1>e
  <2>2. Exists(log, r, epoch) <=> Exists(log, r, Done) \/ r \in log[epoch].insert
    BY <2>1, <1>e, ExistsNext, Zenon
  <2>3. r \in log[epoch].insert => r \in log[epoch].write
    BY <1>e, Zenon DEF Inv, WellFormed
  <2>4. r \in log[epoch].write => Latest(log, r, epoch, epoch)
    <3>1. epoch \in Nat \ {0}
      BY <1>e
    <3> QED BY <3>1, LatestWritten, Zenon
  <2>5. \A v : r \notin log[epoch].write /\ Latest(log, r, Done, v) => Latest(log, r, epoch, v)
    BY <2>1, <1>e, LatestUnwritten, Zenon
  <2>6. (\A x \in Packed : x.rec # r) <=> r \notin log[epoch].write
    BY FlushSet, Zenon
  <2> QED BY <2>2, <2>3, <2>4, <2>5, <2>6, Zenon
<1>1. LandedInv'
  <2> SUFFICES ASSUME NEW r \in Records
               PROVE /\ \A s \in SlotIds : storeVer[r][s] <= epoch
                     /\ Exists(log, r, epoch) /\ (\A x \in Packed : x.rec # r) =>
                          Latest(log, r, epoch, storeVal[r][Newest(storeVer[r])])
                     /\ ~Exists(log, r, epoch) => \A s \in SlotIds : storeVer[r][s] = 0
    BY Zenon DEF LandedInv
  <2>1. Exists(log, r, Done) => Latest(log, r, Done, storeVal[r][Newest(storeVer[r])])
    BY <1>e, Zenon DEF Inv, LandedInv
  <2>2. ~Exists(log, r, Done) => \A s \in SlotIds : storeVer[r][s] = 0
    BY <1>e, Zenon DEF Inv, LandedInv
  <2>3. \A s \in SlotIds : storeVer[r][s] <= epoch
    BY <1>v, <1>e
  <2> QED BY <2>1, <2>2, <2>3, <1>w, Zenon
<1>2. FlightInv'
  <2>1. ASSUME NEW x \in Packed
        PROVE  /\ x.ver = epoch /\ x.val = epoch
               /\ x.rec \in log[epoch].write
               /\ storeVer[x.rec][Other(x.slot)] < epoch
               /\ x.slot # Newest(Demote(storeVer[x.rec], epoch))
    <3>1. x.rec \in Records /\ x.slot \in SlotIds /\ x.slot = WriteSlot(storeVer[x.rec])
      BY FlushSet, Zenon DEF Entry
    <3>2. Other(x.slot) \in SlotIds
      BY <3>1 DEF SlotIds, Other
    <3>3. x.slot # Newest(Demote(storeVer[x.rec], epoch))
      BY <3>1, <1>v, <1>e DEF WriteSlot, Newest, Demote, DemoteTag, SlotIds
    <3> QED BY <3>1, <3>2, <3>3, <1>v, FlushSet, Zenon
  <2> QED BY <2>1, <1>e, FlushSet DEF FlightInv
<1>3. ResidentInv'
  <2>1. \A g \in Slots : resident[g] # None => Exists(log, resident[g], epoch)
    BY <1>e, <1>w, Zenon DEF Inv, TypeOK, ResidentInv
  <2> QED BY <2>1, <1>e, Zenon DEF Inv, ResidentInv, Executed
<1>4. CacheInv'
  <2> SUFFICES ASSUME NEW g \in Slots, resident[g] # None
               PROVE  Coherent(g)'
    BY Zenon DEF CacheInv, Executed
  <2> DEFINE r == resident[g]
  <2>r. r \in Records
    BY Zenon DEF Inv, TypeOK
  <2>1. CASE r \in log[epoch].write
    <3>1. Written(g)
      BY <2>1, Zenon DEF Inv, CacheInv, Executed
    <3>2. PICK s \in SlotIds :
            /\ <<g, s>> \in dirty
            /\ cacheVer[g][s] = epoch /\ cacheVal[g][s] = epoch
            /\ cacheVer[g][Other(s)] = EffTag(InFlight, storeVer, Done, r, Other(s))
      BY <3>1, ZenonT(40) DEF Written
    <3>3. Other(s) \in SlotIds /\ Other(s) # s /\ (\A k \in SlotIds : k = s \/ k = Other(s))
      BY <3>2, SMTT(60) DEF SlotIds, Other
    <3>4. cacheVer[g][Other(s)] = storeVer[r][Other(s)]
      BY <3>2, <1>e, Zenon DEF EffTag
    <3>5. PICK x \in Packed : x.rec = r /\ x.slot = s
      <4>1. [rec |-> r, slot |-> s, ver |-> cacheVer[g][s], val |-> cacheVal[g][s]] \in Packed
        BY <3>2, SMTT(60) DEF Packed
      <4> QED BY <4>1, ZenonT(40)
    <3>6. \A y \in Packed : y.rec = r => y.slot = s
      BY <3>5, FlushSet
    <3>7. \A k \in SlotIds : cacheVer[g][k] = EffTag(Packed, storeVer, epoch, r, k)
      BY <3>2, <3>3, <3>4, <3>5, <3>6, ZenonT(40) DEF EffTag
    <3>8. Newest(cacheVer[g]) = s
      BY <3>2, <3>3, <3>4, <2>r, <1>v, <1>e DEF Newest, SlotIds
    <3> QED BY <3>7, <3>8, <3>2, <2>1, <2>r, <1>w, Zenon DEF Coherent
  <2>2. CASE r \notin log[epoch].write
    <3>1. Coherent(g)
      BY <2>2, <1>e, Zenon DEF Inv, CacheInv, Executed
    <3>2. \A s \in SlotIds : cacheVer[g][s] = EffTag(Packed, storeVer, epoch, r, s)
      BY <3>1, <2>2, <2>r, <1>w, <1>e, Zenon DEF Coherent, EffTag
    <3> QED BY <3>1, <3>2, <2>2, <2>r, <1>w, Zenon DEF Coherent
  <2> QED BY <2>1, <2>2, Zenon
<1> QED
  BY <1>1, <1>2, <1>3, <1>4, Zenon

(* Handing the flush set to the worker.                                    *)
LEMMA StartFlushStep ==
    ASSUME Inv, StartFlush
    PROVE  Inv'
<1> USE ConstantsAssumption DEF ConstantsAssumption
<1>f. /\ UNCHANGED <<log, storeVer, storeVal, marker, resident, cacheVer, cacheVal>>
      /\ UNCHANGED <<gather, copying, copied, undo, crashes>>
      /\ pc = "flush" /\ dirty' = {} /\ Advance
  BY Zenon DEF StartFlush, durable, landing
<1>e. epoch \in 1 .. NEpochs /\ InFlight = {} /\ part = {} /\ rest = {}
      /\ copying = {} /\ copied = {}
  <2>1. InFlight = {}
    BY <1>f, FlushSet, Zenon
  <2> QED BY <2>1, Basics, Zenon DEF InFlight
<1>h. part' \subseteq Packed /\ rest' \subseteq Packed /\ part' \cup rest' = Packed
  <2>1. CASE dirty = {}
    <3>1. Packed = {}
      BY <2>1, Zenon DEF Packed
    <3> QED BY <3>1, <2>1, <1>e, Zenon DEF StartFlush, handle
  <2>2. CASE dirty # {}
    <3>1. PICK first, second \in SUBSET Packed :
            Halves(Packed, first, second) /\ part' = first /\ rest' = second
      BY <2>2, Zenon DEF StartFlush
    <3> QED BY <3>1, Zenon DEF Halves
  <2> QED BY <2>1, <2>2, Zenon
<1>i. InFlight' = Packed
  BY <1>h, <1>e, <1>f, Zenon DEF InFlight
<1>v. FlagsOK' /\ (Packed = {} \/ valid')
  <2>1. CASE dirty = {}
    <3>1. Packed = {}
      BY <2>1, Zenon DEF Packed
    <3>2. UNCHANGED <<sgDone, valid>>
      BY <2>1, Zenon DEF StartFlush, handle
    <3> QED BY <3>1, <3>2, Zenon DEF Inv, TypeOK, FlagsOK
  <2>2. CASE dirty # {}
    BY <2>2, Zenon DEF StartFlush, FlagsOK
  <2> QED BY <2>1, <2>2, Zenon
<1>a. \/ epoch < NEpochs /\ epoch' = epoch + 1 /\ pc' = "prepare"
      \/ ~(epoch < NEpochs) /\ epoch' = epoch /\ pc' = "final"
  BY <1>f, Zenon DEF Advance
<1>d. /\ Done' = epoch /\ RecoveryPoint' = RecoveryPoint
      /\ epoch' \in 1 .. NEpochs
  BY <1>a, <1>f, <1>e DEF Done, RecoveryPoint, AfterFlush
<1>1. TypeOK'
  <2>1. Packed \subseteq Entry
    BY <1>f, FlushSet, Zenon
  <2> QED BY <2>1, <1>a, <1>d, <1>f, <1>e, <1>h, <1>v, Zenon DEF Inv, TypeOK, ProgramPoints, Epochs
<1>2. WellFormed(log, NEpochs)' /\ MarkerInv'
  BY <1>a, <1>f, <1>e DEF Inv, MarkerInv, BeforeBump, AfterFlush
<1>4. StoreInv'
  BY <1>f, <1>d, Zenon DEF Inv, StoreInv, RollbackBase
<1>5. LandedInv' /\ FlightInv' /\ ResidentInv' /\ CacheInv'
  BY <1>a, <1>d, <1>e, <1>f, <1>i, <1>v, FlushLaunched, Zenon
<1>9. UndoInv'
  BY <1>a, Zenon DEF UndoInv
<1> QED
  BY <1>1, <1>2, <1>4, <1>5, <1>9, Zenon DEF Inv

(* Taking the flush set on the main thread.                                *)
LEMMA PeriodicFlushStep ==
    ASSUME Inv, PeriodicFlush
    PROVE  Inv'
<1> USE ConstantsAssumption DEF ConstantsAssumption
<1>f. /\ UNCHANGED <<log, storeVer, storeVal, marker, epoch, resident, cacheVer, cacheVal>>
      /\ UNCHANGED <<gather, sgDone, valid, rest, copying, copied, undo, crashes>>
      /\ pc = "flush" /\ dirty' = dirty /\ part' = Packed /\ pc' = "drain"
  BY Zenon DEF PeriodicFlush, durable, cache, landing
<1>e. epoch \in 1 .. NEpochs /\ rest = {} /\ copying = {} /\ copied = {}
  <2>1. InFlight = {}
    BY <1>f, FlushSet, Zenon
  <2> QED BY <2>1, Basics, Zenon DEF InFlight
<1>i. InFlight' = Packed
  BY <1>e, <1>f, Zenon DEF InFlight
<1>d. Done' = epoch /\ RecoveryPoint' = RecoveryPoint
  BY <1>f, Zenon DEF Done, RecoveryPoint, AfterFlush
<1>0. FlagsOK'
  BY <1>f, Zenon DEF Inv, TypeOK, FlagsOK
<1>1. TypeOK'
  <2>1. Packed \subseteq Entry
    BY <1>f, FlushSet, Zenon
  <2> QED BY <2>1, <1>0, <1>f, Zenon DEF Inv, TypeOK, ProgramPoints
<1>2. WellFormed(log, NEpochs)' /\ MarkerInv'
  BY <1>f, Zenon DEF Inv, MarkerInv, BeforeBump, AfterFlush
<1>4. StoreInv'
  BY <1>f, <1>d, Zenon DEF Inv, StoreInv, RollbackBase
<1>5. LandedInv' /\ FlightInv' /\ ResidentInv' /\ CacheInv'
  BY <1>d, <1>e, <1>f, <1>i, FlushLaunched, Zenon
<1>9. UndoInv'
  BY <1>f, Zenon DEF UndoInv
<1> QED
  BY <1>1, <1>2, <1>4, <1>5, <1>9, Zenon DEF Inv

(* A step that changes no variable.                                        *)
LEMMA StutterStep ==
    ASSUME Inv, UNCHANGED vars
    PROVE  Inv'
<1>f. /\ UNCHANGED <<log, storeVer, storeVal, marker, epoch, pc, resident, cacheVer>>
      /\ UNCHANGED <<cacheVal, dirty, gather, sgDone, valid, part, rest, copying>>
      /\ UNCHANGED <<copied, undo, crashes>>
  BY Zenon DEF vars, durable, cache, handle, landing
<1>i. InFlight' = InFlight
  BY <1>f, Zenon DEF InFlight
<1>d. Done' = Done /\ RecoveryPoint' = RecoveryPoint /\ Running' = Running
  BY <1>f, Zenon DEF Done, RecoveryPoint, Running
<1>1. TypeOK' /\ WellFormed(log, NEpochs)' /\ MarkerInv' /\ UndoInv'
  BY <1>f, <1>d, ZenonT(40) DEF Inv, TypeOK, FlagsOK, MarkerInv, UndoInv
<1>2. StoreInv' /\ LandedInv'
  BY <1>f, <1>i, <1>d, Zenon DEF Inv, StoreInv, RollbackBase, LandedInv
<1>3. FlightInv'
  BY <1>f, <1>i, <1>d, Zenon DEF Inv, FlightInv
<1>4. ResidentInv'
  BY <1>f, <1>i, <1>d, Zenon DEF Inv, ResidentInv
<1>5. CacheInv'
  BY <1>f, <1>i, <1>d, ZenonT(40) DEF Inv, CacheInv, Coherent, Written
<1> QED
  BY <1>1, <1>2, <1>3, <1>4, <1>5, Zenon DEF Inv

--------------------------------------------------------------------------------
(* Every step of the pipeline, of the worker, of a crash and of recovery   *)
(* preserves the invariant.                                                *)
LEMMA NextInv == Inv /\ [Next]_vars => Inv'
<1> SUFFICES ASSUME Inv, [Next]_vars PROVE Inv'
  BY Zenon
<1>1. CASE MainThread
  BY Zenon, <1>1, PrepareBindStep, AdmitStep, PrepareDoneStep, ExecuteStep, SyncFlushStep,
     BumpMarkerStep, StartFlushStep, PeriodicFlushStep, FinishPeriodicFlushStep,
     FinalSignalStep, FinalJoinStep, RecoverStep, RollbackTagStep, RollbackDoneStep
     DEF MainThread
<1>2. CASE Worker
  BY <1>2, ValueCopyBeginStep, ValueCopyEndStep, TagStoreStep, SecondHalfStep, Zenon DEF Worker
<1>3. CASE Crash
  BY <1>3, CrashStep, Zenon
<1>4. CASE Terminated \/ UNCHANGED vars
  BY <1>4, StutterStep, Zenon DEF Terminated
<1> QED
  BY <1>1, <1>2, <1>3, <1>4, Zenon DEF Next

(* The invariant holds in every reachable state.                           *)
LEMMA Invariance == Spec => []Inv
BY InitInv, NextInv, PTL DEF Spec

(* Every variable of the pipeline keeps its type.                          *)
THEOREM TypeCorrect == Spec => []TypeOK
<1>1. Inv => TypeOK
  BY Zenon DEF Inv
<1> QED BY <1>1, Invariance, PTL

(* A crash at any moment is recoverable: rollback under the current marker *)
(* gives back the serial state at the end of the recovery point.           *)
THEOREM CrashSafe == Spec => []RollbackSound
<1>1. Inv => RollbackSound
  BY Zenon DEF Inv, StoreInv, RollbackSound
<1> QED BY <1>1, Invariance, PTL

(* Rollback never discards both versions of a record.                      *)
THEOREM OneVersionSurvives == Spec => []OneDiscardedSlot
<1>1. Inv => OneDiscardedSlot
  BY Zenon DEF Inv, StoreInv, OneDiscardedSlot
<1> QED BY <1>1, Invariance, PTL

(* Admission and the overlapped writeback never meet on a record.          *)
THEOREM AdmissionRaceFree == Spec => []AdmitUncontended
<1>1. Inv => AdmitUncontended
  BY Zenon DEF Inv, ResidentInv, AdmitUncontended
<1> QED BY <1>1, Invariance, PTL

(* Every kernel runs on the serial state of the epochs before it.          *)
THEOREM ExecutesSerially == Spec => []ReadsSerial
<1>1. Inv => ReadsSerial
  <2> SUFFICES ASSUME Inv, pc = "execute", NEW r \in log[epoch].touch
               PROVE  \E g \in Slots :
                        /\ resident[g] = r
                        /\ r \notin log[epoch].insert =>
                             Latest(log, r, epoch - 1,
                                    cacheVal[g][ReadSlot(cacheVer[g], epoch)])
    BY Zenon DEF ReadsSerial
  <2>1. PICK g \in Slots : resident[g] = r
    BY Zenon DEF Inv, ResidentInv
  <2>2. r # None /\ (r \notin log[epoch].insert => Exists(log, r, epoch - 1))
    BY TouchedExists, ConstantsAssumption, Zenon DEF ConstantsAssumption
  <2>3. Done = epoch - 1
    BY Zenon DEF Done, AfterFlush
  <2> QED BY <2>1, <2>2, <2>3, CoherentRead, Zenon DEF Coherent
<1> QED BY <1>1, Invariance, PTL

(* No committed write is lost between the cache and the store.             *)
THEOREM CommitsSurvive == Spec => []NothingLost
<1>1. Inv => NothingLost
  <2> SUFFICES ASSUME Inv, pc = "prepare", NEW r \in Records, Exists(log, r, epoch - 1)
               PROVE  IF \E x \in InFlight : x.rec = r
                      THEN \A x \in InFlight : x.rec = r => Latest(log, r, epoch - 1, x.val)
                      ELSE Latest(log, r, epoch - 1, storeVal[r][Newest(storeVer[r])])
    BY Zenon DEF NothingLost
  <2>1. Done = epoch - 1 /\ Running /\ Done \in Nat
    BY Basics, Zenon DEF Done, AfterFlush, Running
  <2>2. \A x \in InFlight : x.rec = r => Latest(log, r, epoch - 1, x.val)
    <3> SUFFICES ASSUME NEW x \in InFlight PROVE Latest(log, x.rec, epoch - 1, x.val)
      BY Zenon
    <3>1. Done >= 1 /\ x.val = Done /\ x.rec \in log[Done].write
      BY Zenon DEF Inv, FlightInv
    <3>2. Done \in Nat \ {0}
      BY <2>1, <3>1
    <3>3. Latest(log, x.rec, Done, Done)
      BY <3>1, <3>2, LatestWritten, Zenon
    <3> QED BY <2>1, <3>1, <3>3, Zenon
  <2>3. (\A x \in InFlight : x.rec # r) =>
           Latest(log, r, epoch - 1, storeVal[r][Newest(storeVer[r])])
    BY <2>1, Zenon DEF Inv, LandedInv
  <2> QED BY <2>2, <2>3, Zenon
<1> QED BY <1>1, Invariance, PTL

(* A finished run leaves the serial final state in the Primary Store.      *)
THEOREM FinishesSerially == Spec => []FinalStateSerial
<1>1. Inv => FinalStateSerial
  <2> SUFFICES ASSUME Inv, pc = "done", NEW r \in Records, Exists(log, r, NEpochs)
               PROVE  Latest(log, r, NEpochs, storeVal[r][Newest(storeVer[r])])
    BY Zenon DEF FinalStateSerial
  <2>1. Done = NEpochs /\ Running /\ InFlight = {}
    BY Zenon DEF Inv, MarkerInv, FlightInv, Done, AfterFlush, Running
  <2> QED BY <2>1, Zenon DEF Inv, LandedInv
<1> QED BY <1>1, Invariance, PTL

(* A step of the pipeline that rebinds a cache slot finds nothing dirty:   *)
(* an eviction never drops a version that has not been packed.             *)
THEOREM EvictionsAreClean == Spec => EvictedNeverDirty
<1> DEFINE A == \A g \in Slots : resident'[g] # resident[g] /\ crashes' = crashes =>
                    \A s \in SlotIds : <<g, s>> \notin dirty
<1>1. Inv /\ [Next]_vars => [A]_vars
  <2> SUFFICES ASSUME Inv, Next PROVE A
    BY Zenon
  <2>1. CASE PrepareBind
    BY <2>1, Zenon DEF PrepareBind, Inv, CacheInv, Executed
  <2>2. CASE Crash
    <3>1. crashes' # crashes
      BY <2>2 DEF Crash, Inv, TypeOK
    <3> QED BY <3>1, Zenon
  <2>3. CASE Next /\ ~PrepareBind /\ ~Crash
    <3>1. UNCHANGED resident
      BY <2>3, Zenon DEF Next, MainThread, Worker, Terminated, vars, cache, Admit, PrepareDone,
         Execute, SyncFlush, BumpMarker, StartFlush, PeriodicFlush, FinishPeriodicFlush,
         FinalSignal, FinalJoin, Recover, RollbackTag, RollbackDone, ValueCopyBegin,
         ValueCopyEnd, TagStore, SecondHalf
    <3> QED BY <3>1, Zenon
  <2> QED BY <2>1, <2>2, <2>3, Zenon
<1> QED
  BY <1>1, Invariance, PTL DEF Spec, EvictedNeverDirty

--------------------------------------------------------------------------------
(* The pipeline implements the serial store.                               *)

(* The serial value of a record is unique.                                 *)
LEMMA LatestUnique ==
    ASSUME NEW lg, NEW r, NEW k \in Nat, NEW u, NEW v, Latest(lg, r, k, u), Latest(lg, r, k, v)
    PROVE  u = v
BY DEF Latest

(* The marker moves only when it is bumped, and the recovery point with it *)
(* by at most one epoch.                                                   *)
LEMMA RecoveryPointStep ==
    ASSUME Inv, [Next]_vars
    PROVE  /\ log' = log
           /\ \/ RecoveryPoint' = RecoveryPoint
              \/ RecoveryPoint' = RecoveryPoint + 1 /\ RecoveryPoint < NEpochs
<1>1. CASE BumpMarker
  <2>1. /\ log' = log /\ pc = "bump" /\ marker' = epoch + 1
    BY <1>1, Zenon DEF BumpMarker
  <2>2. \/ marker = epoch /\ epoch >= 2
        \/ marker = epoch + 1
        \/ marker = 0 /\ epoch = 1
    BY <2>1, Zenon DEF Inv, MarkerInv, BeforeBump
  <2>3. NEpochs \in Nat /\ epoch \in 1 .. NEpochs
    BY Basics, Zenon
  <2>4. RecoveryPoint' = RecoveryPoint \/ (RecoveryPoint' = RecoveryPoint + 1 /\ RecoveryPoint < NEpochs)
    BY <2>1, <2>2, <2>3 DEF RecoveryPoint
  <2> QED BY <2>1, <2>4, Zenon
<1>2. CASE ~BumpMarker
  <2>1. UNCHANGED <<log, marker>>
    BY <1>2, Zenon DEF Next, MainThread, Worker, Terminated, vars, durable, Crash, PrepareBind,
       Admit, PrepareDone, Execute, SyncFlush, StartFlush, PeriodicFlush,
       FinishPeriodicFlush, FinalSignal, FinalJoin, Recover, RollbackTag, RollbackDone,
       ValueCopyBegin, ValueCopyEnd, TagStore, SecondHalf
  <2> QED BY <2>1, Zenon DEF RecoveryPoint
<1> QED
  BY <1>1, <1>2, Zenon

(* The state recovery would reconstruct is, at every moment, the serial    *)
(* state of a prefix of the log, which grows by whole epochs: crashes,     *)
(* restarts, admissions and partial writebacks are invisible.              *)
THEOREM Refinement == Spec => ImplementsSerialStore
<1> USE ConstantsAssumption DEF ConstantsAssumption
<1> DEFINE rp == RecoveryPoint
           db == [r \in Records |-> IF Exists(log, r, RecoveryPoint)
                                    THEN RollbackBase(r) ELSE Junk]
<1>1. Init => Serial!Init
  <2> SUFFICES ASSUME Init PROVE Serial!Init
    BY Zenon
  <2>1. rp = 0
    BY DEF Init, RecoveryPoint
  <2>2. ASSUME NEW r \in Records
        PROVE  IF Exists(log, r, RecoveryPoint) THEN r \in Initial /\ RollbackBase(r) = 0
                                                ELSE r \notin Initial
    <3>1. Exists(log, r, RecoveryPoint) <=> r \in Initial
      BY <2>1 DEF Exists
    <3>2. Newest(Demote(storeVer[r], RecoveryPoint + 1)) = 1
      BY <2>1 DEF Init, SlotIds, Newest, Demote, DemoteTag
    <3> QED BY <3>1, <3>2, Zenon DEF RollbackBase, Init, SlotIds
  <2> QED BY <2>1, <2>2, Zenon DEF Serial!Init, Init, Epochs
<1>2. Inv /\ Inv' /\ [Next]_vars => [Serial!Next]_<<log, rp, db>>
  <2> SUFFICES ASSUME Inv, Inv', [Next]_vars
               PROVE  Serial!Next \/ UNCHANGED <<log, rp, db>>
    BY Zenon
  <2>l. log' = log
    BY RecoveryPointStep, Zenon
  <2>t. rp \in Nat
    BY Basics, Zenon
  <2>b. \A r \in Records : Exists(log, r, rp) => Latest(log, r, rp, RollbackBase(r))
    BY Zenon DEF Inv, StoreInv
  <2>c. \A r \in Records : Exists(log, r, rp') => Latest(log, r, rp', RollbackBase(r)')
    BY <2>l, Zenon DEF Inv, StoreInv
  <2>1. CASE rp' = rp
    <3>1. \A r \in Records : Exists(log, r, rp) => RollbackBase(r)' = RollbackBase(r)
      BY <2>1, <2>b, <2>c, <2>t, LatestUnique, Zenon
    <3>2. db' = db
      BY <3>1, <2>l, <2>1, Zenon
    <3> QED BY <3>2, <2>l, <2>1, Zenon
  <2>2. CASE rp' = rp + 1 /\ rp < NEpochs
    <3>e. rp + 1 \in 1 .. NEpochs
      BY <2>2, <2>t
    <3>1. ASSUME NEW r \in Records
          PROVE  (IF Exists(log, r, rp') THEN RollbackBase(r)' ELSE Junk)
                   = IF r \in log[rp + 1].write THEN rp + 1
                     ELSE IF Exists(log, r, rp) THEN RollbackBase(r) ELSE Junk
      <4>x. Exists(log, r, rp + 1) <=> Exists(log, r, rp) \/ r \in log[rp + 1].insert
        BY <2>t, ExistsNext, Zenon
      <4>w. /\ r \in log[rp + 1].insert => r \in log[rp + 1].write
            /\ r \in log[rp + 1].write => Exists(log, r, rp + 1)
        <5>1. /\ r \in log[rp + 1].insert => r \in log[rp + 1].write
              /\ r \in log[rp + 1].write => r \in log[rp + 1].touch
              /\ r \in log[rp + 1].touch =>
                    (r \in log[rp + 1].insert <=> ~Exists(log, r, (rp + 1) - 1))
          BY <3>e, Zenon DEF Inv, WellFormed
        <5>2. (rp + 1) - 1 = rp
          BY <2>t
        <5> QED BY <5>1, <5>2, <4>x, Zenon
      <4>1. CASE r \in log[rp + 1].write
        <5>1. Latest(log, r, rp + 1, RollbackBase(r)')
          BY <4>1, <4>w, <2>2, <2>c, Zenon
        <5>2. Latest(log, r, rp + 1, rp + 1)
          BY <4>1, <2>t, LatestWritten
        <5>3. RollbackBase(r)' = rp + 1
          BY <5>1, <5>2, <2>t, LatestUnique
        <5> QED BY <5>3, <4>1, <4>w, <2>2, Zenon
      <4>2. CASE r \notin log[rp + 1].write /\ Exists(log, r, rp)
        <5>1. Latest(log, r, rp + 1, RollbackBase(r)')
          BY <4>2, <4>x, <2>2, <2>c, Zenon
        <5>2. Latest(log, r, rp + 1, RollbackBase(r))
          BY <4>2, <2>b, <2>t, LatestUnwritten, Zenon
        <5>3. RollbackBase(r)' = RollbackBase(r)
          BY <5>1, <5>2, <2>t, LatestUnique
        <5> QED BY <5>3, <4>2, <4>x, <2>2, Zenon
      <4>3. CASE r \notin log[rp + 1].write /\ ~Exists(log, r, rp)
        BY <4>3, <4>x, <4>w, <2>2, Zenon
      <4> QED BY <4>1, <4>2, <4>3, Zenon
    <3>2. db' = [r \in Records |-> IF r \in log[rp + 1].write THEN rp + 1 ELSE db[r]]
      BY <3>1, <2>l, <2>2, Zenon
    <3> QED BY <3>2, <2>l, <2>2, Zenon DEF Serial!Next, Serial!CommitEpoch
  <2> QED BY <2>1, <2>2, RecoveryPointStep, Zenon
<1> QED
  BY <1>1, <1>2, Invariance, PTL DEF Spec, ImplementsSerialStore, Serial!Spec
================================================================================
