---------------------------- MODULE EpochExecution -----------------------------
(***************************************************************************)
(* One epoch of execution, with no locks (ycsb_hybrid_executor.cu and      *)
(* gpu_storage.cuh on the GPU, ycsb_cpu_executor.cpp and storage.h on the  *)
(* CPU).  Ordering comes from the plan alone: a reader whose value is      *)
(* produced this epoch spins on the version word of its location, a writer *)
(* publishes the value and then the version.  On the GPU a bounded number  *)
(* of thread blocks is resident, a block keeps its place until its warps   *)
(* are done, and blocks claim pieces from a counter in serial order; the   *)
(* lanes of a warp read the fields of a split row side by side.  On the    *)
(* CPU each thread runs its stripe of the transactions in serial order,    *)
(* the pieces of a transaction one after the other.                        *)
(***************************************************************************)
EXTENDS ExecutionPlan, DualVersion, FiniteSetsExt

CONSTANTS
    Epoch,     \* the epoch being executed
    Work,      \* what to run: [machine, batch], a batch is a sequence of pieces
    MaxPieces, \* bound: pieces of an epoch
    NumWarps,  \* warps of a block
    Resident,  \* blocks resident at a time
    Threads,   \* cpu_exec_num_threads
    TxnPieces, \* pieces of a transaction
    Starts     \* the tags the records may have when the epoch starts

ASSUME ExecutionAssumption ==
    /\ Epoch \in Nat /\ MaxPieces \in Nat /\ NumWarps \in Nat \ {0} /\ Resident \in Nat \ {0}
    /\ Threads \in Nat \ {0} /\ TxnPieces \in Nat \ {0} /\ Records \subseteq Nat /\ IsFiniteSet(Records)
    /\ Starts \subseteq [Records -> [SlotIds -> 0 .. Epoch - 1]]
    /\ \A w \in Work : /\ w.machine \in {"gpu", "cpu"}
                      /\ w.batch \in Seq([op : STRING, rec : Records]) /\ Len(w.batch) <= MaxPieces

(* A value is known by the piece that wrote it.  A write to a whole row    *)
(* also carries over the fields it does not set from what the piece read;  *)
(* they are serial where that read is.                                     *)
Junk == <<-1, 0>>            \* a value whose words are being stored
OldValue(tag) == <<tag, 0>>  \* the value committed by an earlier epoch
NewValue(p) == <<Epoch, p>>  \* the value written by piece p

VARIABLES
    machine, batch, plan,
    start,      \* the records' tags when the epoch starts
    ver, val,   \* the records
    scratch,    \* version array: element -> [ver, val]
    dirty,      \* slots marked for writeback
    counter,    \* txn_counter: pieces claimed by resident blocks
    at,         \* at[p][r]: where piece p is with its access to record r
    seen,       \* seen[p][r]: the version1 that was loaded
    loc,        \* loc[p][r]: the location chosen for the read or the write
    got         \* got[p][r]: the value piece p has read

vars == <<machine, batch, plan, start, ver, val, scratch, dirty, counter, at, seen, loc, got>>
fixed == <<machine, batch, plan, start>>

Pieces == DOMAIN batch
InRecord(s) == [kind |-> "slot", n |-> s]
InScratch(i) == [kind |-> "version", n |-> i]
None == [kind |-> "none", n |-> 0]
ForEach(x) == [p \in Pieces |-> [r \in Records |-> x]]

(* The scratch array keeps what an earlier epoch left in it.               *)
Init ==
    /\ \E w \in Work : machine = w.machine /\ batch = w.batch
    /\ plan = Plan(batch)
    /\ start \in Starts
    /\ ver = start
    /\ val = [r \in Records |-> [s \in SlotIds |-> OldValue(start[r][s])]]
    /\ scratch = [i \in 0 .. Cardinality(Submitted(batch)) - 1 |->
                     [ver |-> Epoch - 1, val |-> OldValue(Epoch - 1)]]
    /\ dirty = {} /\ counter = 0
    /\ at = ForEach("idle") /\ seen = ForEach(0) /\ loc = ForEach(None) /\ got = ForEach(Junk)

BlockOf(p) == (p - 1) \div NumWarps
PieceDone(p) == \A r \in Records : at[p][r] = "done"
ActiveBlocks == {BlockOf(p) : p \in {q \in Pieces : ~PieceDone(q) /\ \E r \in Records : at[q][r] # "idle"}}

(* The first step of a piece on each of its records.                       *)
Begin(p) == [r \in Records |-> IF r \in ReadSet(batch[p]) THEN "load1"
                               ELSE IF r \in WriteSet(batch[p]) THEN "choose" ELSE "done"]

(* Mutant: blocks claim their pieces from the end of the epoch.            *)
ClaimFromEnd ==
    /\ machine = "gpu" /\ counter < Len(batch)
    /\ Cardinality(ActiveBlocks) < Resident
    /\ counter' = counter + NumWarps
    /\ at' = [p \in Pieces |-> IF Len(batch) + 1 - p \in counter + 1 .. counter + NumWarps
                               THEN Begin(p) ELSE at[p]]
    /\ UNCHANGED <<fixed, ver, val, scratch, dirty, seen, loc, got>>

(* A block becomes resident and takes the next NumWarps pieces.            *)
Claim ==
    /\ machine = "gpu" /\ counter < Len(batch)
    /\ Cardinality(ActiveBlocks) < Resident
    /\ counter' = counter + NumWarps
    /\ at' = [p \in Pieces |-> IF p \in counter + 1 .. counter + NumWarps THEN Begin(p) ELSE at[p]]
    /\ UNCHANGED <<fixed, ver, val, scratch, dirty, seen, loc, got>>

(* A CPU thread turns to the next piece of its transaction, or to the      *)
(* first of the next transaction of its stripe.                            *)
ThreadOf(p) == ((p - 1) \div TxnPieces) % Threads
TurnTo(p) ==
    /\ machine = "cpu" /\ \A r \in Records : at[p][r] = "idle"
    /\ \A q \in 1 .. p - 1 : ThreadOf(q) = ThreadOf(p) => PieceDone(q)
    /\ at' = [at EXCEPT ![p] = Begin(p)]
    /\ UNCHANGED <<fixed, ver, val, scratch, dirty, counter, seen, loc, got>>

(* The slot a reader of record B takes.                                    *)
RecordBSlot(t) == IF t[1] = Epoch THEN 1 ELSE IF t[2] = Epoch THEN 2 ELSE WriteSlot(t)

(* What a read does with the two versions it has loaded.                   *)
Target(p, r, t) == InRecord(IF plan[p].read[r] = LocA THEN ReadSlot(t, Epoch) ELSE RecordBSlot(t))
MustWait(p, r, t) == plan[p].read[r] # LocA /\ Epoch \notin {t[1], t[2]}
Resolve(p, r, t) ==
    /\ loc' = [loc EXCEPT ![p][r] = Target(p, r, t)]
    /\ at' = [at EXCEPT ![p][r] = IF MustWait(p, r, t) THEN "wait" ELSE "value"]

(* A CPU thread reads the fields of a split row one after the other.       *)
MayLoad(p, r) ==
    /\ at[p][r] = "load1"
    /\ machine = "cpu" => \A x \in ReadSet(batch[p]) : x < r => at[p][x] \notin {"load1", "wait", "value"}

(* gpuReadFromTable*: the two version words are loaded one by one.         *)
LoadVersion1(p, r) ==
    /\ machine = "gpu" /\ MayLoad(p, r)
    /\ plan[p].read[r] \in {LocA, LocB}
    /\ at' = [at EXCEPT ![p][r] = "load2"]
    /\ seen' = [seen EXCEPT ![p][r] = ver[r][1]]
    /\ UNCHANGED <<fixed, ver, val, scratch, dirty, counter, loc, got>>

LoadVersion2(p, r) ==
    /\ at[p][r] = "load2"
    /\ Resolve(p, r, <<seen[p][r], ver[r][2]>>)
    /\ UNCHANGED <<fixed, ver, val, scratch, dirty, counter, seen, got>>

(* Mutant: a CPU thread takes the value of record B without waiting.       *)
LoadVersionsNoWait(p, r) ==
    /\ machine = "cpu" /\ MayLoad(p, r)
    /\ plan[p].read[r] \in {LocA, LocB}
    /\ loc' = [loc EXCEPT ![p][r] = Target(p, r, ver[r])]
    /\ at' = [at EXCEPT ![p][r] = "value"]
    /\ UNCHANGED <<fixed, ver, val, scratch, dirty, counter, seen, got>>

(* readFromTable: one 64-bit load of both versions.                        *)
LoadVersions(p, r) ==
    /\ machine = "cpu" /\ MayLoad(p, r)
    /\ plan[p].read[r] \in {LocA, LocB}
    /\ Resolve(p, r, ver[r])
    /\ UNCHANGED <<fixed, ver, val, scratch, dirty, counter, seen, got>>

(* A read from the version array waits for its element, on both machines.  *)
TakeElement(p, r) ==
    /\ MayLoad(p, r) /\ plan[p].read[r] \notin {LocA, LocB}
    /\ at' = [at EXCEPT ![p][r] = "wait"]
    /\ loc' = [loc EXCEPT ![p][r] = InScratch(plan[p].read[r])]
    /\ UNCHANGED <<fixed, ver, val, scratch, dirty, counter, seen, got>>

VersionAt(p, r) == IF loc[p][r].kind = "slot" THEN ver[r][loc[p][r].n] ELSE scratch[loc[p][r].n].ver
ValueAt(p, r) == IF loc[p][r].kind = "slot" THEN val[r][loc[p][r].n] ELSE scratch[loc[p][r].n].val

(* The warp votes once every lane has its address; a CPU thread goes on at *)
(* once with the field it is reading.                                      *)
Converged(p, r) ==
    machine = "gpu" => \A x \in ReadSet(batch[p]) : at[p][x] \notin {"load1", "load2"}

(* A turn of the spin loop in which the version is another one.            *)
Spin(p, r) == at[p][r] = "wait" /\ Converged(p, r) /\ VersionAt(p, r) # Epoch /\ UNCHANGED vars

(* The spin loop ends.                                                     *)
Wait(p, r) ==
    /\ at[p][r] = "wait" /\ Converged(p, r) /\ VersionAt(p, r) = Epoch
    /\ at' = [at EXCEPT ![p][r] = "value"]
    /\ UNCHANGED <<fixed, ver, val, scratch, dirty, counter, seen, loc, got>>

ReadValue(p, r) ==
    /\ at[p][r] = "value" /\ Converged(p, r)
    /\ got' = [got EXCEPT ![p][r] = ValueAt(p, r)]
    /\ at' = [at EXCEPT ![p][r] = IF r \in WriteSet(batch[p]) THEN "choose" ELSE "done"]
    /\ UNCHANGED <<fixed, ver, val, scratch, dirty, counter, seen, loc>>

(* A piece writes after all its reads, one record after the other.         *)
MayWrite(p, r) ==
    /\ at[p][r] = "choose"
    /\ \A x \in ReadSet(batch[p]) : at[p][x] \in {"choose", "done"}
    /\ \A x \in WriteSet(batch[p]) : x < r => at[p][x] = "done"

(* Mutant: a writer takes the slot a reader would.                         *)
ChooseNewest(p, r) ==
    LET s == Newest(ver[r])
    IN  /\ MayWrite(p, r)
        /\ IF plan[p].write[r] = LocB
           THEN loc' = [loc EXCEPT ![p][r] = InRecord(s)] /\ dirty' = dirty \cup {<<r, s>>}
           ELSE loc' = [loc EXCEPT ![p][r] = InScratch(plan[p].write[r])] /\ UNCHANGED dirty
        /\ at' = [at EXCEPT ![p][r] = "store"]
        /\ UNCHANGED <<fixed, ver, val, scratch, counter, seen, got>>

(* Mutant: a write to the version array marks the record dirty as well.    *)
ChooseMarksScratch(p, r) ==
    LET s == WriteSlot(ver[r])
    IN  /\ MayWrite(p, r)
        /\ loc' = [loc EXCEPT ![p][r] = IF plan[p].write[r] = LocB THEN InRecord(s)
                                        ELSE InScratch(plan[p].write[r])]
        /\ dirty' = dirty \cup {<<r, s>>}
        /\ at' = [at EXCEPT ![p][r] = "store"]
        /\ UNCHANGED <<fixed, ver, val, scratch, counter, seen, got>>

(* writeToTable, gpuWriteToTable*: choose the slot from the versions; the  *)
(* GPU marks it.                                                           *)
Choose(p, r) ==
    LET s == WriteSlot(ver[r])
    IN  /\ MayWrite(p, r)
        /\ IF plan[p].write[r] = LocB
           THEN /\ loc' = [loc EXCEPT ![p][r] = InRecord(s)]
                /\ dirty' = IF machine = "gpu" THEN dirty \cup {<<r, s>>} ELSE dirty
           ELSE loc' = [loc EXCEPT ![p][r] = InScratch(plan[p].write[r])] /\ UNCHANGED dirty
        /\ at' = [at EXCEPT ![p][r] = "store"]
        /\ UNCHANGED <<fixed, ver, val, scratch, counter, seen, got>>

(* The CPU's copy into the version array is commented out.                 *)
PutValue(p, r, v) ==
    IF loc[p][r].kind = "slot"
    THEN val' = [val EXCEPT ![r][loc[p][r].n] = v] /\ UNCHANGED scratch
    ELSE /\ scratch' = IF machine = "gpu" THEN [scratch EXCEPT ![loc[p][r].n].val = v] ELSE scratch
         /\ UNCHANGED val

PutVersion(p, r) ==
    IF loc[p][r].kind = "slot"
    THEN ver' = [ver EXCEPT ![r][loc[p][r].n] = Epoch] /\ UNCHANGED scratch
    ELSE scratch' = [scratch EXCEPT ![loc[p][r].n].ver = Epoch] /\ UNCHANGED ver

(* The words of the value are stored one after the other.                  *)
StoreBegin(p, r) ==
    /\ at[p][r] = "store" /\ PutValue(p, r, Junk)
    /\ at' = [at EXCEPT ![p][r] = "storing"]
    /\ UNCHANGED <<fixed, ver, dirty, counter, seen, loc, got>>

StoreEnd(p, r) ==
    /\ at[p][r] = "storing" /\ PutValue(p, r, NewValue(p))
    /\ at' = [at EXCEPT ![p][r] = "publish"]
    /\ UNCHANGED <<fixed, ver, dirty, counter, seen, loc, got>>

(* After the fence, the version.                                           *)
Publish(p, r) ==
    /\ at[p][r] = "publish" /\ PutVersion(p, r)
    /\ at' = [at EXCEPT ![p][r] = "done"]
    /\ UNCHANGED <<fixed, val, dirty, counter, seen, loc, got>>

Step(p) ==
    \E r \in Records :
        \/ LoadVersion1(p, r) \/ LoadVersion2(p, r) \/ LoadVersions(p, r) \/ TakeElement(p, r)
        \/ Spin(p, r) \/ Wait(p, r) \/ ReadValue(p, r)
        \/ Choose(p, r) \/ StoreBegin(p, r) \/ StoreEnd(p, r) \/ Publish(p, r)

Finished == \A p \in Pieces : PieceDone(p)

(* The kernel has returned, or the threads are joined.                     *)
Return == Finished /\ UNCHANGED vars

Next == Claim \/ (\E p \in Pieces : TurnTo(p) \/ Step(p)) \/ Return

Spec == Init /\ [][Next]_vars

(* Resident warps and CPU threads make progress, and a free place is given *)
(* to a block.                                                             *)
FairSpec ==
    /\ Spec /\ WF_vars(Claim)
    /\ \A p \in 1 .. MaxPieces : WF_vars(p \in Pieces /\ (TurnTo(p) \/ Step(p)))

--------------------------------------------------------------------------------
(* The value piece p must read: that of the last piece before it that      *)
(* writes its record, else the newest value committed before the epoch.    *)
WritersBefore(p, r) == {q \in 1 .. p - 1 : r \in WriteSet(batch[q])}
Committed(r) == OldValue(start[r][Newest(start[r])])
SerialValue(p, r) ==
    IF WritersBefore(p, r) = {} THEN Committed(r) ELSE NewValue(Max(WritersBefore(p, r)))

(* The reads of piece p of the records in R were of the serial values.     *)
ReadSerially(p, R) ==
    \A r \in R \cap ReadSet(batch[p]) : at[p][r] = "done" => got[p][r] = SerialValue(p, r)

(* On the GPU every read, wherever the plan sends it and whatever the      *)
(* interleaving, returns the value of the serial order, and never one that *)
(* is being stored.                                                        *)
ReadsSerial == machine = "gpu" => \A p \in Pieces : ReadSerially(p, Records)

(* On the CPU every read that the plan sends to the record itself does: of *)
(* the value before the epoch, or of the last one the epoch leaves.        *)
RecordReadsSerial ==
    machine = "cpu" =>
        \A p \in Pieces :
            ReadSerially(p, {r \in ReadSet(batch[p]) : plan[p].read[r] \in {LocA, LocB}})


(* The epoch never touches the committed version of a record: until the    *)
(* next epoch a rollback can fall back on it.                              *)
CommittedKept ==
    \A r \in Records : LET s == Newest(start[r])
                       IN  ver[r][s] = start[r][s] /\ val[r][s] = OldValue(start[r][s])

(* When the epoch returns, each written record holds the last writer's     *)
(* value under the epoch's tag in the slot that was older, on the GPU that *)
(* slot and no other is marked dirty, and the rest is as it was.  (On the  *)
(* CPU this says whose value it is, not that every field of a whole row is *)
(* serial: see CpuReadsSerial.)                                            *)
LeavesSerialState ==
    Finished =>
        LET written == {r \in Records : WritersBefore(Len(batch) + 1, r) # {}}
        IN  /\ \A r \in Records, s \in SlotIds :
                 IF r \in written /\ s = WriteSlot(start[r])
                 THEN ver[r][s] = Epoch /\ val[r][s] = NewValue(Max(WritersBefore(Len(batch) + 1, r)))
                 ELSE ver[r][s] = start[r][s] /\ val[r][s] = OldValue(start[r][s])
            /\ dirty = {<<r, WriteSlot(start[r])>> : r \in {x \in written : machine = "gpu"}}

(* No reader spins forever: what a warp or a thread waits for belongs to a *)
(* piece that was claimed, or comes in its stripe, before its own.         *)
Terminates == <>Finished
================================================================================
