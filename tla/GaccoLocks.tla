----------------------------- MODULE GaccoLocks -----------------------------
(***************************************************************************)
(* The Gacco baseline (gacco/gpu_execution_planner.cu and                  *)
(* gacco/benchmarks/ycsb_gpu_executor.cu).  Every epoch the planner sorts  *)
(* the submitted operations by record and builds a lock table: access, the *)
(* transaction ids record after record, offset, each record's place in     *)
(* access, and lock, the transaction whose turn it is.  The executor's     *)
(* pieces, one for each operation, spin until the lock names their         *)
(* transaction, work on the record in place, and hand the lock on.         *)
(***************************************************************************)
EXTENDS Integers, FiniteSets

CONSTANTS
    Records,
    NTxns, OpsPerTxn,   \* transactions of an epoch; operations of each
    NEpochs,            \* epochs of the run
    Batches,            \* what the generator may produce for an epoch
    BlockSize, Resident \* threads of a block; blocks the GPU runs at once

NumOps == NTxns * OpsPerTxn
Txns == 0 .. NTxns - 1
Pieces == 0 .. NumOps - 1
NumBlocks == (NumOps + BlockSize - 1) \div BlockSize
OpTypes == {"READ", "UPDATE", "READ_MODIFY_WRITE", "INSERT"}

ASSUME GaccoAssumption ==
    /\ Records \subseteq Nat
    /\ NTxns \in Nat \ {0} /\ OpsPerTxn \in Nat \ {0} /\ NEpochs \in Nat
    /\ BlockSize \in Nat \ {0} /\ Resident \in Nat \ {0}
    /\ Batches \subseteq [Pieces -> [record : Records, op : OpTypes]]

VARIABLES
    batch,        \* every epoch's operations: [record, op] for each piece
    epoch, phase, \* "plan": the lock table is being built; "run": the kernel
    access, offset, lock,
    counter,      \* txn_counter
    started,      \* blocks started
    pc, next,     \* each piece's step, and the offset its release drew
    value,        \* each record's writer: <<epoch, transaction>>
    got           \* what each piece read

vars == <<batch, epoch, phase, access, offset, lock, counter, started, pc, next,
          value, got>>

Rec(p) == batch[epoch][p].record
TxnOf(p) == p \div OpsPerTxn
Reads(p) == batch[epoch][p].op \in {"READ", "READ_MODIFY_WRITE"}
Writes(p) == batch[epoch][p].op \in {"UPDATE", "READ_MODIFY_WRITE", "INSERT"}

\* Mutant: a key that the transaction already has is not drawn again.
DistinctOrNot(b) == b \in Batches

\* generateTxns draws a key again while the transaction already has it.
Distinct(b) ==
    \A p, q \in Pieces : TxnOf(p) = TxnOf(q) /\ b[p].record = b[q].record => p = q

\* Nothing is known of what lies behind the last entry of access.
Init ==
    /\ batch \in [1 .. NEpochs -> {b \in Batches : Distinct(b)}]
    /\ epoch = 1 /\ phase = "plan"
    /\ access \in {[i \in 0 .. NumOps |-> IF i = NumOps THEN t ELSE 0] : t \in Txns}
    /\ offset = [r \in Records |-> 0]
    /\ lock = [r \in Records |-> 0]
    /\ counter = 0 /\ started = 0
    /\ pc = [p \in Pieces |-> "unclaimed"]
    /\ next = [p \in Pieces |-> 0]
    /\ value = [r \in Records |-> <<0, 0>>]
    /\ got = [p \in Pieces |-> <<0, 0>>]

-----------------------------------------------------------------------------
\* Mutant: operations of one record are not kept in the order submitted.
SortedPlaceUnstable(p) ==
    Cardinality({q \in Pieces : Rec(q) < Rec(p) \/ (Rec(q) = Rec(p) /\ q > p)})

\* Where the stable radix sort on the record bits puts the operation that the
\* submitter stored at p = txn_id * OpsPerTxn + i.
SortedPlace(p) ==
    Cardinality({q \in Pieces : Rec(q) < Rec(p) \/ (Rec(q) = Rec(p) /\ q < p)})

\* The exclusive sum of the run lengths before record r.
UniqueOffset(r) == Cardinality({q \in Pieces : Rec(q) < r})

Touched == {Rec(p) : p \in Pieces}

\* InitializeExecutionPlan: sort, copyAccessTidKernel and buildAuxArrayKernel;
\* the rows the epoch does not touch keep what an earlier epoch left.  Then
\* execute resets the counter and launches the kernel.
InitializeExecutionPlan ==
    /\ phase = "plan" /\ epoch <= NEpochs
    /\ LET sorted == [i \in Pieces |-> CHOOSE p \in Pieces : SortedPlace(p) = i] IN
       /\ access' = [i \in 0 .. NumOps |-> IF i = NumOps THEN access[i]
                                           ELSE TxnOf(sorted[i])]
       /\ offset' = [r \in Records |-> IF r \in Touched THEN UniqueOffset(r)
                                       ELSE offset[r]]
       /\ lock' = [r \in Records |-> IF r \in Touched
                                     THEN access'[UniqueOffset(r)] ELSE lock[r]]
    /\ phase' = "run" /\ counter' = 0 /\ started' = 0
    /\ pc' = [p \in Pieces |-> "unclaimed"]
    /\ UNCHANGED <<batch, epoch, next, value, got>>

\* The blocks that have claimed pieces and still run one of them.
BlockOf(p) == p \div BlockSize
Running == {BlockOf(p) : p \in {q \in Pieces : pc[q] \notin {"unclaimed", "done"}}}

\* Mutant: blocks take the pieces from the last to the first.
ClaimFromEnd ==
    /\ phase = "run" /\ started < NumBlocks /\ Cardinality(Running) < Resident
    /\ started' = started + 1
    /\ counter' = counter + BlockSize
    /\ pc' = [p \in Pieces |-> IF NumOps - 1 - p \in counter .. counter + BlockSize - 1
                               THEN "spin" ELSE pc[p]]
    /\ UNCHANGED <<batch, epoch, phase, access, offset, lock, next, value, got>>

\* A block gets a multiprocessor; its first thread draws the pieces of all.
Claim ==
    /\ phase = "run" /\ started < NumBlocks /\ Cardinality(Running) < Resident
    /\ started' = started + 1
    /\ counter' = counter + BlockSize
    /\ pc' = [p \in Pieces |-> IF p \in counter .. counter + BlockSize - 1
                               THEN "spin" ELSE pc[p]]
    /\ UNCHANGED <<batch, epoch, phase, access, offset, lock, next, value, got>>

At(p, step) == phase = "run" /\ pc[p] = step
Goto(p, step) == pc' = [pc EXCEPT ![p] = step]

\* Mutant: the piece does not wait for its turn.
AcquireLockAtOnce(p) ==
    /\ At(p, "spin")
    /\ Goto(p, "read")
    /\ UNCHANGED <<batch, epoch, phase, access, offset, lock, counter, started, next,
                   value, got>>

\* acquireLock: spin until the lock names the piece's transaction.
AcquireLock(p) ==
    /\ At(p, "spin") /\ lock[Rec(p)] = TxnOf(p)
    /\ Goto(p, "read")
    /\ UNCHANGED <<batch, epoch, phase, access, offset, lock, counter, started, next,
                   value, got>>

\* The lock names another transaction: look again.
Spin(p) == At(p, "spin") /\ lock[Rec(p)] # TxnOf(p) /\ UNCHANGED vars

ReadData(p) ==
    /\ At(p, "read")
    /\ got' = IF Reads(p) THEN [got EXCEPT ![p] = value[Rec(p)]] ELSE got
    /\ Goto(p, "write")
    /\ UNCHANGED <<batch, epoch, phase, access, offset, lock, counter, started, next,
                   value>>

WriteData(p) ==
    /\ At(p, "write")
    /\ value' = IF Writes(p) THEN [value EXCEPT ![Rec(p)] = <<epoch, TxnOf(p)>>]
                ELSE value
    /\ Goto(p, "release")
    /\ UNCHANGED <<batch, epoch, phase, access, offset, lock, counter, started, next,
                   got>>

\* releaseLock: draw the next offset of the record ...
ReleaseDraw(p) ==
    /\ At(p, "release")
    /\ next' = [next EXCEPT ![p] = offset[Rec(p)] + 1]
    /\ offset' = [offset EXCEPT ![Rec(p)] = @ + 1]
    /\ Goto(p, "hand")
    /\ UNCHANGED <<batch, epoch, phase, access, lock, counter, started, value, got>>

\* ... and let the transaction found there have the lock.  After the record's
\* last operation that is another record's transaction, or what lies behind.
ReleaseHand(p) ==
    /\ At(p, "hand")
    /\ lock' = [lock EXCEPT ![Rec(p)] = access[next[p]]]
    /\ Goto(p, "done")
    /\ UNCHANGED <<batch, epoch, phase, access, offset, counter, started, next, value,
                   got>>

\* The kernel has ended; the host goes on to the next epoch.
EndKernel ==
    /\ phase = "run" /\ started = NumBlocks
    /\ \A p \in Pieces : pc[p] = "done"
    /\ phase' = "plan" /\ epoch' = epoch + 1
    /\ UNCHANGED <<batch, access, offset, lock, counter, started, pc, next, value, got>>

\* All epochs are over.
Finished == epoch > NEpochs /\ UNCHANGED vars

Thread(p) == AcquireLock(p) \/ ReadData(p) \/ WriteData(p) \/ ReleaseDraw(p) \/ ReleaseHand(p)
Kernel == Claim \/ \E p \in Pieces : Thread(p) \/ Spin(p)
Next == InitializeExecutionPlan \/ Kernel \/ EndKernel \/ Finished

Spec == Init /\ [][Next]_vars
\* The host goes on, a block that fits is started, and every thread of a
\* started block is scheduled again and again.
FairSpec ==
    /\ Spec
    /\ WF_vars(InitializeExecutionPlan) /\ WF_vars(EndKernel) /\ WF_vars(Claim)
    /\ \A p \in Pieces : WF_vars(Thread(p))

-----------------------------------------------------------------------------
\* A piece that is past acquireLock has its record to itself and in its turn:
\* every operation of the epoch on that record that comes before it has handed
\* the lock on, and none that comes after it has passed acquireLock.
HeldInTurn ==
    \A p, q \in Pieces :
        /\ phase = "run" /\ epoch <= NEpochs /\ Rec(p) = Rec(q) /\ p < q
        /\ pc[q] \notin {"unclaimed", "spin"}
        => pc[p] = "done"

\* The writer whose value an operation p of a serial run of epoch e would see
\* on record r: the last before p in the epoch, else an earlier epoch's last.
WritersBefore(e, p, r) ==
    {w \in (1 .. e) \X Pieces :
        /\ w[1] < e \/ w[2] < p
        /\ batch[w[1]][w[2]].record = r
        /\ batch[w[1]][w[2]].op \in {"UPDATE", "READ_MODIFY_WRITE", "INSERT"}}
NotAfter(v, w) == v[1] < w[1] \/ (v[1] = w[1] /\ v[2] <= w[2])
Serial(e, p, r) ==
    LET writers == WritersBefore(e, p, r)
        last == CHOOSE w \in writers : \A v \in writers : NotAfter(v, w)
    IN  IF writers = {} THEN <<0, 0>> ELSE <<last[1], TxnOf(last[2])>>

\* Every read returns what the transactions run one after the other, in the
\* order of their ids, would have read.
ReadsSerial ==
    phase = "run" => \A p \in Pieces :
        pc[p] \notin {"unclaimed", "spin", "read"} /\ Reads(p) =>
            got[p] = Serial(epoch, p, Rec(p))

\* Each epoch leaves the records as that serial run leaves them.
EpochSerial ==
    phase = "plan" =>
        \A r \in Records : value[r] = Serial(epoch - 1, NumOps, r)

\* Both: an epoch under the locks is the serial run of its transactions.
RunsSerially == ReadsSerial /\ EpochSerial

\* The kernel ends in every epoch, with fewer blocks on the GPU than the
\* kernel has: nobody waits for a transaction that cannot be started.
KernelsEnd == <>(epoch > NEpochs)
=============================================================================
