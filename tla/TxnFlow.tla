------------------------------ MODULE TxnFlow ------------------------------
(***************************************************************************)
(* How one epoch's transactions travel through the stages of runEpoch      *)
(* (benchmarks/ycsb.cpp, benchmarks/tpcc.cpp): generator, indexer,         *)
(* submitter, stager, planner, executor.  Each stage owns a transaction    *)
(* array; bridges (txn_bridge.h) connect them.  Two arrays on one device   *)
(* share memory after Link; two arrays on different devices are joined by  *)
(* an asynchronous copy on the bridge's own stream, which runs beside the  *)
(* stages until FinishTransfer.  YCSB moves plain arrays, TPC-C packed     *)
(* ones: variable-sized transactions, an offset table and a byte length.   *)
(***************************************************************************)
EXTENDS Integers, Sequences

CONSTANTS
    NTxns,       \* transactions in an epoch
    NEpochs,     \* epochs of the run
    Types,       \* transaction types
    InputSize, ParamSize, PlanSize,   \* size of each type in each array
    kBaseTxnSize,   \* size of the union of the types
    Configs      \* the command lines: [packed, hybrid, execution_device]

\* A transaction has a size, that of the union or less, and the stager's
\* executor is one of the GPU.
ASSUME TxnFlowAssumption ==
    /\ {NTxns, NEpochs} \subseteq Nat \ {0}
    /\ kBaseTxnSize \in Nat
    /\ {InputSize, ParamSize, PlanSize} \subseteq [Types -> 1 .. kBaseTxnSize]
    /\ Configs \subseteq [packed : BOOLEAN, hybrid : BOOLEAN, execution_device : {"CPU", "GPU"}]
    /\ \A c \in Configs : c.hybrid => c.execution_device = "GPU"

Txns == 0 .. NTxns - 1
Bridges == {"input", "init", "param", "plan"}
Stages == {"index_input", "index_output", "initialization_input",
           "initialization_output", "execution_param_input",
           "execution_plan_input"}
\* Every TxnArray of the benchmark; the ones numbered from 1 are the
\* generator's, one for each epoch.
Arrays == {<<"txn_array", e>> : e \in 1 .. NEpochs} \cup {<<s, 0>> : s \in Stages}
Null == <<"null", 0>>

\* PackedTxnArray::capacity, in units of the sizes above.
Capacity == kBaseTxnSize * NTxns

\* What a transaction's bytes hold: the stage that wrote them, the epoch and
\* the transaction they are about, and the transaction's type.
Nothing == <<"nothing", 0, 0>>
Kinds == {"nothing", "input", "crid", "grid", "plan", "garbage"}
Contents == Kinds \X (0 .. NEpochs) \X (0 .. NTxns)

VARIABLES
    config,      \* the command line of this run
    types,       \* the type of each transaction of each epoch
    epoch, pc,   \* the epoch being run and the step of runEpoch it is at
    arr,         \* each array's txns and index pointers and its size field
    mem,         \* the memory behind them: contents at offsets, offset table
    bridge,      \* what each bridge remembers: its arrays' pointers
    packed_size, \* PackedTxnBridge::packed_size
    copying,     \* the offsets each bridge's stream still has to copy
    tables,      \* the bridges whose stream still has to copy an offset table
    submitted, executed   \* what the submitter and the executor read

vars == <<config, types, epoch, pc, arr, mem, bridge, packed_size, copying,
          tables, submitted, executed>>

-----------------------------------------------------------------------------
Device(a) ==
    CASE a[1] = "txn_array" -> "CPU"
      [] a[1] \in {"execution_param_input", "execution_plan_input"} ->
             config.execution_device
      [] OTHER -> "GPU"

\* The exclusive prefix sums of a size for each transaction, and their total.
PrefixSums(size) ==
    LET sum[i \in 0 .. NTxns] == IF i = 0 THEN 0 ELSE sum[i - 1] + size[i - 1]
    IN  sum

\* The byte offset of each transaction of epoch e when its arrays give type t
\* s[t] bytes, and after the last one the total.
Offsets(s, e) == PrefixSums([i \in Txns |-> s[types[e][i]]])

\* A transaction of a plain TxnArray is found by multiplication, one of a
\* packed array through the array's offset table.
OffsetIn(a, i) == IF config.packed THEN mem[arr[a].index].index[i] ELSE i
GetTxn(a, i) == mem[arr[a].txns].txns[OffsetIn(a, i)]

\* Storage fresh from Malloc or createGpuTxnArrayStorage, which zeroes it.
Zeroed == [txns  |-> [o \in 0 .. Capacity |-> Nothing],
           index |-> [i \in 0 .. NTxns |-> 0]]

\* generateTxns: the epoch's transactions, one after the other, the offset of
\* each and, in the array's size field, their total.
Generated(e) ==
    LET at == IF config.packed THEN Offsets(InputSize, e) ELSE [i \in 0 .. NTxns |-> i]
    IN [txns  |-> [o \in 0 .. Capacity |->
                      IF \E i \in Txns : at[i] = o
                      THEN <<"input", e, CHOOSE i \in Txns : at[i] = o>>
                      ELSE Nothing],
        index |-> IF config.packed THEN [at EXCEPT ![NTxns] = 0] ELSE Zeroed.index]

-----------------------------------------------------------------------------
Ends == [input |-> <<"txn_array", "index_input">>,
         init  |-> <<"index_output", "initialization_input">>,
         param |-> <<"index_output", "execution_param_input">>,
         plan  |-> <<"initialization_output", "execution_plan_input">>]

Source(b, e) == IF b = "input" THEN <<"txn_array", e>> ELSE <<Ends[b][1], 0>>
Dest(b) == <<Ends[b][2], 0>>

Unlinked == [src |-> Null, dst |-> Null, from |-> Null, from_index |-> Null,
             to |-> Null, to_index |-> Null]

\* Initialize: an array without storage gets its own, and a packed one an
\* offset table.
InitializePlain(a) == [arr[a] EXCEPT !.txns = a]
InitializePacked(a) == [arr[a] EXCEPT !.txns = a, !.index = a]

\* TxnBridge::Link: an array on the source's device is pointed at the source's
\* transactions, one on the other device gets storage the first time.
LinkPlain(src, dst) ==
    IF Device(src) = Device(dst) THEN [arr[dst] EXCEPT !.txns = arr[src].txns]
    ELSE IF arr[dst].txns = Null THEN InitializePlain(dst) ELSE arr[dst]

\* PackedTxnBridge::Link: the offset table is shared, or allocated, as well.
LinkPacked(src, dst) ==
    IF Device(src) = Device(dst)
    THEN [arr[dst] EXCEPT !.txns = arr[src].txns, !.index = arr[src].index]
    ELSE IF arr[dst].txns = Null THEN InitializePacked(dst) ELSE arr[dst]

Linked(src, dst) == IF config.packed THEN LinkPacked(src, dst) ELSE LinkPlain(src, dst)

\* What the bridge remembers of its arrays; the size pointers are the arrays'.
Ptrs(src, dst) == [src |-> src, dst |-> dst,
                   from |-> arr[src].txns, from_index |-> arr[src].index,
                   to |-> Linked(src, dst).txns, to_index |-> Linked(src, dst).index]

Copies(b) == Device(bridge[b].src) # Device(bridge[b].dst)

-----------------------------------------------------------------------------
\* Mutant: the stager runs before the submitter.
RunEpochStageFirst ==
    << <<"link", "input">>, <<"start", "input">>, <<"finish", "input">>,
       <<"index", "host">>, <<"start", "init">>, <<"finish", "init">>, <<"start", "param">> >>
    \o (IF config.hybrid THEN << <<"remap", "host">> >> ELSE <<>>)
    \o << <<"submit", "host">>, <<"plan", "host">>, <<"start", "plan">>,
          <<"finish", "param">>, <<"finish", "plan">>, <<"execute", "host">> >>

\* Mutant: the parameter bridge is never finished.
RunEpochUnfinished ==
    << <<"link", "input">>, <<"start", "input">>, <<"finish", "input">>,
       <<"index", "host">>, <<"start", "init">>, <<"finish", "init">>, <<"start", "param">>,
       <<"submit", "host">> >>
    \o (IF config.hybrid THEN << <<"remap", "host">> >> ELSE <<>>)
    \o << <<"plan", "host">>, <<"start", "plan">>, <<"finish", "plan">>, <<"execute", "host">> >>

\* runEpoch as the list of its steps, in the order of the code: what is done
\* and, for a bridge's calls, to which bridge.
RunEpochYcsb ==
    << <<"link", "input">>, <<"start", "input">>, <<"finish", "input">>,
       <<"index", "host">>,
       <<"start", "init">>, <<"finish", "init">>, <<"start", "param">>,
       <<"submit", "host">> >>
    \o (IF config.hybrid THEN << <<"remap", "host">> >> ELSE <<>>)
    \o << <<"plan", "host">>,
          <<"start", "plan">>, <<"finish", "param">>, <<"finish", "plan">>,
          <<"execute", "host">> >>

RunEpochTpcc ==
    << <<"link", "input">>, <<"start", "input">>, <<"finish", "input">>,
       <<"build", "index_output">>, <<"build", "initialization_output">>,
       <<"index", "host">>,
       <<"start", "init">>, <<"finish", "init">>,
       <<"submit", "host">>,
       <<"plan", "host">>,
       <<"start", "param">>, <<"start", "plan">>,
       <<"finish", "param">>, <<"finish", "plan">> >>
    \o (IF config.hybrid THEN << <<"remap", "host">> >> ELSE <<>>)
    \o << <<"execute", "host">> >>

\* The constructor links every bridge once, the input bridge to the first
\* epoch's array; it stands for epoch 0.
Constructor == << <<"link", "input">>, <<"link", "init">>,
                  <<"link", "param">>, <<"link", "plan">> >>

RunEpoch == CASE epoch = 0 -> Constructor
              [] epoch > 0 -> IF config.packed THEN RunEpochTpcc ELSE RunEpochYcsb
Running == epoch <= NEpochs
At(op) == Running /\ RunEpoch[pc][1] = op
Arg == RunEpoch[pc][2]

\* The step is done and the host goes on to the next one, of the next epoch
\* after the last.
Step ==
    /\ IF pc < Len(RunEpoch) THEN pc' = pc + 1 /\ epoch' = epoch
       ELSE pc' = 1 /\ epoch' = epoch + 1
    /\ UNCHANGED <<config, types>>

-----------------------------------------------------------------------------
\* The arrays as they are constructed: the generator's, index_output and
\* initialization_output with storage, the others without.
Constructed(a) ==
    LET storage == IF a[1] \in {"txn_array", "index_output", "initialization_output"}
                   THEN a ELSE Null
    IN [txns  |-> storage, index |-> IF config.packed THEN storage ELSE Null,
        size  |-> IF a[1] = "txn_array" /\ config.packed
                  THEN Offsets(InputSize, a[2])[NTxns] ELSE 0]

Init ==
    /\ config \in Configs
    /\ types \in [1 .. NEpochs -> [Txns -> Types]]
    /\ epoch = 0 /\ pc = 1
    /\ arr = [a \in Arrays |-> Constructed(a)]
    /\ mem = [a \in Arrays |-> IF a[1] = "txn_array" THEN Generated(a[2]) ELSE Zeroed]
    /\ bridge = [b \in Bridges |-> Unlinked]
    /\ packed_size = [b \in Bridges |-> 0]
    /\ copying = [b \in Bridges |-> {}]
    /\ tables = {}
    /\ submitted = [i \in Txns |-> Nothing]
    /\ executed = [i \in Txns |-> <<Nothing, Nothing>>]

\* A bridge is linked: all of them by the constructor, the input bridge again
\* in every epoch, to that epoch's array.
Link ==
    /\ At("link")
    /\ LET src == Source(Arg, IF epoch = 0 THEN 1 ELSE epoch) dst == Dest(Arg) IN
       /\ arr' = [arr EXCEPT ![dst] = Linked(src, dst)]
       /\ bridge' = [bridge EXCEPT ![Arg] = Ptrs(src, dst)]
    /\ Step
    /\ UNCHANGED <<mem, packed_size, copying, tables, submitted, executed>>

\* TxnBridge::StartTransfer: queue a copy of num_txns transactions.
StartPlain ==
    /\ At("start") /\ ~config.packed
    /\ copying' = [copying EXCEPT ![Arg] = IF Copies(Arg) THEN Txns ELSE {}]
    /\ Step
    /\ UNCHANGED <<arr, mem, bridge, packed_size, tables, submitted, executed>>

\* Mutant: the offset of the last transaction is taken for the length.
PackedLengthShort(b) ==
    IF Device(bridge[b].src) = "GPU" THEN mem[bridge[b].from_index].index[NTxns - 1]
    ELSE arr[bridge[b].src].size

\* The byte length a packed copy uses: from the device it is the last entry of
\* the source's offset table, to the device the source array's size field.
PackedLength(b) ==
    IF Device(bridge[b].src) = "GPU" THEN mem[bridge[b].from_index].index[NTxns]
    ELSE arr[bridge[b].src].size

\* PackedTxnBridge::StartTransfer: queue the copy of that many bytes, then of
\* num_txns table entries, and set the size field of both arrays.
StartPacked ==
    /\ At("start") /\ config.packed
    /\ IF Copies(Arg)
       THEN LET n == PackedLength(Arg) IN
            /\ packed_size' = [packed_size EXCEPT ![Arg] = n]
            /\ copying' = [copying EXCEPT ![Arg] = 0 .. n - 1]
            /\ tables' = tables \cup {Arg}
            /\ arr' = [arr EXCEPT ![bridge[Arg].src].size = n,
                                  ![bridge[Arg].dst].size = n]
       ELSE UNCHANGED <<packed_size, copying, tables, arr>>
    /\ Step
    /\ UNCHANGED <<mem, bridge, submitted, executed>>

\* The stream copies its bytes in no particular order ...
CopyBytes(b) ==
    /\ \E o \in copying[b] :
        /\ mem' = [mem EXCEPT ![bridge[b].to].txns[o] = mem[bridge[b].from].txns[o]]
        /\ copying' = [copying EXCEPT ![b] = @ \ {o}]
    /\ UNCHANGED <<config, types, epoch, pc, arr, bridge, packed_size, tables,
                   submitted, executed>>

\* ... and after them the offset table, without its last entry.
CopyTable(b) ==
    /\ b \in tables /\ copying[b] = {}
    /\ mem' = [mem EXCEPT ![bridge[b].to_index].index =
                  [i \in 0 .. NTxns |-> IF i < NTxns
                                        THEN mem[bridge[b].from_index].index[i]
                                        ELSE @[i]]]
    /\ tables' = tables \ {b}
    /\ UNCHANGED <<config, types, epoch, pc, arr, bridge, packed_size, copying,
                   submitted, executed>>

\* FinishTransfer: wait for the bridge's stream to run dry.
Drained(b) == copying[b] = {} /\ b \notin tables
FinishTransfer ==
    /\ At("finish") /\ Drained(Arg)
    /\ Step
    /\ UNCHANGED <<arr, mem, bridge, packed_size, copying, tables, submitted, executed>>

-----------------------------------------------------------------------------
\* The type a kernel reads from a transaction of the input array.
TypeRead(c) == types[c[2]][c[3]]

\* buildPackedTxnArrayGpu: the sizes of the transactions the indexer was given,
\* summed into entries 1 .. num_txns of the stage's offset table.
BuildPackedTxnArray ==
    /\ At("build")
    /\ LET s == IF Arg = "index_output" THEN ParamSize ELSE PlanSize
           size == [i \in Txns |-> s[TypeRead(GetTxn(<<"index_input", 0>>, i))]]
       IN mem' = [mem EXCEPT ![arr[<<Arg, 0>>].index].index =
                     [i \in 0 .. NTxns |-> IF i = 0 THEN @[0] ELSE PrefixSums(size)[i]]]
    /\ Step
    /\ UNCHANGED <<arr, bridge, packed_size, copying, tables, submitted, executed>>

\* A kernel that writes transaction i of array a as f[i], for every i.
Write(a, f) ==
    mem' = [mem EXCEPT ![arr[a].txns].txns =
               [o \in 0 .. Capacity |->
                   IF \E i \in Txns : OffsetIn(a, i) = o
                   THEN f[CHOOSE i \in Txns : OffsetIn(a, i) = o] ELSE @[o]]]

As(kind, from, c) == <<IF c[1] = from THEN kind ELSE "garbage", c[2], c[3]>>

\* indexTxns: each key of the input becomes the CRID of its record.  TPC-C's
\* performRangeQueries, the call before it, writes other fields of the same
\* array; the two are one step, as no copy is started or awaited in between.
IndexTxns ==
    /\ At("index")
    /\ Write(<<"index_output", 0>>,
             [i \in Txns |-> As("crid", "input", GetTxn(<<"index_input", 0>>, i))])
    /\ Step
    /\ UNCHANGED <<arr, bridge, packed_size, copying, tables, submitted, executed>>

\* submit: the planner's operations are keyed by what its input array holds.
Submit ==
    /\ At("submit")
    /\ submitted' = [i \in Txns |-> GetTxn(<<"initialization_input", 0>>, i)]
    /\ Step
    /\ UNCHANGED <<arr, mem, bridge, packed_size, copying, tables, executed>>

\* The stager's remap kernel: each CRID the executor will use becomes the GRID
\* of its cache slot, in place.
Remap ==
    /\ At("remap")
    /\ Write(<<"execution_param_input", 0>>,
             [i \in Txns |-> As("grid", "crid", GetTxn(<<"execution_param_input", 0>>, i))])
    /\ Step
    /\ UNCHANGED <<arr, bridge, packed_size, copying, tables, submitted, executed>>

\* InitializeExecutionPlan: the submitted operations' plan, scattered to the
\* transactions they belong to.
InitializeExecutionPlan ==
    /\ At("plan")
    /\ Write(<<"initialization_output", 0>>,
             [i \in Txns |-> As("plan", "crid", submitted[i])])
    /\ Step
    /\ UNCHANGED <<arr, bridge, packed_size, copying, tables, submitted, executed>>

\* execute: the executor reads its parameters and its plan.
Execute ==
    /\ At("execute")
    /\ executed' = [i \in Txns |-> <<GetTxn(<<"execution_param_input", 0>>, i),
                                     GetTxn(<<"execution_plan_input", 0>>, i)>>]
    /\ Step
    /\ UNCHANGED <<arr, mem, bridge, packed_size, copying, tables, submitted>>

Host == \/ Link \/ StartPlain \/ StartPacked \/ FinishTransfer
        \/ BuildPackedTxnArray \/ IndexTxns \/ Submit \/ Remap
        \/ InitializeExecutionPlan \/ Execute

Streams == \E b \in Bridges : CopyBytes(b) \/ CopyTable(b)

Next == Host \/ Streams
Spec == Init /\ [][Next]_vars

-----------------------------------------------------------------------------
\* What the submitter gets is this epoch's CRIDs, for every transaction:
\* neither what an earlier epoch left in the array it shares with the indexer
\* and the executor, nor the GRIDs the stager writes into that array.
SubmitterGetsCrids ==
    epoch > 0 /\ (\E k \in 1 .. pc - 1 : RunEpoch[k][1] = "submit") =>
        submitted = [i \in Txns |-> <<"crid", epoch, i>>]

\* The executor of every epoch reads this epoch's parameters, with GRIDs
\* exactly when it runs over the cache, and this epoch's plan, whatever memory
\* the two share and whichever stream brought them.
ExecutorGetsItsEpoch ==
    epoch > 1 /\ pc = 1 =>
        executed = [i \in Txns |-> <<
            <<IF config.hybrid THEN "grid" ELSE "crid", epoch - 1, i>>,
            <<"plan", epoch - 1, i>> >>]

\* Both: every consumer of an epoch gets that epoch's ids in the form it expects.
ConsumersGetTheirs == SubmitterGetsCrids /\ ExecutorGetsItsEpoch

\* The length a packed copy was started with is the total of its transactions
\* in this epoch, so that no tail of an epoch longer than an earlier one is
\* left behind.
PackedCopyWhole ==
    \A b \in tables :
        packed_size[b] = Offsets(CASE b = "input" -> InputSize
                                   [] b \in {"init", "param"} -> ParamSize
                                   [] b = "plan" -> PlanSize, epoch)[NTxns]

\* While a bridge's stream has bytes or an offset table left to copy, no stage
\* and no other stream writes the memory it reads from or the memory it writes
\* to, the two tables included.
NoWriteUnderCopy ==
    [][\A b \in Bridges :
          (copying[b] # {} \/ b \in tables)
          /\ copying'[b] = copying[b] /\ (b \in tables' <=> b \in tables) =>
              /\ mem'[bridge[b].from] = mem[bridge[b].from]
              /\ mem'[bridge[b].to] = mem[bridge[b].to]
              /\ b \in tables =>
                    /\ mem'[bridge[b].from_index] = mem[bridge[b].from_index]
                    /\ mem'[bridge[b].to_index] = mem[bridge[b].to_index]]_vars
=============================================================================
