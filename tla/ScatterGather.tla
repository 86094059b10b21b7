----------------------------- MODULE ScatterGather -----------------------------
(***************************************************************************)
(* Bulk movement of records between the Primary Store and the Execution    *)
(* Cache (scatter_gather.cu).  A call works through its entries in chunks. *)
(* The host thread fills pinned buffers and queues copies, kernels, event  *)
(* records and event waits on CUDA streams; each stream runs its commands  *)
(* in order, at its own pace.  Two sets of buffers take turns, so that one *)
(* chunk is moved while the next is prepared; only events keep a buffer    *)
(* from being refilled too early.  Buffers grow when a call needs more.    *)
(***************************************************************************)
EXTENDS Integers, Sequences, FiniteSetsExt, DualVersion

CONSTANTS
    MaxElems,               \* bound: entries of a call
    MaxCalls,               \* bound: calls made on the object
    Epoch,                  \* the epoch a transfer is made for
    Clients,                \* [chunk, calls]: option chunk_mode, and the calls made
    ChunkBytes,             \* option chunk_bytes
    VersBytes, WbBytes,     \* bytes of a packed entry: of a transfer, of a writeback
    FloorBytes, CapBytes,   \* MIN_CHUNK_FLOOR, MAX_CHUNK_CAP
    TuneBytes, TuneChunks   \* kAutotuneBytesPerChunk, most chunks of a half

ASSUME ScatterGatherAssumption ==
    /\ {MaxElems, VersBytes, WbBytes, TuneBytes, TuneChunks} \subseteq Nat \ {0}
    /\ {ChunkBytes, FloorBytes, CapBytes} \subseteq Nat
    /\ Clients \subseteq [chunk : BOOLEAN, calls : SUBSET {"transfer", "writeback", "flush"}]

VersBuffers == {"h_packed_vers_buf", "d_packed_vers_buf", "h_prev_slots_buf", "d_prev_slots_buf",
                "h_curr_slots_buf", "d_curr_slots_buf"} \X {0, 1}
GridBuffers == {"h_grids_buf", "d_grids_buf"} \X {0, 1}
WbBuffers == {"h_wb_d2h_buf"} \X {0, 1}
WholeBuffers == {"h_packed_vers", "d_packed_vers", "h_prev_slots", "d_grids_persistent"} \X {0}
Buffers == VersBuffers \cup GridBuffers \cup WbBuffers \cup WholeBuffers
Streams == {"stream", "copy", "compute", "d2h"}
Events == {"h2d_done", "compute_done", "d2h_done", "wb_d2h_event"} \X {0, 1}
PackedBuffers == {"h_packed_vers_buf", "d_packed_vers_buf", "h_wb_d2h_buf", "h_packed_vers",
                  "d_packed_vers"} \X {0, 1}
Junk(x) == IF x \in PackedBuffers THEN <<-1, -1, -1>> ELSE -1

VARIABLES
    client,
    call,             \* the last call: its kind, number, entries and sentinel entries
    pc, base, end, buf,
    held,             \* held[b]: the chunk in buffer b that the host has yet to scatter
    bufs,             \* capacity members, sizes of the allocations, in-flight flags
    mem,              \* contents of the buffers
    queue,            \* commands of each stream that have not run
    recorded, done,   \* records of an event that were queued, and that have run
    host, gpu         \* CPU_recs by CRID, GPU_recs by GRID

vars == <<client, call, pc, base, end, buf, held, bufs, mem, queue, recorded, done, host, gpu>>
gpuSide == <<queue, recorded, done, gpu>>

(* Entry i of a call of n entries is record i, cached at GRID n + 1 - i.   *)
(* What the client has in memory differs from call to call.                *)
Crids == 1 .. MaxElems
Grid(i) == call.n + 1 - i
Slot(i) == 1 + ((i + call.k) % 2)
TagsOf(c) == CASE c % 5 = 1 -> <<Epoch, Epoch - 1>>
               [] c % 5 = 2 -> <<Epoch - 1, Epoch>>
               [] c % 5 = 3 -> <<Epoch - 2, Epoch - 1>>
               [] c % 5 = 4 -> <<Epoch - 1, Epoch - 2>>
               [] OTHER -> <<0, 0>>
HostOf(k) == [c \in Crids |-> [ver |-> TagsOf(c), val |-> [s \in SlotIds |-> 100 * k + 10 * c + s]]]
GpuOf(k) == [g \in Crids |-> [ver |-> [s \in SlotIds |-> 5 * k + s],
                              val |-> [s \in SlotIds |-> 100 * k + 10 * g + 4 + s]]]

--------------------------------------------------------------------------------
(* Chunk sizes, in entries.                                                *)
TransferElems(n) ==
    LET adaptive == Min({CapBytes, Max({FloorBytes, n * VersBytes})})
    IN  Max({1, Min({CapBytes, Max({ChunkBytes, adaptive})}) \div VersBytes})

(* Mutant: entries larger than chunk_bytes leave a chunk of none.          *)
WritebackElemsUnclamped == ChunkBytes \div WbBytes

WritebackElems == Max({1, ChunkBytes \div WbBytes})

HalfElems(n) ==
    LET chunks == Max({1, Min({TuneChunks, (n * WbBytes + TuneBytes - 1) \div TuneBytes})})
    IN  Max({1, (n + chunks - 1) \div chunks})

(* Growth of the buffers: the capacity member decides, the allocations     *)
(* follow.  d_prev_slots_buf_[0] and d_curr_slots_buf_[0] are also used,   *)
(* under capacities of their own, when the object is not in chunk mode.    *)
Resized(b, S, n) == [x \in Buffers |-> IF x \in S THEN n ELSE b.size[x]]
Grown(cap, n) == Max({n, cap + cap \div 2})

(* Mutant: the device buffer of the packed entries keeps its old size.     *)
EnsureVersionsHostOnly(b, n) ==
    IF n <= b.cap.vers THEN b
    ELSE [b EXCEPT !.cap.vers = Grown(@, n),
                   !.size = Resized(b, {<<"h_packed_vers", 0>>}, Grown(b.cap.vers, n))]

EnsureVersions(b, n) ==
    LET new == Grown(b.cap.vers, n)
        packed == [b EXCEPT !.cap.vers = new,
                            !.size = Resized(b, {<<"h_packed_vers", 0>>, <<"d_packed_vers", 0>>}, new)]
    IN  IF n <= b.cap.vers THEN b
        ELSE IF n <= b.cap.prev THEN packed
        ELSE [packed EXCEPT !.cap.prev = n, !.size = Resized(packed, {<<"h_prev_slots", 0>>}, n)]

EnsureGrids(b, n) ==
    IF n <= b.cap.grids THEN b
    ELSE [b EXCEPT !.cap.grids = Grown(@, n),
                   !.size = Resized(b, {<<"d_grids_persistent", 0>>}, Grown(b.cap.grids, n))]

EnsurePrevSlots(b, n) ==
    IF n <= b.cap.prevSlots THEN b
    ELSE [b EXCEPT !.cap.prevSlots = n, !.size = Resized(b, {<<"d_prev_slots_buf", 0>>}, n)]

EnsureCurrSlots(b, n) ==
    IF n <= b.cap.currSlots THEN b
    ELSE [b EXCEPT !.cap.currSlots = n, !.size = Resized(b, {<<"d_curr_slots_buf", 0>>}, n)]

EnsureChunkVersions(b, n) ==
    IF n <= b.cap.chunkVers THEN b
    ELSE [b EXCEPT !.cap.chunkVers = n, !.size = Resized(b, VersBuffers, n)]

EnsureChunkGrids(b, n) ==
    IF n <= b.cap.chunk THEN b
    ELSE [b EXCEPT !.cap.chunk = n, !.size = Resized(b, GridBuffers, n),
                   !.tx = [x \in {0, 1} |-> FALSE], !.wb = [x \in {0, 1} |-> FALSE]]

EnsureWb(b, n) ==
    IF n <= b.cap.wb THEN b
    ELSE [b EXCEPT !.cap.wb = Grown(@, n), !.size = Resized(b, WbBuffers, Grown(b.cap.wb, n))]

WbAsyncEnsure(b, n) == EnsureCurrSlots(EnsureGrids(EnsureVersions(b, n), n), n)

(* A new allocation holds nothing.                                         *)
Resize(b) ==
    /\ bufs' = b
    /\ mem' = [x \in Buffers |-> IF b.size[x] = bufs.size[x] THEN mem[x]
                                 ELSE [i \in Crids |-> Junk(x)]]

(* The capacities of an object that holds no buffer, but for the host      *)
(* buffers of the chunked flush, which reset() leaves alone.               *)
Empty(wb, size) ==
    [cap |-> [vers |-> 0, prev |-> 0, grids |-> 0, prevSlots |-> 0, currSlots |-> 0,
              chunkVers |-> 0, chunk |-> 0, wb |-> wb],
     size |-> [x \in Buffers |-> IF x \in WbBuffers THEN size ELSE 0],
     tx |-> [x \in {0, 1} |-> FALSE], wb |-> [x \in {0, 1} |-> FALSE]]

Init ==
    /\ client \in Clients
    /\ call = [op |-> "none", k |-> 0, n |-> 0, bad |-> {}]
    /\ pc = "idle" /\ base = 0 /\ end = 0 /\ buf = 0
    /\ held = [b \in {0, 1} |-> [from |-> 0, len |-> 0]]
    /\ bufs = Empty(0, 0)
    /\ mem = [x \in Buffers |-> [i \in Crids |-> Junk(x)]]
    /\ queue = [s \in Streams |-> <<>>]
    /\ recorded = [e \in Events |-> 0] /\ done = [e \in Events |-> 0]
    /\ host = HostOf(0) /\ gpu = GpuOf(0)

--------------------------------------------------------------------------------
(* Commands.                                                               *)
Copy(from, off, to, m) == [op |-> "copy", src |-> from, off |-> off, dst |-> to, m |-> m]
Put(data, to, m) == [op |-> "put", data |-> data, dst |-> to, m |-> m]
(* A wait is for the record queued last: one that is queued before it.     *)
Record(ev) == [op |-> "record", ev |-> ev, tick |-> recorded[ev] + 1]
WaitFor(ev) == [op |-> "wait", ev |-> ev, tick |-> recorded[ev] + 1]
Kernel(op, packed, grids, slots, m) ==
    [op |-> op, packed |-> packed, grids |-> grids, slots |-> slots, m |-> m]

Overlay(old, new, off, m) == [i \in Crids |-> IF i <= m THEN new[off + i] ELSE old[i]]

(* cudaEventSynchronize, cudaStreamSynchronize.                            *)
Synced(ev) == done[ev] = recorded[ev]
Drained(S) == \A s \in S : queue[s] = <<>>

(* k_pack_versions_by_grids: the tag and the value of each entry's slot.   *)
PackKernel(c) ==
    [i \in Crids |-> IF i <= c.m
                     THEN LET g == mem[c.grids][i]
                              s == mem[c.slots][i]
                          IN  <<gpu[g].ver[s], gpu[g].val[s]>>
                     ELSE mem[c.packed][i]]

(* k_scatter_versions: both tags, and the value into the entry's slot.     *)
ScatterKernel(c) ==
    [g \in Crids |->
       IF \E i \in 1 .. c.m : mem[c.grids][i] = g
       THEN LET i == CHOOSE i \in 1 .. c.m : mem[c.grids][i] = g
                e == mem[c.packed][i]
            IN  [ver |-> <<e[1], e[2]>>, val |-> [gpu[g].val EXCEPT ![mem[c.slots][i]] = e[3]]]
       ELSE gpu[g]]

(* A stream runs its next command.                                         *)
Run(s) ==
    LET c == Head(queue[s])
    IN  /\ queue[s] # <<>>
        /\ c.op = "wait" => done[c.ev] >= c.tick
        /\ queue' = [queue EXCEPT ![s] = Tail(@)]
        /\ done' = IF c.op = "record" THEN [done EXCEPT ![c.ev] = c.tick] ELSE done
        /\ mem' = CASE c.op = "copy" -> [mem EXCEPT ![c.dst] = Overlay(@, mem[c.src], c.off, c.m)]
                    [] c.op = "put" -> [mem EXCEPT ![c.dst] = Overlay(@, c.data, 0, c.m)]
                    [] c.op = "pack" -> [mem EXCEPT ![c.packed] = PackKernel(c)]
                    [] OTHER -> mem
        /\ gpu' = IF c.op = "scatter" THEN ScatterKernel(c) ELSE gpu
        /\ UNCHANGED <<client, call, pc, base, end, buf, held, bufs, recorded, host>>

(* gather_host_versions_range_: an entry without a record ships zeros.     *)
Gathered(i) ==
    IF i \in call.bad
    THEN [slot |-> 1, entry |-> <<0, 0, 0>>]
    ELSE LET s == ReadSlot(host[i].ver, Epoch)
         IN  [slot |-> s, entry |-> <<host[i].ver[1], host[i].ver[2], host[i].val[s]>>]

(* scatter_host_versions_range_from_packed_: entries from + 1 .. from + n. *)
ScatterHost(from, n, packed) ==
    host' = [c \in Crids |->
               IF c \in from + 1 .. from + n /\ c \notin call.bad
               THEN LET e == mem[packed][c - from]
                    IN  [ver |-> [host[c].ver EXCEPT ![Slot(c)] = e[1]],
                         val |-> [host[c].val EXCEPT ![Slot(c)] = e[2]]]
               ELSE host[c]]

(* A call begins: the client's memory, and the buffers the call needs.     *)
Begin(op, n, bad, b, next) ==
    /\ pc = "idle" /\ call.k < MaxCalls /\ op \in client.calls
    /\ call' = [op |-> op, k |-> call.k + 1, n |-> n, bad |-> bad]
    /\ pc' = next /\ base' = 0 /\ end' = n /\ buf' = 0
    /\ held' = [x \in {0, 1} |-> [from |-> 0, len |-> 0]]
    /\ recorded' = [e \in Events |-> 0] /\ done' = [e \in Events |-> 0]
    /\ host' = HostOf(call.k + 1) /\ gpu' = GpuOf(call.k + 1)
    /\ Resize(b)
    /\ UNCHANGED <<client, queue>>

Return == pc' = "idle"

(* reset() and init(): the object gives up its buffers and starts again.   *)
Reset ==
    /\ pc = "idle" /\ call.op # "none"
    /\ call' = [op |-> "none", k |-> call.k, n |-> 0, bad |-> {}]
    /\ Resize(Empty(bufs.cap.wb, bufs.size[<<"h_wb_d2h_buf", 0>>]))
    /\ UNCHANGED <<client, pc, base, end, buf, held, gpuSide, host>>

--------------------------------------------------------------------------------
(* transfer_versions in chunk mode.                                        *)
Transfer(n, bad) ==
    /\ client.chunk
    /\ Begin("transfer", n, bad,
             EnsureChunkGrids(EnsureChunkVersions(bufs, TransferElems(n)), TransferElems(n)), "tx")

(* The gathered chunk goes to the device on the copy stream; the compute   *)
(* stream waits for it and scatters it.                                    *)
QueueTransferChunk ==
    LET m == Min({TransferElems(call.n), call.n - base})
        at(name) == <<name, buf>>
    IN  /\ mem' = [mem EXCEPT
             ![at("h_packed_vers_buf")] = Overlay(@, [i \in 1 .. m |-> Gathered(base + i).entry], 0, m),
             ![at("h_prev_slots_buf")] = Overlay(@, [i \in 1 .. m |-> Gathered(base + i).slot], 0, m),
             ![at("h_grids_buf")] = Overlay(@, [i \in 1 .. m |-> Grid(base + i)], 0, m)]
        /\ queue' = [queue EXCEPT
             !["copy"] = @ \o <<Copy(at("h_packed_vers_buf"), 0, at("d_packed_vers_buf"), m),
                                Copy(at("h_grids_buf"), 0, at("d_grids_buf"), m),
                                Copy(at("h_prev_slots_buf"), 0, at("d_prev_slots_buf"), m),
                                Record(at("h2d_done"))>>,
             !["compute"] = @ \o <<WaitFor(at("h2d_done")),
                                   Kernel("scatter", at("d_packed_vers_buf"), at("d_grids_buf"),
                                          at("d_prev_slots_buf"), m),
                                   Record(at("compute_done"))>>]
        /\ recorded' = [recorded EXCEPT ![at("h2d_done")] = @ + 1, ![at("compute_done")] = @ + 1]
        /\ bufs' = [bufs EXCEPT !.tx[buf] = TRUE]
        /\ base' = base + m /\ buf' = 1 - buf
        /\ UNCHANGED <<client, call, pc, end, held, done, host, gpu>>

(* Mutant: a buffer is refilled without waiting for its last chunk.        *)
TransferChunkNoWait == pc = "tx" /\ base < call.n /\ QueueTransferChunk

TransferChunk ==
    /\ pc = "tx" /\ base < call.n
    /\ bufs.tx[buf] => Synced(<<"compute_done", buf>>)
    /\ QueueTransferChunk

TransferReturn ==
    /\ pc = "tx" /\ base = call.n /\ Drained({"copy", "compute"})
    /\ Return
    /\ UNCHANGED <<client, call, base, end, buf, held, bufs, mem, gpuSide, host>>

(* transfer_versions without chunks.                                       *)
TransferWhole(n, bad) ==
    /\ ~client.chunk
    /\ Begin("transfer", n, bad, EnsureVersions(bufs, n), "gather")

GatherWhole ==
    /\ pc = "gather"
    /\ mem' = [mem EXCEPT
         ![<<"h_packed_vers", 0>>] = Overlay(@, [i \in 1 .. call.n |-> Gathered(i).entry], 0, call.n),
         ![<<"h_prev_slots", 0>>] = Overlay(@, [i \in 1 .. call.n |-> Gathered(i).slot], 0, call.n)]
    /\ queue' = [queue EXCEPT !["stream"] =
                   Append(@, Copy(<<"h_packed_vers", 0>>, 0, <<"d_packed_vers", 0>>, call.n))]
    /\ pc' = "scatter"
    /\ UNCHANGED <<client, call, base, end, buf, held, bufs, recorded, done, host, gpu>>

(* scatter_device_versions_, once the packed entries are on the device.    *)
ScatterWhole ==
    /\ pc = "scatter" /\ Drained({"stream"})
    /\ Resize(EnsurePrevSlots(EnsureGrids(bufs, call.n), call.n))
    /\ queue' = [queue EXCEPT !["stream"] = @ \o
         <<Put([i \in 1 .. call.n |-> Grid(i)], <<"d_grids_persistent", 0>>, call.n),
           Copy(<<"h_prev_slots", 0>>, 0, <<"d_prev_slots_buf", 0>>, call.n),
           Kernel("scatter", <<"d_packed_vers", 0>>, <<"d_grids_persistent", 0>>,
                  <<"d_prev_slots_buf", 0>>, call.n)>>]
    /\ pc' = "scattered"
    /\ UNCHANGED <<client, call, base, end, buf, held, recorded, done, host, gpu>>

ScatterWholeReturn ==
    /\ pc = "scattered" /\ Drained({"stream"})
    /\ Return
    /\ UNCHANGED <<client, call, base, end, buf, held, bufs, mem, gpuSide, host>>

--------------------------------------------------------------------------------
(* The host scatters the chunk in buffer b, once it has arrived.           *)
ScatterHeld(b, ev, packed) ==
    /\ Synced(<<ev, b>>)
    /\ ScatterHost(held[b].from, held[b].len, <<packed, b>>)
    /\ held' = [held EXCEPT ![b].len = 0]
    /\ UNCHANGED <<client, call, pc, base, end, buf, bufs, mem, gpuSide>>

(* While a chunk is under way the host scatters the one before it, and     *)
(* after the loop the last one.                                            *)
ScatterPrevious(ev, packed) == held[buf].len # 0 /\ ScatterHeld(buf, ev, packed)
ScatterLast(ev, packed) ==
    base = end /\ held[buf].len = 0 /\ held[1 - buf].len # 0 /\ ScatterHeld(1 - buf, ev, packed)
(* Mutant: the last chunk is left to itself.                               *)
ScatteredButLast == base = end

Scattered == base = end /\ \A b \in {0, 1} : held[b].len = 0

(* writeback_versions in chunk mode.                                       *)
Writeback(n, bad) ==
    /\ client.chunk
    /\ Begin("writeback", n, bad,
             EnsureChunkGrids(EnsureChunkVersions(bufs, WritebackElems), WritebackElems), "wb")

(* Grids and slots go to the device, the compute stream packs, the copy    *)
(* stream waits for it and brings the packed chunk back.                   *)
WritebackChunk ==
    LET m == Min({WritebackElems, call.n - base})
        at(name) == <<name, buf>>
    IN  /\ pc = "wb" /\ base < call.n /\ held[buf].len = 0
        /\ bufs.wb[buf] => Synced(<<"d2h_done", buf>>)
        /\ mem' = [mem EXCEPT
             ![at("h_grids_buf")] = Overlay(@, [i \in 1 .. m |-> Grid(base + i)], 0, m),
             ![at("h_curr_slots_buf")] = Overlay(@, [i \in 1 .. m |-> Slot(base + i)], 0, m)]
        /\ queue' = [queue EXCEPT
             !["copy"] = @ \o <<Copy(at("h_grids_buf"), 0, at("d_grids_buf"), m),
                                Copy(at("h_curr_slots_buf"), 0, at("d_curr_slots_buf"), m),
                                Record(at("h2d_done")), WaitFor(at("compute_done")),
                                Copy(at("d_packed_vers_buf"), 0, at("h_packed_vers_buf"), m),
                                Record(at("d2h_done"))>>,
             !["compute"] = @ \o <<WaitFor(at("h2d_done")),
                                   Kernel("pack", at("d_packed_vers_buf"), at("d_grids_buf"),
                                          at("d_curr_slots_buf"), m),
                                   Record(at("compute_done"))>>]
        /\ recorded' = [e \in Events |-> IF e[2] = buf /\ e[1] # "wb_d2h_event"
                                         THEN recorded[e] + 1 ELSE recorded[e]]
        /\ bufs' = [bufs EXCEPT !.wb[buf] = TRUE]
        /\ held' = [held EXCEPT ![buf] = [from |-> base, len |-> m]]
        /\ base' = base + m /\ buf' = 1 - buf
        /\ UNCHANGED <<client, call, pc, end, done, host, gpu>>

WritebackScatter ==
    /\ pc = "wb"
    /\ \/ ScatterPrevious("d2h_done", "h_packed_vers_buf")
       \/ ScatterLast("d2h_done", "h_packed_vers_buf")

WritebackReturn ==
    /\ pc = "wb" /\ Scattered /\ Drained({"copy", "compute"})
    /\ Return
    /\ UNCHANGED <<client, call, base, end, buf, held, bufs, mem, gpuSide, host>>

(* writeback_versions without chunks, and the asynchronous flush, first    *)
(* pack the whole call on the object's stream.                             *)
WritebackWhole(n, bad) ==
    /\ ~client.chunk
    /\ Begin("writeback", n, bad, WbAsyncEnsure(bufs, n), "pack")

Flush(n, bad) ==
    /\ ~client.chunk
    /\ Begin("flush", n, bad, WbAsyncEnsure(bufs, n), "pack")

PackCommands ==
    <<Put([i \in 1 .. call.n |-> Grid(i)], <<"d_grids_persistent", 0>>, call.n),
      Put([i \in 1 .. call.n |-> Slot(i)], <<"d_curr_slots_buf", 0>>, call.n),
      Kernel("pack", <<"d_packed_vers", 0>>, <<"d_grids_persistent", 0>>,
             <<"d_curr_slots_buf", 0>>, call.n)>>

PackWhole ==
    /\ pc = "pack"
    /\ queue' = [queue EXCEPT !["stream"] = @ \o PackCommands
         \o IF call.op = "flush" THEN <<>>
            ELSE <<Copy(<<"d_packed_vers", 0>>, 0, <<"h_packed_vers", 0>>, call.n)>>]
    /\ pc' = IF call.op = "flush" THEN "flush" ELSE "packed"
    /\ UNCHANGED <<client, call, base, end, buf, held, bufs, mem, recorded, done, host, gpu>>

WritebackWholeReturn ==
    /\ pc = "packed" /\ Drained({"stream"})
    /\ ScatterHost(0, call.n, <<"h_packed_vers", 0>>)
    /\ Return
    /\ UNCHANGED <<client, call, base, end, buf, held, bufs, mem, gpuSide>>

(* The worker makes the two calls of wb_chunked_d2h_scatter.  A number of  *)
(* records of zero means all from the start on.                            *)
Half(start, num, next) ==
    LET n == IF num = 0 THEN call.n - start ELSE num
    IN  /\ base' = start /\ end' = start + n /\ buf' = 0
        /\ Resize(EnsureWb(bufs, HalfElems(n)))
        /\ pc' = next
        /\ UNCHANGED <<client, call, held, gpuSide, host>>

FirstHalf == pc = "flush" /\ Drained({"stream"}) /\ Half(0, call.n \div 2, "half1")
NextHalf == pc = "half1" /\ Scattered /\ Half(call.n \div 2, call.n - call.n \div 2, "half2")

FlushChunk ==
    LET start == IF pc = "half1" THEN 0 ELSE call.n \div 2
        m == Min({HalfElems(end - start), end - base})
    IN  /\ pc \in {"half1", "half2"} /\ base < end /\ held[buf].len = 0
        /\ queue' = [queue EXCEPT !["d2h"] = @ \o
                       <<Copy(<<"d_packed_vers", 0>>, base, <<"h_wb_d2h_buf", buf>>, m),
                         Record(<<"wb_d2h_event", buf>>)>>]
        /\ recorded' = [recorded EXCEPT ![<<"wb_d2h_event", buf>>] = @ + 1]
        /\ held' = [held EXCEPT ![buf] = [from |-> base, len |-> m]]
        /\ base' = base + m /\ buf' = 1 - buf
        /\ UNCHANGED <<client, call, pc, end, bufs, mem, done, host, gpu>>

FlushScatter ==
    /\ pc \in {"half1", "half2"}
    /\ \/ ScatterPrevious("wb_d2h_event", "h_wb_d2h_buf")
       \/ ScatterLast("wb_d2h_event", "h_wb_d2h_buf")

FlushReturn ==
    /\ pc = "half2" /\ Scattered
    /\ Return
    /\ UNCHANGED <<client, call, base, end, buf, held, bufs, mem, gpuSide, host>>

--------------------------------------------------------------------------------
Calls ==
    \E n \in 1 .. MaxElems : \E bad \in {{}} \cup {{i} : i \in 1 .. n} :
        \/ Transfer(n, bad) \/ TransferWhole(n, bad)
        \/ Writeback(n, bad) \/ WritebackWhole(n, bad) \/ Flush(n, bad)

Host == \/ TransferChunk \/ TransferReturn \/ GatherWhole \/ ScatterWhole \/ ScatterWholeReturn
        \/ WritebackChunk \/ WritebackScatter \/ WritebackReturn
        \/ PackWhole \/ WritebackWholeReturn
        \/ FirstHalf \/ NextHalf \/ FlushChunk \/ FlushScatter \/ FlushReturn

Next == Calls \/ Reset \/ Host \/ \E s \in Streams : Run(s)

Spec == Init /\ [][Next]_vars

--------------------------------------------------------------------------------
UsesOf(c) == CASE c.op = "copy" -> {<<c.src, c.off + c.m>>, <<c.dst, c.m>>}
               [] c.op = "put" -> {<<c.dst, c.m>>}
               [] c.op \in {"pack", "scatter"} -> {c.packed, c.grids, c.slots} \X {c.m}
               [] OTHER -> {}
Uses == UNION {UNION {UsesOf(queue[s][i]) : i \in DOMAIN queue[s]} : s \in Streams}

(* When a transfer returns, every entry's cache slot holds the tags of its *)
(* record and the value a reader of the epoch would take, whatever the     *)
(* order in which the streams ran; nothing else in the cache has changed.  *)
TransferDelivers ==
    pc = "idle" /\ call.op = "transfer" =>
        \A g \in Crids :
            LET c == call.n + 1 - g
                r == HostOf(call.k)[c]
                s == ReadSlot(r.ver, Epoch)
                old == GpuOf(call.k)[g]
            IN  gpu[g] = IF g > call.n THEN old
                         ELSE IF c \in call.bad
                         THEN [ver |-> <<0, 0>>, val |-> [old.val EXCEPT ![1] = 0]]
                         ELSE [ver |-> r.ver, val |-> [old.val EXCEPT ![s] = r.val[s]]]

(* When a writeback or a flush returns, every entry's record holds the tag *)
(* and the value of its slot in the cache, its other slot is untouched,    *)
(* and no other record has changed.                                        *)
WritebackDelivers ==
    pc = "idle" /\ call.op \in {"writeback", "flush"} =>
        \A c \in Crids :
            LET s == Slot(c)
                r == GpuOf(call.k)[Grid(c)]
                old == HostOf(call.k)[c]
            IN  host[c] = IF c > call.n \/ c \in call.bad THEN old
                          ELSE [ver |-> [old.ver EXCEPT ![s] = r.ver[s]],
                                val |-> [old.val EXCEPT ![s] = r.val[s]]]

(* Both: no call, in whatever sequence and with whatever queued behind it, *)
(* returns before what it was asked to move has arrived.                   *)
CallsDeliver == TransferDelivers /\ WritebackDelivers

(* No queued copy or kernel reaches past the end of a buffer, whatever     *)
(* sizes the calls before it had (ensure_versions_capacity and the other   *)
(* growth functions).  Left out is h_prev_slots: ensure_versions_capacity  *)
(* grows it with the packed buffers but to n, not to their capacity, and   *)
(* returns early by their capacity, so after calls of 4 and 5 elements one *)
(* of 6 would pass its end.  Only a transfer without chunks uses it, and   *)
(* no stager makes one.                                                    *)
BuffersHold ==
    \A u \in Uses : u[1] # <<"h_prev_slots", 0>> => u[2] <= bufs.size[u[1]]

(* A buffer is freed and allocated anew only when no queued command still  *)
(* uses it.                                                                *)
GrowsUnused == [][\A x \in Buffers : bufs'.size[x] # bufs.size[x] =>
                                         \A u \in Uses : u[1] # x]_vars

(* The chunk loops of transfer_versions, writeback_versions and            *)
(* wb_chunked_d2h_scatter end: they have never queued more chunks than the *)
(* entries they are past, also when one entry is larger than chunk_bytes.  *)
(* A flush of one record passes it twice (num_records = 0 means all).      *)
ChunksMoveOn ==
    LET queued(ev) == recorded[<<ev, 0>>] + recorded[<<ev, 1>>]
    IN  /\ pc = "tx" => queued("compute_done") <= base
        /\ pc = "wb" => queued("d2h_done") <= base
        /\ pc = "half1" => queued("wb_d2h_event") <= base
        /\ pc = "half2" => queued("wb_d2h_event") <= IF call.n = 1 THEN base + 1 ELSE base
================================================================================
