-------------------------- MODULE ScatterGatherProofs --------------------------
(***************************************************************************)
(* For calls of any sizes in any sequence, any chunk sizes and any pace of *)
(* the streams: no command reaches past the end of a buffer other than     *)
(* h_prev_slots, no buffer is allocated anew while a queued command uses   *)
(* it, and every chunk a loop queues takes it past one entry or more.      *)
(*                                                                         *)
(* The idea.  The sizes of the allocations are those the capacity members  *)
(* say, and the capacities cover the call that is running.  A call grows   *)
(* its buffers only when every stream is empty.  For most calls that is    *)
(* what draining the streams ensures.  The flush never drains its stream:  *)
(* there it follows from the order of the stream, in which every copy is   *)
(* followed by the record of an event that the host has waited for.        *)
(***************************************************************************)
EXTENDS ScatterGather, TLAPS

CapNames == {"vers", "prev", "grids", "prevSlots", "currSlots", "chunkVers", "chunk", "wb"}
BufState == [cap : [CapNames -> Nat], size : [Buffers -> Nat],
             tx : [{0, 1} -> BOOLEAN], wb : [{0, 1} -> BOOLEAN]]

(* The buffers whose size a capacity member says.  Without chunk mode two  *)
(* of the chunk buffers have capacities of their own.                      *)
Sized(chunk, f) ==
    CASE f = "vers" -> {<<"h_packed_vers", 0>>, <<"d_packed_vers", 0>>}
      [] f = "grids" -> {<<"d_grids_persistent", 0>>}
      [] f = "chunk" -> GridBuffers
      [] f = "wb" -> WbBuffers
      [] f = "chunkVers" /\ chunk -> VersBuffers
      [] f = "prevSlots" /\ ~chunk -> {<<"d_prev_slots_buf", 0>>}
      [] f = "currSlots" /\ ~chunk -> {<<"d_curr_slots_buf", 0>>}
      [] OTHER -> {}
Follows(chunk, b) == \A f \in CapNames : \A x \in Sized(chunk, f) : b.size[x] = b.cap[f]

(* Commands, and those that may be queued on a stream.                     *)
Data == UNION {[1 .. m -> Int] : m \in Nat}
Commands ==
    [op : {"copy"}, src : Buffers, off : Nat, dst : Buffers, m : Nat]
    \cup [op : {"put"}, data : Data, dst : Buffers, m : Nat]
    \cup [op : {"pack", "scatter"}, packed : Buffers, grids : Buffers, slots : Buffers, m : Nat]
    \cup [op : {"record", "wait"}, ev : Events, tick : Nat]

Fits(c, size) == \A u \in UsesOf(c) : u[1] # <<"h_prev_slots", 0>> => u[2] <= size[u[1]]

OnStream(s, c) ==
    /\ s = "stream" => c.op # "record"
    /\ s = "d2h" => \E b \in {0, 1} :
          \/ c.op = "copy" /\ c.dst = <<"h_wb_d2h_buf", b>>
          \/ c.op = "record" /\ c.ev = <<"wb_d2h_event", b>>

Allowed(s, size) == {c \in Commands : Fits(c, size) /\ OnStream(s, c)}

(* The streams a call is using.                                            *)
Busy == CASE pc \in {"tx", "wb"} -> {"copy", "compute"}
          [] pc \in {"scatter", "scattered", "packed", "flush"} -> {"stream"}
          [] pc \in {"half1", "half2"} -> {"d2h"}
          [] OTHER -> {}

QueuesFit ==
    \A s \in Streams : /\ queue[s] \in Seq(Allowed(s, bufs.size))
                       /\ s \notin Busy => queue[s] = <<>>

TransferTypes ==
    /\ client \in Clients
    /\ pc \in {"idle", "tx", "wb", "gather", "scatter", "scattered", "pack", "packed", "flush",
               "half1", "half2"}
    /\ call.k \in Nat /\ call.n \in 0 .. MaxElems /\ (pc # "idle" => call.n # 0)
    /\ base \in 0 .. end /\ end \in Nat /\ buf \in {0, 1}
    /\ held \in [{0, 1} -> [from : Nat, len : Nat]]
    /\ DOMAIN queue = Streams
    /\ recorded \in [Events -> Nat] /\ done \in [Events -> Nat]
    /\ bufs \in BufState /\ Follows(client.chunk, bufs)

(* The buffers cover the call.                                             *)
HalfStart == IF pc = "half1" THEN 0 ELSE call.n \div 2
Covered ==
    /\ pc = "tx" => client.chunk /\ bufs.cap.chunkVers >= TransferElems(call.n)
                    /\ bufs.cap.chunk >= TransferElems(call.n)
    /\ pc = "wb" => client.chunk /\ bufs.cap.chunkVers >= WritebackElems
                    /\ bufs.cap.chunk >= WritebackElems
    /\ pc \in {"gather", "scatter", "pack", "flush", "half1", "half2"} =>
          ~client.chunk /\ bufs.cap.vers >= call.n
    /\ pc = "pack" => bufs.cap.grids >= call.n /\ bufs.cap.currSlots >= call.n
    /\ pc \in {"half1", "half2"} => HalfStart <= base /\ bufs.cap.wb >= HalfElems(end - HalfStart)
    /\ pc # "idle" => end <= call.n
    /\ pc \in {"tx", "wb"} => end = call.n

(* The flush: a queued copy is followed by its record, a queued record is  *)
(* one the host has yet to see, and both are about a buffer it holds.      *)
Wb(b) == <<"wb_d2h_event", b>>
IsCopyTo(c, b) == c.op = "copy" /\ c.dst = <<"h_wb_d2h_buf", b>>
IsRecordOf(c, b) == c.op = "record" /\ c.ev = Wb(b)
InOrder(q, h, d, r) ==
    \A b \in {0, 1}, i \in DOMAIN q :
        /\ IsCopyTo(q[i], b) => \E j \in DOMAIN q : i < j /\ IsRecordOf(q[j], b)
        /\ IsRecordOf(q[i], b) =>
              /\ h[b].len # 0
              /\ d[Wb(b)] < q[i].tick /\ q[i].tick <= r[Wb(b)]
              /\ \A j \in DOMAIN q : IsRecordOf(q[j], b) => j = i
FlushOrdered == InOrder(queue["d2h"], held, done, recorded)
TicksOrdered ==
    pc \in {"pack", "flush", "half1", "half2"} =>
        \A b \in {0, 1} : done[Wb(b)] <= recorded[Wb(b)]

TransferInv == TransferTypes /\ QueuesFit /\ Covered /\ FlushOrdered /\ TicksOrdered


--------------------------------------------------------------------------------
(* Sequences.                                                              *)
LEMMA EmptySeq ==
    ASSUME NEW S
    PROVE  <<>> \in Seq(S) /\ \A q \in Seq(S) : q = <<>> <=> Len(q) = 0
OBVIOUS

(* The indices of a sequence.                                              *)
LEMMA LenProperties ==
    ASSUME NEW S, NEW q \in Seq(S)
    PROVE  Len(q) \in Nat /\ DOMAIN q = 1 .. Len(q)
OBVIOUS

(* The elements of a sequence.                                             *)
LEMMA ElementOfSeq ==
    ASSUME NEW S, NEW q \in Seq(S), NEW i \in 1 .. Len(q)
    PROVE  q[i] \in S
OBVIOUS

(* Appending a sequence.                                                   *)
LEMMA ConcatProperties ==
    ASSUME NEW S, NEW q \in Seq(S), NEW t \in Seq(S)
    PROVE  q \o t \in Seq(S)
OBVIOUS

(* Taking the first element off.                                           *)
LEMMA HeadTailProperties ==
    ASSUME NEW S, NEW q \in Seq(S), q # <<>>
    PROVE  /\ Head(q) \in S /\ Tail(q) \in Seq(S) /\ Len(Tail(q)) = Len(q) - 1
           /\ \A i \in 1 .. Len(Tail(q)) : Tail(q)[i] = q[i + 1]
OBVIOUS

--------------------------------------------------------------------------------
(* Arithmetic of the sizes.                                                *)

(* The larger and the smaller of two numbers.                              *)
LEMMA MaxMin ==
    ASSUME NEW a \in Int, NEW b \in Int
    PROVE  /\ Max({a, b}) \in {a, b} /\ Max({a, b}) >= a /\ Max({a, b}) >= b
           /\ Min({a, b}) \in {a, b} /\ Min({a, b}) <= a /\ Min({a, b}) <= b
<1>1. \E x \in {a, b} : \A y \in {a, b} : x >= y
  <2>1. CASE a >= b
    BY <2>1
  <2>2. CASE b >= a
    BY <2>2
  <2> QED BY <2>1, <2>2
<1>2. \E x \in {a, b} : \A y \in {a, b} : x =< y
  <2>1. CASE a >= b
    BY <2>1
  <2>2. CASE b >= a
    BY <2>2
  <2> QED BY <2>1, <2>2
<1> QED BY <1>1, <1>2, Zenon DEF Max, Min

(* A buffer that grows grows to a size that is enough.                     *)
LEMMA GrownEnough ==
    ASSUME NEW cap \in Nat, NEW n \in Nat
    PROVE  Grown(cap, n) \in Nat /\ Grown(cap, n) >= n
<1> DEFINE c == cap + (cap \div 2)
<1>2. c \in Nat
  OBVIOUS
<1> HIDE DEF c
<1>3. Max({n, c}) \in {n, c} /\ Max({n, c}) >= n
  BY <1>2, MaxMin
<1>4. Max({n, c}) \in Nat
  BY <1>2, <1>3, Zenon
<1> QED BY <1>3, <1>4, Zenon DEF Grown, c

(* A chunk has at least one entry.                                         *)
LEMMA ChunkSizes ==
    ASSUME NEW n \in Nat
    PROVE  /\ TransferElems(n) \in Nat \ {0}
           /\ WritebackElems \in Nat \ {0}
           /\ HalfElems(n) \in Nat \ {0}
<1>1. ASSUME NEW k \in Int PROVE Max({1, k}) \in Nat \ {0}
  <2>1. Max({1, k}) \in {1, k} /\ Max({1, k}) >= 1
    BY MaxMin
  <2> QED BY <2>1
<1>m. ASSUME NEW a \in Int, NEW b \in Int PROVE Max({a, b}) \in Int /\ Min({a, b}) \in Int
  <2>1. Max({a, b}) \in {a, b} /\ Min({a, b}) \in {a, b}
    BY MaxMin, Zenon
  <2> QED BY <2>1, Zenon
<1>c. /\ {MaxElems, VersBytes, WbBytes, TuneBytes, TuneChunks} \subseteq Nat \ {0}
      /\ {ChunkBytes, FloorBytes, CapBytes} \subseteq Nat
  BY ScatterGatherAssumption, Zenon DEF ScatterGatherAssumption
<1>2. TransferElems(n) \in Nat \ {0}
  <2> DEFINE needed == n * VersBytes
             floored == Max({FloorBytes, needed})
             adaptive == Min({CapBytes, floored})
             asked == Max({ChunkBytes, adaptive})
             bytes == Min({CapBytes, asked})
  <2>c. CapBytes \in Int /\ FloorBytes \in Int /\ ChunkBytes \in Int /\ VersBytes \in Nat \ {0}
    BY <1>c
  <2>1. needed \in Int
    BY <2>c
  <2> HIDE DEF needed
  <2>2. floored \in Int
    BY <2>1, <2>c, <1>m, Zenon
  <2> HIDE DEF floored
  <2>3. adaptive \in Int
    BY <2>2, <2>c, <1>m, Zenon
  <2> HIDE DEF adaptive
  <2>4. asked \in Int
    BY <2>3, <2>c, <1>m, Zenon
  <2> HIDE DEF asked
  <2>5. bytes \in Int
    BY <2>4, <2>c, <1>m, Zenon
  <2> HIDE DEF bytes
  <2>6. bytes \div VersBytes \in Int
    BY <2>5, <2>c
  <2>7. Max({1, bytes \div VersBytes}) \in Nat \ {0}
    BY <2>6, <1>1, Zenon
  <2> QED BY <2>7, Zenon DEF TransferElems, bytes, asked, adaptive, floored, needed
<1>3. WritebackElems \in Nat \ {0}
  <2>1. ChunkBytes \div WbBytes \in Int
    BY <1>c
  <2> QED BY <2>1, <1>1, Zenon DEF WritebackElems
<1>4. HalfElems(n) \in Nat \ {0}
  <2> DEFINE wanted == (n * WbBytes + TuneBytes - 1) \div TuneBytes
             most == Min({TuneChunks, wanted})
             chunks == Max({1, most})
  <2>1. n * WbBytes \in Int
    BY <1>c
  <2>2. wanted \in Int
    BY <2>1, <1>c
  <2> HIDE DEF wanted
  <2>3. most \in Int
    <3>1. TuneChunks \in Int
      BY <1>c
    <3> QED BY <2>2, <3>1, <1>m, Zenon
  <2> HIDE DEF most
  <2>4. chunks \in Nat \ {0}
    BY <2>3, <1>1, Zenon
  <2> HIDE DEF chunks
  <2>5. (n + chunks - 1) \div chunks \in Int
    BY <2>4
  <2>6. Max({1, (n + chunks - 1) \div chunks}) \in Nat \ {0}
    BY <2>5, <1>1, Zenon
  <2> QED BY <2>6, Zenon DEF HalfElems, chunks, most, wanted
<1> QED BY <1>2, <1>3, <1>4, Zenon

--------------------------------------------------------------------------------
(* The growth functions.                                                   *)

(* The buffers, one by one.                                                *)
LEMMA BufferNames ==
    /\ \A x \in {"h_packed_vers_buf", "d_packed_vers_buf", "h_prev_slots_buf",
                 "d_prev_slots_buf", "h_curr_slots_buf", "d_curr_slots_buf"}, b \in {0, 1} :
          <<x, b>> \in Buffers /\ <<x, b>> \in VersBuffers
          /\ <<x, b>> \notin GridBuffers /\ <<x, b>> \notin WbBuffers
    /\ \A x \in {"h_grids_buf", "d_grids_buf"}, b \in {0, 1} :
          <<x, b>> \in Buffers /\ <<x, b>> \in GridBuffers
    /\ \A b \in {0, 1} : <<"h_wb_d2h_buf", b>> \in Buffers /\ <<"h_wb_d2h_buf", b>> \in WbBuffers
    /\ \A x \in {"h_packed_vers", "d_packed_vers", "h_prev_slots", "d_grids_persistent"} :
          <<x, 0>> \in Buffers /\ <<x, 0>> \notin VersBuffers \cup GridBuffers \cup WbBuffers
    /\ \A x \in VersBuffers : x \in Buffers /\ x \notin GridBuffers \cup WbBuffers
    /\ \A x \in GridBuffers : x \in Buffers /\ x \notin VersBuffers \cup WbBuffers
    /\ \A x \in WbBuffers : x \in Buffers /\ x \notin VersBuffers \cup GridBuffers
BY Zenon DEF Buffers, VersBuffers, GridBuffers, WbBuffers, WholeBuffers

(* The sizes after an allocation.                                          *)
LEMMA ResizedSizes ==
    ASSUME NEW b \in BufState, NEW S, NEW n \in Nat
    PROVE  /\ Resized(b, S, n) \in [Buffers -> Nat]
           /\ \A x \in Buffers : Resized(b, S, n)[x] = IF x \in S THEN n ELSE b.size[x]
BY Zenon DEF Resized, BufState

(* What a growth function may do: the sizes still follow the capacities,   *)
(* and no capacity has become smaller.                                     *)
Grew(chunk, b, e) ==
    e \in BufState /\ Follows(chunk, e) /\ \A f \in CapNames : e.cap[f] >= b.cap[f]

(* What each capacity measures.                                            *)
LEMMA SizedBy ==
    ASSUME NEW chunk \in BOOLEAN
    PROVE  /\ Sized(chunk, "vers") = {<<"h_packed_vers", 0>>, <<"d_packed_vers", 0>>}
           /\ Sized(chunk, "prev") = {}
           /\ Sized(chunk, "grids") = {<<"d_grids_persistent", 0>>}
           /\ Sized(chunk, "chunk") = GridBuffers
           /\ Sized(chunk, "wb") = WbBuffers
           /\ Sized(chunk, "chunkVers") = IF chunk THEN VersBuffers ELSE {}
           /\ Sized(chunk, "prevSlots") = IF chunk THEN {} ELSE {<<"d_prev_slots_buf", 0>>}
           /\ Sized(chunk, "currSlots") = IF chunk THEN {} ELSE {<<"d_curr_slots_buf", 0>>}
BY Zenon DEF Sized

(* It is all buffers of their own.                                         *)
LEMMA SizedInBuffers ==
    ASSUME NEW chunk \in BOOLEAN, NEW f \in CapNames
    PROVE  Sized(chunk, f) \subseteq Buffers
BY SizedBy, BufferNames DEF CapNames

(* Growth of one capacity and of buffers that no other capacity measures.  *)
Own(chunk, f, S) ==
    Sized(chunk, f) \subseteq S /\ \A g \in CapNames \ {f} : S \cap Sized(chunk, g) = {}
Regrown(b, e, f, v, S) ==
    e \in BufState /\ e.cap = [b.cap EXCEPT ![f] = v] /\ e.size = Resized(b, S, v)

(* Growing the buffers of one capacity member leaves sizes and capacities in step. *)
LEMMA OneGrows ==
    ASSUME NEW chunk \in BOOLEAN, NEW b \in BufState, Follows(chunk, b), NEW f \in CapNames,
           NEW v \in Nat, v >= b.cap[f], NEW S, Own(chunk, f, S), NEW e, Regrown(b, e, f, v, S)
    PROVE  Grew(chunk, b, e) /\ e.cap[f] = v
<1> USE DEF Own, Regrown
<1>1. b.cap \in [CapNames -> Nat]
  BY Zenon DEF BufState
<1>2. /\ e.cap \in [CapNames -> Nat] /\ e.cap[f] = v
      /\ \A g \in CapNames : g # f => e.cap[g] = b.cap[g]
      /\ \A g \in CapNames : e.cap[g] >= b.cap[g]
  BY <1>1
<1>3. /\ e.size \in [Buffers -> Nat]
      /\ \A x \in Buffers : e.size[x] = IF x \in S THEN v ELSE b.size[x]
  BY ResizedSizes
<1>5. ASSUME NEW g \in CapNames, NEW x \in Sized(chunk, g)
      PROVE  e.size[x] = e.cap[g]
  <2>1. x \in Buffers
    BY SizedInBuffers, Zenon
  <2>2. CASE g = f
    BY <2>1, <2>2, <1>2, <1>3, Zenon
  <2>3. CASE g # f
    <3>1. x \notin S
      BY <2>3, Zenon
    <3>2. b.size[x] = b.cap[g]
      BY Zenon DEF Follows
    <3> QED BY <3>1, <3>2, <2>1, <2>3, <1>2, <1>3, Zenon
  <2> QED BY <2>2, <2>3, Zenon
<1> QED BY <1>2, <1>5, Zenon DEF Grew, Follows


(* No buffer is measured twice.                                            *)
LEMMA SizedApart ==
    ASSUME NEW chunk \in BOOLEAN, NEW f \in CapNames, NEW g \in CapNames \ {f}
    PROVE  /\ Sized(chunk, f) \cap Sized(chunk, g) = {}
           /\ {<<"h_prev_slots", 0>>} \cap Sized(chunk, g) = {}
<1> DEFINE Of(h) == CASE h = "vers" -> {"h_packed_vers", "d_packed_vers"}
                      [] h = "grids" -> {"d_grids_persistent"}
                      [] h = "chunk" -> {"h_grids_buf", "d_grids_buf"}
                      [] h = "wb" -> {"h_wb_d2h_buf"}
                      [] h = "chunkVers" /\ chunk ->
                           {"h_packed_vers_buf", "d_packed_vers_buf", "h_prev_slots_buf",
                            "d_prev_slots_buf", "h_curr_slots_buf", "d_curr_slots_buf"}
                      [] h = "prevSlots" /\ ~chunk -> {"d_prev_slots_buf"}
                      [] h = "currSlots" /\ ~chunk -> {"d_curr_slots_buf"}
                      [] OTHER -> {}
<1>1. \A h \in CapNames : \A x \in Sized(chunk, h) : x[1] \in Of(h)
  BY DEF CapNames, Sized, GridBuffers, WbBuffers, VersBuffers
<1>2. \A h \in CapNames : "h_prev_slots" \notin Of(h)
  BY Zenon DEF CapNames
<1>3. Of(f) \cap Of(g) = {}
  BY DEF CapNames
<1> HIDE DEF Of
<1> QED BY <1>1, <1>2, <1>3


(* ensure_versions_capacity: the packed buffers, and h_prev_slots after    *)
(* them.                                                                   *)
LEMMA EnsureVersionsGrows ==
    ASSUME NEW b \in BufState, NEW n \in Nat, NEW chunk \in BOOLEAN, Follows(chunk, b)
    PROVE  Grew(chunk, b, EnsureVersions(b, n)) /\ EnsureVersions(b, n).cap["vers"] >= n
<1> DEFINE new == Grown(b.cap.vers, n)
           S == {<<"h_packed_vers", 0>>, <<"d_packed_vers", 0>>}
           sizes == Resized(b, S, new)
           packed == [b EXCEPT !.cap.vers = new, !.size = sizes]
           P == {<<"h_prev_slots", 0>>}
           prev == Resized(packed, P, n)
           both == [packed EXCEPT !.cap.prev = n, !.size = prev]
<1>n. "vers" \in CapNames /\ "prev" \in CapNames
  BY Zenon DEF CapNames
<1>0. b.cap["vers"] \in Nat /\ b.cap["prev"] \in Nat /\ \A f \in CapNames : b.cap[f] \in Nat
  BY <1>n, Zenon DEF BufState
<1>1. CASE n <= b.cap.vers
  <2>1. EnsureVersions(b, n) = b
    BY <1>1, Zenon DEF EnsureVersions
  <2>2. b.cap["vers"] >= n /\ \A f \in CapNames : b.cap[f] >= b.cap[f]
    BY <1>0, <1>1
  <2> QED BY <2>1, <2>2, Zenon DEF Grew
<1>2. CASE ~(n <= b.cap.vers)
  <2>1. new \in Nat /\ new >= n
    BY <1>0, GrownEnough, Zenon
  <2>2. new >= b.cap["vers"]
    BY <2>1, <1>2, <1>0
  <2>3. EnsureVersions(b, n) = IF n <= b.cap.prev THEN packed ELSE both
    BY <1>2, Zenon DEF EnsureVersions
  <2> HIDE DEF new
  <2>4. sizes \in [Buffers -> Nat]
    BY <2>1, ResizedSizes
  <2> HIDE DEF sizes
  <2>5. packed \in BufState /\ packed.cap = [b.cap EXCEPT !["vers"] = new] /\ packed.size = sizes
    BY <2>1, <2>4, <1>n, Zenon DEF BufState
  <2> HIDE DEF packed
  <2>6. Regrown(b, packed, "vers", new, S) /\ Own(chunk, "vers", S)
    BY <2>5, SizedBy, SizedApart, <1>n, Zenon DEF Regrown, Own, sizes
  <2>7. Grew(chunk, b, packed) /\ packed.cap["vers"] = new
    BY <2>1, <2>2, <2>6, <1>n, OneGrows, SMTT(30)
  <2>8. packed \in BufState /\ Follows(chunk, packed) /\ packed.cap["prev"] = b.cap["prev"]
    <3>1. packed \in BufState /\ Follows(chunk, packed)
      BY <2>7, Zenon DEF Grew
    <3> QED BY <3>1, <2>5, <1>n, Zenon DEF BufState
  <2>9. CASE n <= b.cap.prev
    BY <2>9, <2>1, <2>3, <2>7, Zenon
  <2>10. CASE ~(n <= b.cap.prev)
    <3>1. n >= packed.cap["prev"]
      BY <2>8, <2>10, <1>0
    <3>2. prev \in [Buffers -> Nat]
      BY <2>8, ResizedSizes, Zenon
    <3> HIDE DEF prev
    <3>3. both \in BufState /\ both.cap = [packed.cap EXCEPT !["prev"] = n] /\ both.size = prev
      BY <2>8, <3>2, <1>n, ZenonT(20) DEF BufState
    <3> HIDE DEF both
    <3>p. Regrown(packed, both, "prev", n, P) /\ Own(chunk, "prev", P)
      BY <3>3, SizedBy, SizedApart, <1>n, Zenon DEF Regrown, Own, prev
    <3>4. Grew(chunk, packed, both) /\ both.cap["prev"] = n
      BY <2>8, <3>1, <3>p, <1>n, OneGrows, SMTT(30)
    <3>5. /\ both \in BufState /\ Follows(chunk, both) /\ both.cap["vers"] >= packed.cap["vers"]
          /\ \A f \in CapNames : both.cap[f] >= packed.cap[f] /\ packed.cap[f] >= b.cap[f]
      BY <3>4, <2>7, <1>n, Zenon DEF Grew
    <3>6. \A f \in CapNames : both.cap[f] \in Nat /\ packed.cap[f] \in Nat
      BY <3>5, <2>8, Zenon DEF BufState
    <3>7. \A f \in CapNames : both.cap[f] >= b.cap[f]
      BY <3>5, <3>6, <1>0
    <3>8. both.cap["vers"] >= n
      BY <3>5, <3>6, <2>7, <2>1, <1>n
    <3> QED BY <2>3, <2>10, <3>5, <3>7, <3>8, Zenon DEF Grew
  <2> QED BY <2>9, <2>10, Zenon
<1> QED BY <1>1, <1>2, Zenon

(* ensure_grids_capacity.                                                  *)
LEMMA EnsureGridsGrows ==
    ASSUME NEW b \in BufState, NEW n \in Nat, NEW chunk \in BOOLEAN, Follows(chunk, b)
    PROVE  Grew(chunk, b, EnsureGrids(b, n)) /\ EnsureGrids(b, n).cap["grids"] >= n
<1> DEFINE new == Grown(b.cap.grids, n)
           S == {<<"d_grids_persistent", 0>>}
           sizes == Resized(b, S, new)
           e == [b EXCEPT !.cap.grids = new, !.size = sizes]
<1>n. "grids" \in CapNames
  BY Zenon DEF CapNames
<1>0. b.cap["grids"] \in Nat /\ \A f \in CapNames : b.cap[f] \in Nat
  BY <1>n, Zenon DEF BufState
<1>1. CASE n <= b.cap.grids
  <2>1. EnsureGrids(b, n) = b
    BY <1>1, Zenon DEF EnsureGrids
  <2>2. b.cap["grids"] >= n /\ \A f \in CapNames : b.cap[f] >= b.cap[f]
    BY <1>0, <1>1
  <2> QED BY <2>1, <2>2, Zenon DEF Grew
<1>2. CASE ~(n <= b.cap.grids)
  <2>1. new \in Nat /\ new >= n
    BY <1>0, GrownEnough, Zenon
  <2>2. new >= b.cap["grids"]
    BY <2>1, <1>2, <1>0
  <2>3. EnsureGrids(b, n) = e
    BY <1>2, Zenon DEF EnsureGrids
  <2> HIDE DEF new
  <2>4. sizes \in [Buffers -> Nat]
    BY <2>1, ResizedSizes, Zenon
  <2> HIDE DEF sizes
  <2>5. e \in BufState /\ e.cap = [b.cap EXCEPT !["grids"] = new] /\ e.size = sizes
    BY <2>1, <2>4, <1>n, Zenon DEF BufState
  <2> HIDE DEF e
  <2>o. Regrown(b, e, "grids", new, S) /\ Own(chunk, "grids", S)
    BY <2>5, SizedBy, SizedApart, <1>n, Zenon DEF Regrown, Own, sizes
  <2>6. Grew(chunk, b, e) /\ e.cap["grids"] = new
    BY <2>1, <2>2, <2>o, <1>n, OneGrows, SMTT(30)
  <2> QED BY <2>1, <2>3, <2>6, Zenon
<1> QED BY <1>1, <1>2, Zenon

(* The slots of a transfer without chunks.                                 *)
LEMMA EnsurePrevSlotsGrows ==
    ASSUME NEW b \in BufState, NEW n \in Nat, NEW chunk \in BOOLEAN, Follows(chunk, b), ~chunk
    PROVE  Grew(chunk, b, EnsurePrevSlots(b, n)) /\ EnsurePrevSlots(b, n).cap["prevSlots"] >= n
<1> DEFINE new == n
           S == {<<"d_prev_slots_buf", 0>>}
           sizes == Resized(b, S, new)
           e == [b EXCEPT !.cap.prevSlots = new, !.size = sizes]
<1>n. "prevSlots" \in CapNames
  BY Zenon DEF CapNames
<1>0. b.cap["prevSlots"] \in Nat /\ \A f \in CapNames : b.cap[f] \in Nat
  BY <1>n, Zenon DEF BufState
<1>1. CASE n <= b.cap.prevSlots
  <2>1. EnsurePrevSlots(b, n) = b
    BY <1>1, Zenon DEF EnsurePrevSlots
  <2>2. b.cap["prevSlots"] >= n /\ \A f \in CapNames : b.cap[f] >= b.cap[f]
    BY <1>0, <1>1
  <2> QED BY <2>1, <2>2, Zenon DEF Grew
<1>2. CASE ~(n <= b.cap.prevSlots)
  <2>1. new \in Nat /\ new >= n
    BY <1>0
  <2>2. new >= b.cap["prevSlots"]
    BY <2>1, <1>2, <1>0
  <2>3. EnsurePrevSlots(b, n) = e
    BY <1>2, Zenon DEF EnsurePrevSlots
  <2> HIDE DEF new
  <2>4. sizes \in [Buffers -> Nat]
    BY <2>1, ResizedSizes, Zenon
  <2> HIDE DEF sizes
  <2>5. e \in BufState /\ e.cap = [b.cap EXCEPT !["prevSlots"] = new] /\ e.size = sizes
    BY <2>1, <2>4, <1>n, Zenon DEF BufState
  <2> HIDE DEF e
  <2>o. Regrown(b, e, "prevSlots", new, S) /\ Own(chunk, "prevSlots", S)
    BY <2>5, SizedBy, SizedApart, <1>n, Zenon DEF Regrown, Own, sizes
  <2>6. Grew(chunk, b, e) /\ e.cap["prevSlots"] = new
    BY <2>1, <2>2, <2>o, <1>n, OneGrows, SMTT(30)
  <2> QED BY <2>1, <2>3, <2>6, Zenon
<1> QED BY <1>1, <1>2, Zenon

(* The slots of a writeback without chunks.                                *)
LEMMA EnsureCurrSlotsGrows ==
    ASSUME NEW b \in BufState, NEW n \in Nat, NEW chunk \in BOOLEAN, Follows(chunk, b), ~chunk
    PROVE  Grew(chunk, b, EnsureCurrSlots(b, n)) /\ EnsureCurrSlots(b, n).cap["currSlots"] >= n
<1> DEFINE new == n
           S == {<<"d_curr_slots_buf", 0>>}
           sizes == Resized(b, S, new)
           e == [b EXCEPT !.cap.currSlots = new, !.size = sizes]
<1>n. "currSlots" \in CapNames
  BY Zenon DEF CapNames
<1>0. b.cap["currSlots"] \in Nat /\ \A f \in CapNames : b.cap[f] \in Nat
  BY <1>n, Zenon DEF BufState
<1>1. CASE n <= b.cap.currSlots
  <2>1. EnsureCurrSlots(b, n) = b
    BY <1>1, Zenon DEF EnsureCurrSlots
  <2>2. b.cap["currSlots"] >= n /\ \A f \in CapNames : b.cap[f] >= b.cap[f]
    BY <1>0, <1>1
  <2> QED BY <2>1, <2>2, Zenon DEF Grew
<1>2. CASE ~(n <= b.cap.currSlots)
  <2>1. new \in Nat /\ new >= n
    BY <1>0
  <2>2. new >= b.cap["currSlots"]
    BY <2>1, <1>2, <1>0
  <2>3. EnsureCurrSlots(b, n) = e
    BY <1>2, Zenon DEF EnsureCurrSlots
  <2> HIDE DEF new
  <2>4. sizes \in [Buffers -> Nat]
    BY <2>1, ResizedSizes, Zenon
  <2> HIDE DEF sizes
  <2>5. e \in BufState /\ e.cap = [b.cap EXCEPT !["currSlots"] = new] /\ e.size = sizes
    BY <2>1, <2>4, <1>n, Zenon DEF BufState
  <2> HIDE DEF e
  <2>o. Regrown(b, e, "currSlots", new, S) /\ Own(chunk, "currSlots", S)
    BY <2>5, SizedBy, SizedApart, <1>n, Zenon DEF Regrown, Own, sizes
  <2>6. Grew(chunk, b, e) /\ e.cap["currSlots"] = new
    BY <2>1, <2>2, <2>o, <1>n, OneGrows, SMTT(30)
  <2> QED BY <2>1, <2>3, <2>6, Zenon
<1> QED BY <1>1, <1>2, Zenon

(* The packed entries and slots of the chunks.                             *)
LEMMA EnsureChunkVersionsGrows ==
    ASSUME NEW b \in BufState, NEW n \in Nat, NEW chunk \in BOOLEAN, Follows(chunk, b), chunk # FALSE
    PROVE  Grew(chunk, b, EnsureChunkVersions(b, n)) /\ EnsureChunkVersions(b, n).cap["chunkVers"] >= n
<1> DEFINE new == n
           S == VersBuffers
           sizes == Resized(b, S, new)
           e == [b EXCEPT !.cap.chunkVers = new, !.size = sizes]
<1>n. "chunkVers" \in CapNames
  BY Zenon DEF CapNames
<1>0. b.cap["chunkVers"] \in Nat /\ \A f \in CapNames : b.cap[f] \in Nat
  BY <1>n, Zenon DEF BufState
<1>1. CASE n <= b.cap.chunkVers
  <2>1. EnsureChunkVersions(b, n) = b
    BY <1>1, Zenon DEF EnsureChunkVersions
  <2>2. b.cap["chunkVers"] >= n /\ \A f \in CapNames : b.cap[f] >= b.cap[f]
    BY <1>0, <1>1
  <2> QED BY <2>1, <2>2, Zenon DEF Grew
<1>2. CASE ~(n <= b.cap.chunkVers)
  <2>1. new \in Nat /\ new >= n
    BY <1>0
  <2>2. new >= b.cap["chunkVers"]
    BY <2>1, <1>2, <1>0
  <2>3. EnsureChunkVersions(b, n) = e
    BY <1>2, Zenon DEF EnsureChunkVersions
  <2> HIDE DEF new
  <2>4. sizes \in [Buffers -> Nat]
    BY <2>1, ResizedSizes, Zenon
  <2> HIDE DEF sizes
  <2>5. e \in BufState /\ e.cap = [b.cap EXCEPT !["chunkVers"] = new] /\ e.size = sizes
    BY <2>1, <2>4, <1>n, Zenon DEF BufState
  <2> HIDE DEF e
  <2>o. Regrown(b, e, "chunkVers", new, S) /\ Own(chunk, "chunkVers", S)
    BY <2>5, SizedBy, SizedApart, <1>n, Zenon DEF Regrown, Own, sizes
  <2>6. Grew(chunk, b, e) /\ e.cap["chunkVers"] = new
    BY <2>1, <2>2, <2>o, <1>n, OneGrows, SMTT(30)
  <2> QED BY <2>1, <2>3, <2>6, Zenon
<1> QED BY <1>1, <1>2, Zenon

(* The grids of the chunks.                                                *)
LEMMA EnsureChunkGridsGrows ==
    ASSUME NEW b \in BufState, NEW n \in Nat, NEW chunk \in BOOLEAN, Follows(chunk, b)
    PROVE  Grew(chunk, b, EnsureChunkGrids(b, n)) /\ EnsureChunkGrids(b, n).cap["chunk"] >= n
<1> DEFINE new == n
           S == GridBuffers
           sizes == Resized(b, S, new)
           e == [b EXCEPT !.cap.chunk = new, !.size = sizes,
                            !.tx = [x \in {0, 1} |-> FALSE], !.wb = [x \in {0, 1} |-> FALSE]]
<1>n. "chunk" \in CapNames
  BY Zenon DEF CapNames
<1>0. b.cap["chunk"] \in Nat /\ \A f \in CapNames : b.cap[f] \in Nat
  BY <1>n, Zenon DEF BufState
<1>1. CASE n <= b.cap.chunk
  <2>1. EnsureChunkGrids(b, n) = b
    BY <1>1, Zenon DEF EnsureChunkGrids
  <2>2. b.cap["chunk"] >= n /\ \A f \in CapNames : b.cap[f] >= b.cap[f]
    BY <1>0, <1>1
  <2> QED BY <2>1, <2>2, Zenon DEF Grew
<1>2. CASE ~(n <= b.cap.chunk)
  <2>1. new \in Nat /\ new >= n
    BY <1>0
  <2>2. new >= b.cap["chunk"]
    BY <2>1, <1>2, <1>0
  <2>3. EnsureChunkGrids(b, n) = e
    BY <1>2, Zenon DEF EnsureChunkGrids
  <2> HIDE DEF new
  <2>4. sizes \in [Buffers -> Nat]
    BY <2>1, ResizedSizes, Zenon
  <2> HIDE DEF sizes
  <2>5. e \in BufState /\ e.cap = [b.cap EXCEPT !["chunk"] = new] /\ e.size = sizes
    BY <2>1, <2>4, <1>n, Zenon DEF BufState
  <2> HIDE DEF e
  <2>o. Regrown(b, e, "chunk", new, S) /\ Own(chunk, "chunk", S)
    BY <2>5, SizedBy, SizedApart, <1>n, Zenon DEF Regrown, Own, sizes
  <2>6. Grew(chunk, b, e) /\ e.cap["chunk"] = new
    BY <2>1, <2>2, <2>o, <1>n, OneGrows, SMTT(30)
  <2> QED BY <2>1, <2>3, <2>6, Zenon
<1> QED BY <1>1, <1>2, Zenon

(* The host buffers of the flush.                                          *)
LEMMA EnsureWbGrows ==
    ASSUME NEW b \in BufState, NEW n \in Nat, NEW chunk \in BOOLEAN, Follows(chunk, b)
    PROVE  Grew(chunk, b, EnsureWb(b, n)) /\ EnsureWb(b, n).cap["wb"] >= n
<1> DEFINE new == Grown(b.cap.wb, n)
           S == WbBuffers
           sizes == Resized(b, S, new)
           e == [b EXCEPT !.cap.wb = new, !.size = sizes]
<1>n. "wb" \in CapNames
  BY Zenon DEF CapNames
<1>0. b.cap["wb"] \in Nat /\ \A f \in CapNames : b.cap[f] \in Nat
  BY <1>n, Zenon DEF BufState
<1>1. CASE n <= b.cap.wb
  <2>1. EnsureWb(b, n) = b
    BY <1>1, Zenon DEF EnsureWb
  <2>2. b.cap["wb"] >= n /\ \A f \in CapNames : b.cap[f] >= b.cap[f]
    BY <1>0, <1>1
  <2> QED BY <2>1, <2>2, Zenon DEF Grew
<1>2. CASE ~(n <= b.cap.wb)
  <2>1. new \in Nat /\ new >= n
    BY <1>0, GrownEnough, Zenon
  <2>2. new >= b.cap["wb"]
    BY <2>1, <1>2, <1>0
  <2>3. EnsureWb(b, n) = e
    BY <1>2, Zenon DEF EnsureWb
  <2> HIDE DEF new
  <2>4. sizes \in [Buffers -> Nat]
    BY <2>1, ResizedSizes, Zenon
  <2> HIDE DEF sizes
  <2>5. e \in BufState /\ e.cap = [b.cap EXCEPT !["wb"] = new] /\ e.size = sizes
    BY <2>1, <2>4, <1>n, Zenon DEF BufState
  <2> HIDE DEF e
  <2>o. Regrown(b, e, "wb", new, S) /\ Own(chunk, "wb", S)
    BY <2>5, SizedBy, SizedApart, <1>n, Zenon DEF Regrown, Own, sizes
  <2>6. Grew(chunk, b, e) /\ e.cap["wb"] = new
    BY <2>1, <2>2, <2>o, <1>n, OneGrows, SMTT(30)
  <2> QED BY <2>1, <2>3, <2>6, Zenon
<1> QED BY <1>1, <1>2, Zenon

--------------------------------------------------------------------------------
(* Commands and queues.                                                    *)

(* The commands are commands, and use what they say.                       *)
LEMMA CommandsAre ==
    /\ \A x, y \in Buffers, o, m \in Nat :
          /\ Copy(x, o, y, m) \in Commands
          /\ Copy(x, o, y, m).op = "copy" /\ Copy(x, o, y, m).dst = y
          /\ UsesOf(Copy(x, o, y, m)) = {<<x, o + m>>, <<y, m>>}
    /\ \A d \in Data, y \in Buffers, m \in Nat :
          /\ Put(d, y, m) \in Commands /\ Put(d, y, m).op = "put"
          /\ UsesOf(Put(d, y, m)) = {<<y, m>>}
    /\ \A op \in {"pack", "scatter"}, x, y, z \in Buffers, m \in Nat :
          /\ Kernel(op, x, y, z, m) \in Commands /\ Kernel(op, x, y, z, m).op = op
          /\ UsesOf(Kernel(op, x, y, z, m)) = {x, y, z} \X {m}
<1>1. ASSUME NEW x \in Buffers, NEW y \in Buffers, NEW o \in Nat, NEW m \in Nat
      PROVE  /\ Copy(x, o, y, m) \in Commands
             /\ Copy(x, o, y, m).op = "copy" /\ Copy(x, o, y, m).dst = y
             /\ UsesOf(Copy(x, o, y, m)) = {<<x, o + m>>, <<y, m>>}
  BY Zenon DEF Copy, Commands, UsesOf
<1>2. ASSUME NEW d \in Data, NEW y \in Buffers, NEW m \in Nat
      PROVE  /\ Put(d, y, m) \in Commands /\ Put(d, y, m).op = "put"
             /\ UsesOf(Put(d, y, m)) = {<<y, m>>}
  BY Zenon DEF Put, Commands, UsesOf
<1>3. ASSUME NEW op \in {"pack", "scatter"}, NEW x \in Buffers, NEW y \in Buffers,
             NEW z \in Buffers, NEW m \in Nat
      PROVE  /\ Kernel(op, x, y, z, m) \in Commands /\ Kernel(op, x, y, z, m).op = op
             /\ UsesOf(Kernel(op, x, y, z, m)) = {x, y, z} \X {m}
  BY Zenon DEF Kernel, Commands, UsesOf
<1> QED BY <1>1, <1>2, <1>3, Zenon

(* The same of the commands about events.                                  *)
LEMMA EventCommandsAre ==
    ASSUME NEW c, NEW e \in Events, NEW op \in {"record", "wait"}, NEW t \in Nat,
           c = [op |-> op, ev |-> e, tick |-> t]
    PROVE  c \in Commands /\ c.op = op /\ c.ev = e /\ c.tick = t /\ UsesOf(c) = {}
BY Zenon DEF Commands, UsesOf

(* Whether a command fits.                                                 *)
LEMMA CopyFits ==
    ASSUME NEW size, NEW x \in Buffers, NEW y \in Buffers, NEW o \in Nat, NEW m \in Nat,
           x = <<"h_prev_slots", 0>> \/ o + m <= size[x], m <= size[y]
    PROVE  Fits(Copy(x, o, y, m), size)
<1>1. UsesOf(Copy(x, o, y, m)) = {<<x, o + m>>, <<y, m>>}
  BY Zenon DEF UsesOf, Copy
<1> QED BY <1>1 DEF Fits

(* A copy into a buffer fits when the buffer is long enough.               *)
LEMMA PutFits ==
    ASSUME NEW size, NEW d \in Data, NEW y \in Buffers, NEW m \in Nat, m <= size[y]
    PROVE  Fits(Put(d, y, m), size)
BY CommandsAre DEF Fits

(* A kernel fits when its three buffers are long enough.                   *)
LEMMA KernelFits ==
    ASSUME NEW size, NEW op \in {"pack", "scatter"}, NEW x \in Buffers, NEW y \in Buffers,
           NEW z \in Buffers, NEW m \in Nat, m <= size[x], m <= size[y], m <= size[z]
    PROVE  Fits(Kernel(op, x, y, z, m), size)
<1>1. UsesOf(Kernel(op, x, y, z, m)) = {x, y, z} \X {m}
  BY Zenon DEF UsesOf, Kernel
<1> QED BY <1>1, Zenon DEF Fits

(* What is queued stays within bounds when commands that may be queued are *)
(* added at the end of a stream.                                           *)
LEMMA Queued ==
    ASSUME NEW s, NEW size, NEW q \in Seq(Allowed(s, size)), NEW t \in Seq(Allowed(s, size))
    PROVE  q \o t \in Seq(Allowed(s, size))
BY ConcatProperties, Zenon

(* A stream that no call uses is empty; between calls all of them are.     *)
LEMMA BusyIs ==
    /\ pc \in {"tx", "wb"} => Busy = {"copy", "compute"}
    /\ pc \in {"scatter", "scattered", "packed", "flush"} => Busy = {"stream"}
    /\ pc \in {"half1", "half2"} => Busy = {"d2h"}
    /\ pc \in {"idle", "gather", "pack"} => Busy = {}
BY Zenon DEF Busy

(* No command, no use.                                                     *)
LEMMA EmptyUses ==
    ASSUME \A s \in Streams : queue[s] = <<>>
    PROVE  Uses = {}
<1>1. ASSUME NEW s \in Streams PROVE DOMAIN queue[s] = {}
  <2>1. queue[s] = <<>>
    BY Zenon
  <2> QED BY <2>1
<1> QED BY <1>1, ZenonT(40) DEF Uses

(* A use is that of a queued command.                                      *)
LEMMA UseOf ==
    ASSUME NEW u \in Uses
    PROVE  \E s \in Streams : \E i \in DOMAIN queue[s] : u \in UsesOf(queue[s][i])
BY DEF Uses

(* The host's own steps that leave the queues and the buffers alone.       *)
LEMMA ReturnKeeps ==
    ASSUME TransferInv, pc # "idle", pc' = "idle", \A s \in Streams : queue[s] = <<>>,
           UNCHANGED <<client, call, base, end, buf, held, bufs, queue, recorded, done>>
    PROVE  TransferInv'
<1>1. TransferTypes'
  BY Zenon DEF TransferInv, TransferTypes
<1>2. QueuesFit'
  <2>1. \A s \in Streams : queue'[s] = <<>> /\ <<>> \in Seq(Allowed(s, bufs.size)')
    BY EmptySeq, Zenon
  <2> QED BY <2>1, Zenon DEF QueuesFit
<1>3. Covered'
  BY Zenon DEF Covered
<1>4. FlushOrdered'
  <2>1. queue'["d2h"] = <<>>
    BY Zenon DEF Streams
  <2>2. DOMAIN queue'["d2h"] = {}
    BY <2>1
  <2> QED BY <2>2, Zenon DEF FlushOrdered, InOrder
<1>5. TicksOrdered'
  BY Zenon DEF TicksOrdered
<1> QED BY <1>1, <1>2, <1>3, <1>4, <1>5, Zenon DEF TransferInv

(* When both chunks of the flush are scattered, its stream has nothing     *)
(* left: a copy would be followed by a record, and a record would be one   *)
(* the host has yet to see.                                                *)
LEMMA FlushDrained ==
    ASSUME TransferInv, pc \in {"half1", "half2"}, Scattered
    PROVE  \A s \in Streams : queue[s] = <<>>
<1>1. "d2h" \in Streams
  BY Zenon DEF Streams
<1>2. queue["d2h"] \in Seq(Allowed("d2h", bufs.size))
  BY <1>1, Zenon DEF TransferInv, QueuesFit
<1> DEFINE q == queue["d2h"]
<1>3. ASSUME NEW i \in DOMAIN q PROVE FALSE
  <2>1. OnStream("d2h", q[i])
    <3>1. i \in 1 .. Len(q)
      BY <1>2, LenProperties, Zenon
    <3>2. q[i] \in Allowed("d2h", bufs.size)
      BY <1>2, <3>1, ElementOfSeq, Zenon
    <3> QED BY <3>2, Zenon DEF Allowed
  <2>2. PICK b \in {0, 1} : IsCopyTo(q[i], b) \/ IsRecordOf(q[i], b)
    BY <2>1, Zenon DEF OnStream, IsCopyTo, IsRecordOf, Wb
  <2>3. PICK j \in DOMAIN q : IsRecordOf(q[j], b)
    BY <2>2, Zenon DEF TransferInv, FlushOrdered, InOrder
  <2>4. held[b].len # 0
    BY <2>3, Zenon DEF TransferInv, FlushOrdered, InOrder
  <2> QED BY <2>4, Zenon DEF Scattered
<1>4. q = <<>>
  <2>1. Len(q) \in Nat /\ DOMAIN q = 1 .. Len(q)
    BY <1>2, LenProperties, Zenon
  <2>2. Len(q) = 0
    BY <2>1, <1>3
  <2> QED BY <2>2, <1>2, EmptySeq, Zenon
<1>5. \A s \in Streams : s # "d2h" => queue[s] = <<>>
  BY BusyIs, Zenon DEF TransferInv, QueuesFit
<1> QED BY <1>4, <1>5, Zenon

(* The same of the calls that drain their streams, and of the moments when *)
(* a call has not queued anything yet.                                     *)
LEMMA OthersDrained ==
    ASSUME TransferInv, Drained(Busy)
    PROVE  \A s \in Streams : queue[s] = <<>>
BY Zenon DEF TransferInv, QueuesFit, Drained

(* A stream runs a command.                                                *)
LEMMA RunKeeps ==
    ASSUME TransferInv, NEW s \in Streams, Run(s)
    PROVE  TransferInv'
<1> DEFINE c == Head(queue[s])
<1>f. /\ queue[s] # <<>> /\ queue' = [queue EXCEPT ![s] = Tail(@)]
      /\ done' = IF c.op = "record" THEN [done EXCEPT ![c.ev] = c.tick] ELSE done
      /\ UNCHANGED <<client, call, pc, base, end, buf, held, bufs, recorded>>
  BY Zenon DEF Run
<1>q. queue[s] \in Seq(Allowed(s, bufs.size)) /\ s \in Busy /\ DOMAIN queue = Streams
  BY <1>f, Zenon DEF TransferInv, QueuesFit, TransferTypes
<1>t. /\ c \in Allowed(s, bufs.size) /\ Tail(queue[s]) \in Seq(Allowed(s, bufs.size))
      /\ Len(Tail(queue[s])) = Len(queue[s]) - 1 /\ Len(queue[s]) \in Nat
      /\ \A i \in 1 .. Len(Tail(queue[s])) : Tail(queue[s])[i] = queue[s][i + 1]
  BY <1>f, <1>q, HeadTailProperties, LenProperties, Zenon
<1>c. c \in Commands /\ OnStream(s, c)
  BY <1>t, Zenon DEF Allowed
<1> HIDE DEF c
<1>r. /\ queue'[s] = Tail(queue[s]) /\ DOMAIN queue' = Streams
      /\ \A x \in Streams : x # s => queue'[x] = queue[x]
  BY <1>f, <1>q, Zenon
<1>d. done' \in [Events -> Nat]
  <2>1. done \in [Events -> Nat]
    BY Zenon DEF TransferInv, TransferTypes
  <2>2. c.op = "record" => c.ev \in Events /\ c.tick \in Nat
    BY <1>c, Zenon DEF Commands
  <2> QED BY <1>f, <2>1, <2>2, Zenon
<1>1. TransferTypes'
  BY <1>f, <1>r, <1>d, Zenon DEF TransferInv, TransferTypes
<1>2. QueuesFit'
  <2>1. Busy' = Busy
    BY <1>f, Zenon DEF Busy
  <2> QED BY <1>f, <1>r, <1>t, <1>q, <2>1, Zenon DEF TransferInv, QueuesFit
<1>3. Covered'
  BY <1>f, Zenon DEF TransferInv, Covered, HalfStart
<1>4. FlushOrdered' /\ TicksOrdered'
  <2>1. CASE s # "d2h"
    <3>1. queue'["d2h"] = queue["d2h"]
      BY <1>r, <2>1, Zenon DEF Streams
    <3>2. pc \in {"pack", "flush", "half1", "half2"} => done' = done
      <4>1. pc \in {"pack", "flush", "half1", "half2"} => s = "stream"
        BY <1>q, <2>1, BusyIs, Zenon
      <4>2. s = "stream" => c.op # "record"
        BY <1>c, Zenon DEF OnStream
      <4> QED BY <1>f, <4>1, <4>2, Zenon
    <3>3. pc \notin {"half1", "half2"} => queue["d2h"] = <<>>
      <4>1. pc \notin {"half1", "half2"} => "d2h" \notin Busy
        BY Zenon DEF Busy
      <4> QED BY <4>1, Zenon DEF TransferInv, QueuesFit, Streams
    <3>4. pc \notin {"half1", "half2"} => DOMAIN queue["d2h"] = {}
      BY <3>3
    <3>5. TicksOrdered'
      BY <1>f, <3>2, Zenon DEF TransferInv, TicksOrdered
    <3>6. CASE pc \in {"half1", "half2"}
      BY <1>f, <3>1, <3>2, <3>5, <3>6, Zenon DEF TransferInv, FlushOrdered
    <3>7. CASE pc \notin {"half1", "half2"}
      BY <3>1, <3>4, <3>5, <3>7, Zenon DEF FlushOrdered, InOrder
    <3> QED BY <3>6, <3>7, Zenon
  <2>2. CASE s = "d2h"
    <3> DEFINE q == queue["d2h"]
               t == Tail(q)
    <3>p. pc \in {"half1", "half2"}
      BY <1>q, <2>2, Zenon DEF Busy
    <3>1. /\ q \in Seq(Allowed("d2h", bufs.size)) /\ DOMAIN q = 1 .. Len(q) /\ DOMAIN t = 1 .. Len(t)
          /\ queue'["d2h"] = t /\ Len(t) = Len(q) - 1 /\ Len(q) \in Nat /\ q[1] = c
          /\ \A i \in 1 .. Len(t) : t[i] = q[i + 1]
      <4>1. q[1] = c
        BY <1>f, <1>q, <2>2 DEF c
      <4>2. DOMAIN q = 1 .. Len(q) /\ DOMAIN t = 1 .. Len(t)
        BY <1>q, <1>t, <2>2, LenProperties, Zenon
      <4> QED BY <1>q, <1>t, <1>r, <2>2, <4>1, <4>2, Zenon
    <3> HIDE DEF q, t
    <3>2. \A i \in DOMAIN t : i + 1 \in DOMAIN q /\ t[i] = q[i + 1]
      BY <3>1
    <3>3. \A j \in DOMAIN q : j # 1 => j - 1 \in DOMAIN t /\ t[j - 1] = q[j]
      BY <3>1
    <3>4. 1 \in DOMAIN q /\ DOMAIN q \subseteq Int /\ DOMAIN t \subseteq Int
      BY <3>1, <1>f, <1>q, <2>2, EmptySeq DEF q
    <3>5. ASSUME NEW b \in {0, 1}, NEW i \in DOMAIN t
          PROVE  /\ IsCopyTo(t[i], b) => \E j \in DOMAIN t : i < j /\ IsRecordOf(t[j], b)
                 /\ IsRecordOf(t[i], b) =>
                       /\ held[b].len # 0
                       /\ done'[Wb(b)] < t[i].tick /\ t[i].tick <= recorded[Wb(b)]
                       /\ \A j \in DOMAIN t : IsRecordOf(t[j], b) => j = i
      <4>1. CASE IsCopyTo(t[i], b)
        <5>1. PICK j \in DOMAIN q : i + 1 < j /\ IsRecordOf(q[j], b)
          BY <3>2, <4>1, Zenon DEF TransferInv, FlushOrdered, InOrder, q
        <5>2. j - 1 \in DOMAIN t /\ t[j - 1] = q[j] /\ i < j - 1
          BY <5>1, <3>3, <3>4, <3>1
        <5>3. ~IsRecordOf(t[i], b)
          BY <4>1, Zenon DEF IsCopyTo, IsRecordOf
        <5> QED BY <5>1, <5>2, <5>3, Zenon
      <4>2. CASE IsRecordOf(t[i], b)
        <5>1. /\ held[b].len # 0
              /\ done[Wb(b)] < q[i + 1].tick /\ q[i + 1].tick <= recorded[Wb(b)]
              /\ \A j \in DOMAIN q : IsRecordOf(q[j], b) => j = i + 1
          BY <3>2, <4>2, Zenon DEF TransferInv, FlushOrdered, InOrder, q
        <5>2. ~IsRecordOf(c, b)
          BY <5>1, <3>1, <3>4, <3>2
        <5>3. done'[Wb(b)] = done[Wb(b)]
          <6>1. done \in [Events -> Nat]
            BY Zenon DEF TransferInv, TransferTypes
          <6>2. c.op = "record" => c.ev # Wb(b)
            BY <5>2, Zenon DEF IsRecordOf
          <6>3. Wb(b) \in Events
            BY Zenon DEF Wb, Events
          <6> QED BY <1>f, <6>1, <6>2, <6>3, Zenon
        <5>4. \A j \in DOMAIN t : IsRecordOf(t[j], b) => j = i
          <6> TAKE j \in DOMAIN t
          <6> HAVE IsRecordOf(t[j], b)
          <6>1. j + 1 = i + 1
            BY <5>1, <3>2, Zenon
          <6> QED BY <6>1, <3>4
        <5>5. ~IsCopyTo(t[i], b)
          BY <4>2, Zenon DEF IsCopyTo, IsRecordOf
        <5> QED BY <5>1, <5>3, <5>4, <5>5, <3>2, Zenon
      <4> QED BY <4>1, <4>2, Zenon
    <3>6. ASSUME NEW b \in {0, 1} PROVE done'[Wb(b)] <= recorded[Wb(b)]
      <4>0. done \in [Events -> Nat] /\ Wb(b) \in Events
        BY Zenon DEF TransferInv, TransferTypes, Wb, Events
      <4>1. CASE IsRecordOf(c, b)
        <5>1. c.tick <= recorded[Wb(b)]
          BY <3>1, <3>4, <4>1, Zenon DEF TransferInv, FlushOrdered, InOrder, q
        <5>2. done'[Wb(b)] = c.tick
          BY <1>f, <4>0, <4>1, Zenon DEF IsRecordOf
        <5> QED BY <5>1, <5>2, Zenon
      <4>2. CASE ~IsRecordOf(c, b)
        <5>1. done'[Wb(b)] = done[Wb(b)]
          <6>1. c.op = "record" => c.ev # Wb(b)
            BY <4>2, Zenon DEF IsRecordOf
          <6> QED BY <1>f, <4>0, <6>1, Zenon
        <5>2. done[Wb(b)] <= recorded[Wb(b)]
          BY <3>p, Zenon DEF TransferInv, TicksOrdered
        <5> QED BY <5>1, <5>2, Zenon
      <4> QED BY <4>1, <4>2, Zenon
    <3>7. FlushOrdered'
      <4>1. InOrder(t, held, done', recorded)
        BY <3>5, Zenon DEF InOrder
      <4> QED BY <4>1, <1>f, <3>1, Zenon DEF FlushOrdered
    <3> QED BY <1>f, <3>6, <3>7, Zenon DEF TicksOrdered
  <2> QED BY <2>1, <2>2, Zenon
<1> QED BY <1>1, <1>2, <1>3, <1>4, Zenon DEF TransferInv

--------------------------------------------------------------------------------
(* The host's steps.                                                       *)

(* Nothing queued is nothing that could be wrong.                          *)
LEMMA EmptyQueue ==
    ASSUME NEW s, NEW size, NEW h, NEW d, NEW r
    PROVE  <<>> \in Seq(Allowed(s, size)) /\ InOrder(<<>>, h, d, r)
<1>1. <<>> \in Seq(Allowed(s, size))
  BY EmptySeq, Zenon
<1>2. DOMAIN <<>> = {}
  OBVIOUS
<1>3. InOrder(<<>>, h, d, r)
  BY <1>2, Zenon DEF InOrder
<1> QED BY <1>1, <1>3, Zenon

(* The buffers with which a call of n entries may begin.                   *)
Enough(chunk, b, n, next) ==
    /\ next \in {"tx", "wb", "gather", "pack"}
    /\ b \in BufState /\ Follows(chunk, b)
    /\ next = "tx" => /\ chunk /\ b.cap["chunkVers"] >= TransferElems(n)
                      /\ b.cap["chunk"] >= TransferElems(n)
    /\ next = "wb" => /\ chunk /\ b.cap["chunkVers"] >= WritebackElems
                      /\ b.cap["chunk"] >= WritebackElems
    /\ next \in {"gather", "pack"} => ~chunk /\ b.cap["vers"] >= n
    /\ next = "pack" => b.cap["grids"] >= n /\ b.cap["currSlots"] >= n

(* The start of a call keeps the invariant, and finds every stream empty.  *)
LEMMA BeginKeeps ==
    ASSUME TransferInv, NEW op, NEW n \in 1 .. MaxElems, NEW bad, NEW b, NEW next,
           Begin(op, n, bad, b, next), Enough(client.chunk, b, n, next)
    PROVE  TransferInv' /\ \A s \in Streams : queue[s] = <<>>
<1>m. MaxElems \in Nat
  BY ScatterGatherAssumption, Zenon DEF ScatterGatherAssumption
<1>f. /\ pc = "idle" /\ call'.n = n /\ pc' = next /\ base' = 0 /\ end' = n /\ buf' = 0
      /\ held' = [x \in {0, 1} |-> [from |-> 0, len |-> 0]]
      /\ recorded' = [e \in Events |-> 0] /\ done' = [e \in Events |-> 0]
      /\ bufs' = b /\ UNCHANGED <<client, queue>>
  BY Zenon DEF Begin, Resize
<1>q. \A s \in Streams : queue[s] = <<>>
  BY <1>f, BusyIs, Zenon DEF TransferInv, QueuesFit
<1>1. TransferTypes'
  <2>1. call'.n \in 0 .. MaxElems /\ call'.n # 0 /\ base' \in 0 .. end' /\ end' \in Nat /\ buf' \in {0, 1}
    BY <1>f, <1>m
  <2>2. held' \in [{0, 1} -> [from : Nat, len : Nat]]
    BY <1>f, Zenon
  <2>3. recorded' \in [Events -> Nat] /\ done' \in [Events -> Nat]
    BY <1>f, Zenon
  <2>4. client' \in Clients /\ DOMAIN queue' = Streams
    BY <1>f, Zenon DEF TransferInv, TransferTypes
  <2>5. bufs' \in BufState /\ Follows(client.chunk, bufs)'
    BY <1>f, Zenon DEF Enough
  <2>6. pc' \in {"tx", "wb", "gather", "pack"}
    BY <1>f, Zenon DEF Enough
  <2>7. call'.k \in Nat
    BY DEF Begin, TransferInv, TransferTypes
  <2> QED BY <2>1, <2>2, <2>3, <2>4, <2>5, <2>6, <2>7, Zenon DEF TransferTypes
<1>2. QueuesFit' /\ FlushOrdered'
  <2>1. \A s \in Streams : queue'[s] = <<>>
    BY <1>f, <1>q, Zenon
  <2>2. QueuesFit'
    BY <2>1, EmptyQueue, Zenon DEF QueuesFit
  <2>3. "d2h" \in Streams
    BY Zenon DEF Streams
  <2>4. queue'["d2h"] = <<>>
    BY <2>1, <2>3, Zenon
  <2>5. FlushOrdered'
    BY <2>4, EmptyQueue, Zenon DEF FlushOrdered
  <2> QED BY <2>2, <2>5, Zenon
<1>3. Covered'
  <2>1. end' <= call'.n /\ end' = call'.n
    BY <1>f
  <2> QED BY <1>f, <2>1, Zenon DEF Covered, Enough
<1>4. TicksOrdered'
  <2>1. \A x \in {0, 1} : Wb(x) \in Events
    BY Zenon DEF Wb, Events
  <2> QED BY <1>f, <2>1 DEF TicksOrdered
<1> QED BY <1>q, <1>1, <1>2, <1>3, <1>4, Zenon DEF TransferInv

(* Every call begins with enough.                                          *)
LEMMA CallsBegin ==
    ASSUME TransferInv, Calls
    PROVE  TransferInv' /\ \A s \in Streams : queue[s] = <<>>
<1>m. MaxElems \in Nat
  BY ScatterGatherAssumption, Zenon DEF ScatterGatherAssumption
<1>b. bufs \in BufState /\ Follows(client.chunk, bufs) /\ client.chunk \in BOOLEAN
  <2>1. client \in Clients
    BY Zenon DEF TransferInv, TransferTypes
  <2>2. client.chunk \in BOOLEAN
    BY <2>1, ScatterGatherAssumption, Zenon DEF ScatterGatherAssumption
  <2> QED BY <2>2, Zenon DEF TransferInv, TransferTypes
<1>c. {"vers", "grids", "currSlots", "chunkVers", "chunk"} \subseteq CapNames
  BY Zenon DEF CapNames
<1>1. PICK n \in 1 .. MaxElems : \E bad :
        \/ Transfer(n, bad) \/ TransferWhole(n, bad)
        \/ Writeback(n, bad) \/ WritebackWhole(n, bad) \/ Flush(n, bad)
  BY Zenon DEF Calls
<1>2. PICK bad :
        \/ Transfer(n, bad) \/ TransferWhole(n, bad)
        \/ Writeback(n, bad) \/ WritebackWhole(n, bad) \/ Flush(n, bad)
  BY <1>1, Zenon
<1>n. n \in Nat
  BY <1>m
<1>e. /\ TransferElems(n) \in Nat /\ WritebackElems \in Nat
  BY <1>n, ChunkSizes, Zenon
<1>3. ASSUME NEW m \in Nat, client.chunk
      PROVE  LET b == EnsureChunkGrids(EnsureChunkVersions(bufs, m), m)
             IN  /\ b \in BufState /\ Follows(client.chunk, b)
                 /\ b.cap["chunkVers"] >= m /\ b.cap["chunk"] >= m
  <2> DEFINE a == EnsureChunkVersions(bufs, m)
             b == EnsureChunkGrids(a, m)
  <2>0. client.chunk # FALSE
    BY <1>3, Zenon
  <2>1. Grew(client.chunk, bufs, a) /\ a.cap["chunkVers"] >= m
    BY <1>b, <2>0, EnsureChunkVersionsGrows, Zenon
  <2>2. a \in BufState /\ Follows(client.chunk, a)
    BY <2>1, Zenon DEF Grew
  <2> HIDE DEF a
  <2>3. Grew(client.chunk, a, b) /\ b.cap["chunk"] >= m
    BY <2>2, <1>b, EnsureChunkGridsGrows, Zenon
  <2> HIDE DEF b
  <2>4. b \in BufState /\ Follows(client.chunk, b) /\ b.cap["chunkVers"] >= a.cap["chunkVers"]
    BY <2>3, <1>c, Zenon DEF Grew
  <2>5. b.cap["chunkVers"] \in Nat /\ a.cap["chunkVers"] \in Nat
    BY <2>2, <2>4, <1>c, Zenon DEF BufState
  <2>6. b.cap["chunkVers"] >= m
    BY <2>1, <2>4, <2>5
  <2> QED BY <2>3, <2>4, <2>6, Zenon DEF a, b
<1>4. ASSUME ~client.chunk
      PROVE  Enough(client.chunk, WbAsyncEnsure(bufs, n), n, "pack")
  <2> DEFINE a == EnsureVersions(bufs, n)
             b == EnsureGrids(a, n)
             c == EnsureCurrSlots(b, n)
  <2>1. Grew(client.chunk, bufs, a) /\ a.cap["vers"] >= n
    BY <1>b, <1>n, EnsureVersionsGrows, Zenon
  <2>2. a \in BufState /\ Follows(client.chunk, a)
    BY <2>1, Zenon DEF Grew
  <2> HIDE DEF a
  <2>3. Grew(client.chunk, a, b) /\ b.cap["grids"] >= n
    BY <2>2, <1>b, <1>n, EnsureGridsGrows, Zenon
  <2>4. b \in BufState /\ Follows(client.chunk, b) /\ b.cap["vers"] >= a.cap["vers"]
    BY <2>3, <1>c, Zenon DEF Grew
  <2> HIDE DEF b
  <2>5. Grew(client.chunk, b, c) /\ c.cap["currSlots"] >= n
    BY <2>4, <1>b, <1>n, <1>4, EnsureCurrSlotsGrows, Zenon
  <2> HIDE DEF c
  <2>6. /\ c \in BufState /\ Follows(client.chunk, c)
        /\ c.cap["vers"] >= b.cap["vers"] /\ c.cap["grids"] >= b.cap["grids"]
    BY <2>5, <1>c, Zenon DEF Grew
  <2>7. /\ a.cap["vers"] \in Nat /\ b.cap["vers"] \in Nat /\ c.cap["vers"] \in Nat
        /\ b.cap["grids"] \in Nat /\ c.cap["grids"] \in Nat
    BY <2>2, <2>4, <2>6, <1>c, Zenon DEF BufState
  <2>8. c.cap["vers"] >= n /\ c.cap["grids"] >= n
    BY <2>1, <2>3, <2>4, <2>6, <2>7, <1>n
  <2>9. WbAsyncEnsure(bufs, n) = c
    BY Zenon DEF WbAsyncEnsure, a, b, c
  <2> QED BY <2>5, <2>6, <2>8, <2>9, <1>4, Zenon DEF Enough
<1>5. CASE Transfer(n, bad)
  <2> DEFINE b == EnsureChunkGrids(EnsureChunkVersions(bufs, TransferElems(n)), TransferElems(n))
  <2>1. client.chunk /\ Begin("transfer", n, bad, b, "tx")
    BY <1>5, Zenon DEF Transfer
  <2>2. /\ b \in BufState /\ Follows(client.chunk, b)
        /\ b.cap["chunkVers"] >= TransferElems(n) /\ b.cap["chunk"] >= TransferElems(n)
    BY <2>1, <1>e, <1>3, Zenon
  <2> HIDE DEF b
  <2>3. Enough(client.chunk, b, n, "tx")
    BY <2>1, <2>2, Zenon DEF Enough
  <2> QED BY <2>1, <2>3, BeginKeeps, Zenon
<1>6. CASE TransferWhole(n, bad)
  <2> DEFINE b == EnsureVersions(bufs, n)
  <2>1. ~client.chunk /\ Begin("transfer", n, bad, b, "gather")
    BY <1>6, Zenon DEF TransferWhole
  <2>2. Grew(client.chunk, bufs, b) /\ b.cap["vers"] >= n
    BY <1>b, <1>n, EnsureVersionsGrows, Zenon
  <2> HIDE DEF b
  <2>3. Enough(client.chunk, b, n, "gather")
    BY <2>1, <2>2, Zenon DEF Enough, Grew
  <2> QED BY <2>1, <2>3, BeginKeeps, Zenon
<1>7. CASE Writeback(n, bad)
  <2> DEFINE b == EnsureChunkGrids(EnsureChunkVersions(bufs, WritebackElems), WritebackElems)
  <2>1. client.chunk /\ Begin("writeback", n, bad, b, "wb")
    BY <1>7, Zenon DEF Writeback
  <2>2. /\ b \in BufState /\ Follows(client.chunk, b)
        /\ b.cap["chunkVers"] >= WritebackElems /\ b.cap["chunk"] >= WritebackElems
    BY <2>1, <1>e, <1>3, Zenon
  <2> HIDE DEF b
  <2>3. Enough(client.chunk, b, n, "wb")
    BY <2>1, <2>2, Zenon DEF Enough
  <2> QED BY <2>1, <2>3, BeginKeeps, Zenon
<1>8. CASE WritebackWhole(n, bad) \/ Flush(n, bad)
  <2>1. PICK op : ~client.chunk /\ Begin(op, n, bad, WbAsyncEnsure(bufs, n), "pack")
    BY <1>8, Zenon DEF WritebackWhole, Flush
  <2>2. Enough(client.chunk, WbAsyncEnsure(bufs, n), n, "pack")
    BY <2>1, <1>4, Zenon
  <2> QED BY <2>1, <2>2, BeginKeeps, Zenon
<1> QED BY <1>2, <1>5, <1>6, <1>7, <1>8, Zenon

(* Before the first call.                                                  *)
LEMMA InitHolds ==
    ASSUME Init
    PROVE  TransferInv
<1>m. MaxElems \in Nat
  BY ScatterGatherAssumption, Zenon DEF ScatterGatherAssumption
<1>1. bufs \in BufState /\ Follows(client.chunk, bufs)
  <2>1. bufs = Empty(0, 0)
    BY Zenon DEF Init
  <2>2. Empty(0, 0).size \in [Buffers -> Nat] /\ \A x \in Buffers : Empty(0, 0).size[x] = 0
    BY Zenon DEF Empty
  <2>3. Empty(0, 0) \in BufState /\ \A f \in CapNames : Empty(0, 0).cap[f] = 0
    BY <2>2 DEF Empty, BufState, CapNames
  <2>4. client.chunk \in BOOLEAN
    BY ScatterGatherAssumption, Zenon DEF Init, ScatterGatherAssumption
  <2>5. \A f \in CapNames : Sized(client.chunk, f) \subseteq Buffers
    BY <2>4, SizedInBuffers, Zenon
  <2> QED BY <2>1, <2>2, <2>3, <2>5, Zenon DEF Follows
<1>2. TransferTypes
  <2>1. call.k \in Nat /\ call.n \in 0 .. MaxElems /\ base \in 0 .. end /\ end \in Nat
    BY <1>m DEF Init
  <2> QED BY <1>1, <2>1, Zenon DEF Init, TransferTypes
<1>3. \A s \in Streams : queue[s] = <<>>
  BY Zenon DEF Init
<1>4. QueuesFit
  BY <1>3, EmptyQueue, Zenon DEF QueuesFit
<1>5. FlushOrdered
  <2>1. queue["d2h"] = <<>>
    BY <1>3, Zenon DEF Streams
  <2> QED BY <2>1, EmptyQueue, Zenon DEF FlushOrdered
<1>6. Covered /\ TicksOrdered
  BY Zenon DEF Init, Covered, TicksOrdered
<1> QED BY <1>2, <1>4, <1>5, <1>6, Zenon DEF TransferInv

(* The object is reset between calls.                                      *)
LEMMA ResetKeeps ==
    ASSUME TransferInv, Reset
    PROVE  TransferInv' /\ \A s \in Streams : queue[s] = <<>>
<1>m. MaxElems \in Nat
  BY ScatterGatherAssumption, Zenon DEF ScatterGatherAssumption
<1> DEFINE w == bufs.cap["wb"]
           z == bufs.size[<<"h_wb_d2h_buf", 0>>]
<1>f. /\ pc = "idle" /\ call'.n = 0 /\ call'.k = call.k /\ bufs' = Empty(w, z)
      /\ UNCHANGED <<client, pc, base, end, buf, held, queue, recorded, done>>
  BY Zenon DEF Reset, Resize, gpuSide
<1>q. \A s \in Streams : queue[s] = <<>>
  BY <1>f, BusyIs, Zenon DEF TransferInv, QueuesFit
<1>b. client.chunk \in BOOLEAN
  <2>1. client \in Clients
    BY Zenon DEF TransferInv, TransferTypes
  <2> QED BY <2>1, ScatterGatherAssumption, Zenon DEF ScatterGatherAssumption
<1>w. w \in Nat /\ z = w
  <2>1. bufs \in BufState /\ Follows(client.chunk, bufs)
    BY Zenon DEF TransferInv, TransferTypes
  <2>2. "wb" \in CapNames
    BY Zenon DEF CapNames
  <2>3. <<"h_wb_d2h_buf", 0>> \in Sized(client.chunk, "wb")
    BY <1>b, SizedBy, BufferNames, Zenon
  <2>4. z = w
    BY <2>1, <2>2, <2>3, Zenon DEF Follows
  <2>5. w \in Nat
    BY <2>1, <2>2, Zenon DEF BufState
  <2> QED BY <2>4, <2>5, Zenon
<1> HIDE DEF w, z
<1>1. bufs' \in BufState /\ Follows(client.chunk, bufs)'
  <2>1. /\ Empty(w, z).size \in [Buffers -> Nat]
        /\ \A x \in Buffers : Empty(w, z).size[x] = IF x \in WbBuffers THEN w ELSE 0
    BY <1>w, Zenon DEF Empty
  <2>2. /\ Empty(w, z) \in BufState
        /\ \A f \in CapNames : Empty(w, z).cap[f] = IF f = "wb" THEN w ELSE 0
    BY <1>w, <2>1 DEF Empty, BufState, CapNames
  <2>3. ASSUME NEW f \in CapNames, NEW x \in Sized(client.chunk, f)
        PROVE  Empty(w, z).size[x] = Empty(w, z).cap[f]
    <3>1. x \in Buffers
      BY <1>b, SizedInBuffers, Zenon
    <3>2. "wb" \in CapNames /\ Sized(client.chunk, "wb") = WbBuffers
      BY <1>b, SizedBy, Zenon DEF CapNames
    <3>3. CASE f = "wb"
      BY <3>1, <3>2, <3>3, <2>1, <2>2, Zenon
    <3>4. CASE f # "wb"
      <4>1. Sized(client.chunk, "wb") \cap Sized(client.chunk, f) = {}
        BY <1>b, <3>2, <3>4, SizedApart, Zenon
      <4>2. x \notin WbBuffers
        BY <4>1, <3>2, Zenon
      <4> QED BY <3>1, <3>4, <4>2, <2>1, <2>2, Zenon
    <3> QED BY <3>3, <3>4, Zenon
  <2>4. Follows(client.chunk, Empty(w, z))
    BY <2>3, Zenon DEF Follows
  <2> QED BY <1>f, <2>2, <2>4, Zenon
<1>2. TransferTypes'
  <2>1. call'.n \in 0 .. MaxElems
    BY <1>f, <1>m
  <2> QED BY <1>f, <1>1, <2>1, Zenon DEF TransferInv, TransferTypes
<1>3. QueuesFit'
  BY <1>f, <1>q, EmptyQueue, Zenon DEF QueuesFit
<1>4. FlushOrdered'
  BY <1>f, Zenon DEF TransferInv, FlushOrdered
<1>5. Covered' /\ TicksOrdered'
  BY <1>f, Zenon DEF Covered, TicksOrdered
<1> QED BY <1>q, <1>2, <1>3, <1>4, <1>5, Zenon DEF TransferInv

(* Which commands may be queued on the streams of transfers and            *)
(* writebacks.                                                             *)
LEMMA AllowedOn ==
    ASSUME NEW s \in Streams \ {"d2h"}, NEW size, NEW m \in Nat
    PROVE  /\ \A x, y \in Buffers, o \in Nat :
                 (x = <<"h_prev_slots", 0>> \/ o + m <= size[x]) /\ m <= size[y]
                     => Copy(x, o, y, m) \in Allowed(s, size)
           /\ \A d \in Data, y \in Buffers : m <= size[y] => Put(d, y, m) \in Allowed(s, size)
           /\ \A op \in {"pack", "scatter"}, x, y, z \in Buffers :
                 m <= size[x] /\ m <= size[y] /\ m <= size[z]
                     => Kernel(op, x, y, z, m) \in Allowed(s, size)
<1>1. ASSUME NEW x \in Buffers, NEW y \in Buffers, NEW o \in Nat,
             x = <<"h_prev_slots", 0>> \/ o + m <= size[x], m <= size[y]
      PROVE  Copy(x, o, y, m) \in Allowed(s, size)
  <2>1. Fits(Copy(x, o, y, m), size)
    BY <1>1, CopyFits, Zenon
  <2>2. Copy(x, o, y, m) \in Commands /\ Copy(x, o, y, m).op = "copy"
    BY CommandsAre
  <2> QED BY <2>1, <2>2, Zenon DEF Allowed, OnStream
<1>2. ASSUME NEW d \in Data, NEW y \in Buffers, m <= size[y]
      PROVE  Put(d, y, m) \in Allowed(s, size)
  <2>1. Fits(Put(d, y, m), size)
    BY <1>2, PutFits, Zenon
  <2>2. Put(d, y, m) \in Commands /\ Put(d, y, m).op = "put"
    BY CommandsAre
  <2> QED BY <2>1, <2>2, Zenon DEF Allowed, OnStream
<1>3. ASSUME NEW op \in {"pack", "scatter"}, NEW x \in Buffers, NEW y \in Buffers,
             NEW z \in Buffers, m <= size[x], m <= size[y], m <= size[z]
      PROVE  Kernel(op, x, y, z, m) \in Allowed(s, size)
  <2>1. Fits(Kernel(op, x, y, z, m), size)
    BY <1>3, KernelFits, Zenon
  <2>2. Kernel(op, x, y, z, m) \in Commands /\ Kernel(op, x, y, z, m).op = op
    BY CommandsAre
  <2> QED BY <2>1, <2>2, Zenon DEF Allowed, OnStream
<1> QED BY <1>1, <1>2, <1>3, Zenon

(* A command about an event may be queued on the copy and compute streams. *)
LEMMA EventAllowed ==
    ASSUME NEW s \in {"copy", "compute"}, NEW size, NEW e \in Events,
           recorded \in [Events -> Nat]
    PROVE  Record(e) \in Allowed(s, size) /\ WaitFor(e) \in Allowed(s, size)
<1>1. recorded[e] + 1 \in Nat
  OBVIOUS
<1>2. ASSUME NEW c \in {Record(e), WaitFor(e)} PROVE c \in Allowed(s, size)
  <2>1. PICK op \in {"record", "wait"} : c = [op |-> op, ev |-> e, tick |-> recorded[e] + 1]
    BY <1>2, Zenon DEF Record, WaitFor
  <2>2. c \in Commands /\ UsesOf(c) = {}
    BY <1>1, <2>1, EventCommandsAre
  <2>3. Fits(c, size) /\ OnStream(s, c)
    BY <2>2, Zenon DEF Fits, OnStream
  <2> QED BY <2>2, <2>3, Zenon DEF Allowed
<1> QED BY <1>2, Zenon

(* The object's own stream, empty until now, gets commands that fit.       *)
LEMMA StreamKeeps ==
    ASSUME TransferInv, \A s \in Streams : queue[s] = <<>>,
           NEW t \in Seq(Allowed("stream", bufs'.size)), queue' = [queue EXCEPT !["stream"] = t],
           pc \in {"gather", "scatter", "pack"},
           pc' \in {"scatter", "scattered", "packed", "flush"}, pc' = "flush" => pc = "pack",
           Grew(client.chunk, bufs, bufs'),
           UNCHANGED <<client, call, base, end, buf, held, recorded, done>>
    PROVE  TransferInv'
<1>s. "stream" \in Streams /\ "d2h" \in Streams
  BY Zenon DEF Streams
<1>1. /\ DOMAIN queue' = Streams /\ queue'["stream"] = t
      /\ \A s \in Streams : s # "stream" => queue'[s] = <<>>
  <2>1. DOMAIN queue = Streams
    BY Zenon DEF TransferInv, TransferTypes
  <2> QED BY <2>1, <1>s, Zenon
<1>2. TransferTypes'
  <2>1. bufs' \in BufState /\ Follows(client.chunk, bufs)'
    BY Zenon DEF Grew
  <2>2. pc # "idle"
    BY Zenon
  <2> QED BY <1>1, <2>1, <2>2, Zenon DEF TransferInv, TransferTypes
<1>3. QueuesFit'
  <2>1. Busy' = {"stream"}
    BY Zenon DEF Busy
  <2>2. ASSUME NEW s \in Streams
        PROVE  queue'[s] \in Seq(Allowed(s, bufs'.size)) /\ (s \notin Busy' => queue'[s] = <<>>)
    <3>1. CASE s = "stream"
      BY <1>1, <2>1, <3>1, Zenon
    <3>2. CASE s # "stream"
      BY <1>1, <3>2, EmptyQueue, ZenonT(40)
    <3> QED BY <3>1, <3>2, Zenon
  <2> QED BY <2>2, Zenon DEF QueuesFit
<1>4. FlushOrdered'
  BY <1>1, <1>s, EmptyQueue, Zenon DEF FlushOrdered
<1>5. Covered'
  <2>1. ~client.chunk /\ bufs.cap["vers"] >= call.n /\ end <= call.n
    BY Zenon DEF TransferInv, Covered
  <2>2. bufs'.cap["vers"] >= bufs.cap["vers"]
    BY Zenon DEF Grew, CapNames
  <2>3. bufs.cap["vers"] \in Nat /\ bufs'.cap["vers"] \in Nat /\ call.n \in Int
    <3>1. bufs \in BufState /\ bufs' \in BufState
      BY Zenon DEF Grew, TransferInv, TransferTypes
    <3>2. call.n \in 0 .. MaxElems /\ MaxElems \in Nat
      BY ScatterGatherAssumption, Zenon DEF TransferInv, TransferTypes, ScatterGatherAssumption
    <3>3. "vers" \in CapNames
      BY Zenon DEF CapNames
    <3>4. bufs.cap["vers"] \in Nat /\ bufs'.cap["vers"] \in Nat
      BY <3>1, <3>3, Zenon DEF BufState
    <3> QED BY <3>2, <3>4
  <2>4. bufs'.cap["vers"] >= call.n
    BY <2>1, <2>2, <2>3
  <2> QED BY <2>1, <2>4, Zenon DEF Covered
<1>6. TicksOrdered'
  BY Zenon DEF TransferInv, TicksOrdered
<1> QED BY <1>2, <1>3, <1>4, <1>5, <1>6, Zenon DEF TransferInv

(* The types that the host's steps build on.                               *)
LEMMA HostTypes ==
    ASSUME TransferInv
    PROVE  /\ call.k \in Nat /\ call.n \in Nat /\ base \in Nat /\ end \in Nat /\ base <= end /\ buf \in {0, 1}
           /\ bufs \in BufState /\ Follows(client.chunk, bufs) /\ client.chunk \in BOOLEAN
           /\ bufs.size \in [Buffers -> Nat] /\ \A f \in CapNames : bufs.cap[f] \in Nat
           /\ DOMAIN queue = Streams /\ recorded \in [Events -> Nat] /\ done \in [Events -> Nat]
           /\ held \in [{0, 1} -> [from : Nat, len : Nat]]
<1>1. call.n \in 0 .. MaxElems /\ MaxElems \in Nat
  BY ScatterGatherAssumption, Zenon DEF TransferInv, TransferTypes, ScatterGatherAssumption
<1>2. client \in Clients /\ bufs \in BufState
  BY Zenon DEF TransferInv, TransferTypes
<1>3. client.chunk \in BOOLEAN
  BY <1>2, ScatterGatherAssumption, Zenon DEF ScatterGatherAssumption
<1>4. bufs.size \in [Buffers -> Nat] /\ \A f \in CapNames : bufs.cap[f] \in Nat
  BY <1>2, Zenon DEF BufState
<1>5. base \in 0 .. end /\ end \in Nat
  BY Zenon DEF TransferInv, TransferTypes
<1>6. call.n \in Nat /\ base \in Nat /\ end \in Nat /\ base <= end
  BY <1>1, <1>5
<1> QED BY <1>2, <1>3, <1>4, <1>6, Zenon DEF TransferInv, TransferTypes

(* The gather of a transfer without chunks.                                *)
LEMMA GatherKeeps ==
    ASSUME TransferInv, GatherWhole
    PROVE  TransferInv' /\ bufs' = bufs
<1> DEFINE c == Copy(<<"h_packed_vers", 0>>, 0, <<"d_packed_vers", 0>>, call.n)
<1>f. /\ pc = "gather" /\ pc' = "scatter" /\ queue' = [queue EXCEPT !["stream"] = Append(@, c)]
      /\ UNCHANGED <<client, call, base, end, buf, held, bufs, recorded, done>>
  BY Zenon DEF GatherWhole
<1>q. \A s \in Streams : queue[s] = <<>>
  BY <1>f, BusyIs, Zenon DEF TransferInv, QueuesFit
<1>s. "stream" \in Streams \ {"d2h"} /\ "vers" \in CapNames
  BY Zenon DEF Streams, CapNames
<1>1. c \in Allowed("stream", bufs.size)
  <2>1. bufs.cap["vers"] >= call.n
    BY <1>f, Zenon DEF TransferInv, Covered
  <2>2. /\ bufs.size[<<"h_packed_vers", 0>>] = bufs.cap["vers"]
        /\ bufs.size[<<"d_packed_vers", 0>>] = bufs.cap["vers"]
    BY HostTypes, <1>s, SizedBy, Zenon DEF Follows
  <2>3. <<"h_packed_vers", 0>> \in Buffers /\ <<"d_packed_vers", 0>> \in Buffers
    BY BufferNames, Zenon
  <2>4. 0 + call.n <= bufs.size[<<"h_packed_vers", 0>>] /\ call.n <= bufs.size[<<"d_packed_vers", 0>>]
        /\ call.n \in Nat /\ 0 \in Nat
    BY <2>1, <2>2, HostTypes, <1>s
  <2> QED BY <1>s, <2>3, <2>4, AllowedOn, Zenon
<1> HIDE DEF c
<1>2. <<c>> \in Seq(Allowed("stream", bufs'.size))
  BY <1>1, <1>f
<1>3. queue' = [queue EXCEPT !["stream"] = <<c>>]
  <2>1. queue["stream"] = <<>>
    BY <1>q, <1>s, Zenon
  <2> QED BY <1>f, <2>1
<1>4. Grew(client.chunk, bufs, bufs')
  <2>1. \A f \in CapNames : bufs.cap[f] >= bufs.cap[f]
    BY HostTypes
  <2> QED BY <1>f, <2>1, HostTypes, Zenon DEF Grew
<1>5. TransferInv'
  BY <1>f, <1>q, <1>2, <1>3, <1>4, StreamKeeps, Zenon
<1> QED BY <1>f, <1>5, Zenon

(* The rest of it: the buffers of the grids and slots grow while the       *)
(* stream is empty.                                                        *)
LEMMA ScatterKeeps ==
    ASSUME TransferInv, ScatterWhole
    PROVE  TransferInv' /\ \A s \in Streams : queue[s] = <<>>
<1> DEFINE n == call.n
           a == EnsureGrids(bufs, n)
           b == EnsurePrevSlots(a, n)
           p == Put([i \in 1 .. n |-> Grid(i)], <<"d_grids_persistent", 0>>, n)
           c == Copy(<<"h_prev_slots", 0>>, 0, <<"d_prev_slots_buf", 0>>, n)
           k == Kernel("scatter", <<"d_packed_vers", 0>>, <<"d_grids_persistent", 0>>,
                       <<"d_prev_slots_buf", 0>>, n)
<1>f. /\ pc = "scatter" /\ pc' = "scattered" /\ Drained({"stream"}) /\ bufs' = b
      /\ queue' = [queue EXCEPT !["stream"] = @ \o <<p, c, k>>]
      /\ UNCHANGED <<client, call, base, end, buf, held, recorded, done>>
  BY Zenon DEF ScatterWhole, Resize
<1>q. \A s \in Streams : queue[s] = <<>>
  <2>1. Busy = {"stream"}
    BY <1>f, BusyIs, Zenon
  <2> QED BY <1>f, <2>1, OthersDrained, Zenon
<1>s. "stream" \in Streams \ {"d2h"} /\ {"vers", "grids", "prevSlots"} \subseteq CapNames
  BY Zenon DEF Streams, CapNames
<1>c. ~client.chunk /\ bufs.cap["vers"] >= n
  BY <1>f, Zenon DEF TransferInv, Covered
<1>d. [i \in 1 .. n |-> Grid(i)] \in Data /\ n \in Nat
  <2>1. n \in Nat
    BY HostTypes, Zenon
  <2>2. \A i \in 1 .. n : Grid(i) \in Int
    BY <2>1 DEF Grid
  <2>3. [i \in 1 .. n |-> Grid(i)] \in [1 .. n -> Int]
    BY <2>2, Zenon
  <2> QED BY <2>1, <2>3, Zenon DEF Data
<1>1. Grew(client.chunk, bufs, a) /\ a.cap["grids"] >= n
  BY <1>d, HostTypes, EnsureGridsGrows, Zenon
<1>2. a \in BufState /\ Follows(client.chunk, a)
  BY <1>1, Zenon DEF Grew
<1> HIDE DEF a
<1>3. Grew(client.chunk, a, b) /\ b.cap["prevSlots"] >= n
  BY <1>2, <1>c, <1>d, HostTypes, EnsurePrevSlotsGrows, Zenon
<1> HIDE DEF b
<1>4. b \in BufState /\ Follows(client.chunk, b)
  BY <1>3, Zenon DEF Grew
<1>5. \A f \in CapNames : bufs.cap[f] \in Nat /\ a.cap[f] \in Nat /\ b.cap[f] \in Nat
  BY <1>2, <1>4, HostTypes, Zenon DEF BufState
<1>6. \A f \in CapNames : b.cap[f] >= a.cap[f] /\ a.cap[f] >= bufs.cap[f]
  BY <1>1, <1>3, Zenon DEF Grew
<1>7. Grew(client.chunk, bufs, b)
  <2>1. \A f \in CapNames : b.cap[f] >= bufs.cap[f]
    BY <1>5, <1>6
  <2> QED BY <1>4, <2>1, Zenon DEF Grew
<1>8. /\ n <= b.size[<<"d_packed_vers", 0>>] /\ n <= b.size[<<"d_grids_persistent", 0>>]
      /\ n <= b.size[<<"d_prev_slots_buf", 0>>]
  <2>1. n <= b.cap["vers"] /\ n <= b.cap["grids"] /\ n <= b.cap["prevSlots"]
    BY <1>c, <1>d, <1>1, <1>3, <1>5, <1>6, <1>s
  <2>2. /\ b.size[<<"d_packed_vers", 0>>] = b.cap["vers"]
        /\ b.size[<<"d_grids_persistent", 0>>] = b.cap["grids"]
        /\ b.size[<<"d_prev_slots_buf", 0>>] = b.cap["prevSlots"]
    BY <1>c, <1>4, <1>s, HostTypes, SizedBy, Zenon DEF Follows
  <2> QED BY <2>1, <2>2, Zenon
<1>9. p \in Allowed("stream", b.size) /\ c \in Allowed("stream", b.size) /\ k \in Allowed("stream", b.size)
  <2>1. /\ <<"h_prev_slots", 0>> \in Buffers /\ <<"d_prev_slots_buf", 0>> \in Buffers
        /\ <<"d_packed_vers", 0>> \in Buffers /\ <<"d_grids_persistent", 0>> \in Buffers /\ 0 \in Nat
    BY BufferNames, Zenon
  <2>2. p \in Allowed("stream", b.size)
    BY <1>s, <1>d, <1>8, <2>1, AllowedOn, Zenon
  <2>3. c \in Allowed("stream", b.size)
    BY <1>s, <1>d, <1>8, <2>1, AllowedOn, Zenon
  <2>4. k \in Allowed("stream", b.size)
    BY <1>s, <1>d, <1>8, <2>1, AllowedOn, ZenonT(40)
  <2> QED BY <2>2, <2>3, <2>4, Zenon
<1> HIDE DEF p, c, k
<1>10. <<p, c, k>> \in Seq(Allowed("stream", bufs'.size))
  BY <1>9, <1>f
<1>11. queue' = [queue EXCEPT !["stream"] = <<p, c, k>>]
  <2>1. queue["stream"] = <<>>
    BY <1>q, <1>s, Zenon
  <2>2. <<>> \o <<p, c, k>> = <<p, c, k>>
    OBVIOUS
  <2> QED BY <1>f, <2>1, <2>2, Zenon
<1>12. TransferInv'
  <2>1. Grew(client.chunk, bufs, bufs')
    BY <1>7, <1>f, Zenon
  <2> QED BY <1>f, <1>q, <1>10, <1>11, <2>1, StreamKeeps, Zenon
<1> QED BY <1>12, <1>q, Zenon

(* The pack of a writeback without chunks, or of a flush.                  *)
LEMMA PackKeeps ==
    ASSUME TransferInv, PackWhole
    PROVE  TransferInv' /\ bufs' = bufs
<1> DEFINE n == call.n
           g == Put([i \in 1 .. n |-> Grid(i)], <<"d_grids_persistent", 0>>, n)
           s == Put([i \in 1 .. n |-> Slot(i)], <<"d_curr_slots_buf", 0>>, n)
           k == Kernel("pack", <<"d_packed_vers", 0>>, <<"d_grids_persistent", 0>>,
                       <<"d_curr_slots_buf", 0>>, n)
           c == Copy(<<"d_packed_vers", 0>>, 0, <<"h_packed_vers", 0>>, n)
           t == <<g, s, k>> \o (IF call.op = "flush" THEN <<>> ELSE <<c>>)
<1>f. /\ pc = "pack" /\ pc' = IF call.op = "flush" THEN "flush" ELSE "packed"
      /\ queue' = [queue EXCEPT !["stream"] =
                     @ \o <<g, s, k>> \o (IF call.op = "flush" THEN <<>> ELSE <<c>>)]
      /\ UNCHANGED <<client, call, base, end, buf, held, bufs, recorded, done>>
  BY Zenon DEF PackWhole, PackCommands
<1>q. \A x \in Streams : queue[x] = <<>>
  BY <1>f, BusyIs, Zenon DEF TransferInv, QueuesFit
<1>s. "stream" \in Streams \ {"d2h"} /\ {"vers", "grids", "currSlots"} \subseteq CapNames
  BY Zenon DEF Streams, CapNames
<1>c. /\ ~client.chunk /\ bufs.cap["vers"] >= n /\ bufs.cap["grids"] >= n
      /\ bufs.cap["currSlots"] >= n
  BY <1>f, Zenon DEF TransferInv, Covered
<1>n. n \in Nat
  BY HostTypes, Zenon
<1>d. [i \in 1 .. n |-> Grid(i)] \in Data /\ [i \in 1 .. n |-> Slot(i)] \in Data
  <2>1. \A i \in 1 .. n : Grid(i) \in Int
    BY <1>n DEF Grid
  <2>2. \A i \in 1 .. n : Slot(i) \in Int
    BY <1>n, HostTypes DEF Slot
  <2> QED BY <1>n, <2>1, <2>2 DEF Data
<1>8. /\ n <= bufs.size[<<"d_packed_vers", 0>>] /\ n <= bufs.size[<<"h_packed_vers", 0>>]
      /\ n <= bufs.size[<<"d_grids_persistent", 0>>] /\ n <= bufs.size[<<"d_curr_slots_buf", 0>>]
  <2>1. /\ bufs.size[<<"d_packed_vers", 0>>] = bufs.cap["vers"]
        /\ bufs.size[<<"h_packed_vers", 0>>] = bufs.cap["vers"]
        /\ bufs.size[<<"d_grids_persistent", 0>>] = bufs.cap["grids"]
        /\ bufs.size[<<"d_curr_slots_buf", 0>>] = bufs.cap["currSlots"]
    BY <1>c, <1>s, HostTypes, SizedBy, Zenon DEF Follows
  <2>2. \A f \in CapNames : bufs.cap[f] \in Nat
    BY HostTypes, Zenon
  <2> QED BY <1>c, <1>n, <1>s, <2>1, <2>2, Zenon
<1>9. {g, s, k, c} \subseteq Allowed("stream", bufs.size)
  <2>1. /\ <<"h_packed_vers", 0>> \in Buffers /\ <<"d_curr_slots_buf", 0>> \in Buffers
        /\ <<"d_packed_vers", 0>> \in Buffers /\ <<"d_grids_persistent", 0>> \in Buffers /\ 0 \in Nat
    BY BufferNames, Zenon
  <2>2. g \in Allowed("stream", bufs.size) /\ s \in Allowed("stream", bufs.size)
    BY <1>s, <1>n, <1>d, <1>8, <2>1, AllowedOn, Zenon
  <2>3. c \in Allowed("stream", bufs.size)
    <3>1. 0 + n <= bufs.size[<<"d_packed_vers", 0>>]
      BY <1>8, <1>n
    <3> QED BY <1>s, <1>n, <1>8, <2>1, <3>1, AllowedOn, Zenon
  <2>4. k \in Allowed("stream", bufs.size)
    BY <1>s, <1>n, <1>8, <2>1, AllowedOn, Zenon
  <2> QED BY <2>2, <2>3, <2>4, Zenon
<1> HIDE DEF g, s, c, k
<1>10. t \in Seq(Allowed("stream", bufs'.size))
  <2>1. <<g, s, k>> \in Seq(Allowed("stream", bufs.size))
    BY <1>9
  <2>2. <<c>> \in Seq(Allowed("stream", bufs.size)) /\ <<>> \in Seq(Allowed("stream", bufs.size))
    BY <1>9
  <2>3. t \in Seq(Allowed("stream", bufs.size))
    BY <2>1, <2>2, Queued, Zenon
  <2> QED BY <2>3, <1>f, Zenon
<1>11. queue' = [queue EXCEPT !["stream"] = t]
  <2>1. queue["stream"] = <<>>
    BY <1>q, <1>s, Zenon
  <2>2. <<>> \o <<g, s, k>> = <<g, s, k>>
    OBVIOUS
  <2> QED BY <1>f, <2>1, <2>2, Zenon
<1> HIDE DEF t
<1>12. Grew(client.chunk, bufs, bufs')
  <2>1. \A f \in CapNames : bufs.cap[f] >= bufs.cap[f]
    BY HostTypes
  <2> QED BY <1>f, <2>1, HostTypes, Zenon DEF Grew
<1>13. pc' \in {"packed", "flush"} /\ pc \in {"gather", "scatter", "pack"}
  BY <1>f, Zenon
<1>14. TransferInv'
  BY <1>f, <1>q, <1>10, <1>11, <1>12, <1>13, StreamKeeps, ZenonT(40)
<1> QED BY <1>f, <1>14, Zenon

(* What is left of n after the first a.                                    *)
LEMMA Rest ==
    ASSUME NEW n \in Nat, NEW a \in Nat, a <= n
    PROVE  n - a \in Nat /\ a + (n - a) = n
OBVIOUS

(* The worker starts a half of the flush: every stream is empty.           *)
LEMMA HalfKeeps ==
    ASSUME TransferInv, \A s \in Streams : queue[s] = <<>>, pc \in {"flush", "half1"},
           NEW start \in Nat, NEW num \in Nat, NEW next \in {"half1", "half2"},
           Half(start, num, next), start + num <= call.n,
           start = IF next = "half1" THEN 0 ELSE call.n \div 2
    PROVE  TransferInv'
<1> DEFINE n == IF num = 0 THEN call.n - start ELSE num
           b == EnsureWb(bufs, HalfElems(n))
<1>f. /\ base' = start /\ end' = start + n /\ buf' = 0 /\ bufs' = b /\ pc' = next
      /\ UNCHANGED <<client, call, held, queue, recorded, done>>
  BY Zenon DEF Half, Resize, gpuSide
<1>h. call.n \in Nat
  BY HostTypes, Zenon
<1>n. n \in Nat /\ start + n <= call.n
  <2>1. CASE num = 0
    <3>1. start <= call.n
      BY <1>h, <2>1
    <3>2. call.n - start \in Nat /\ start + (call.n - start) = call.n
      BY <1>h, <3>1, Rest, Zenon
    <3>3. n = call.n - start /\ call.n <= call.n
      BY <1>h, <2>1
    <3> QED BY <3>2, <3>3, Zenon
  <2>2. CASE num # 0
    <3>1. n = num
      BY <2>2, Zenon
    <3> QED BY <3>1, Zenon
  <2> QED BY <2>1, <2>2, Zenon
<1>e. (start + n) - start = n
  BY <1>n
<1> HIDE DEF n
<1>c. HalfElems(n) \in Nat
  BY <1>n, ChunkSizes, Zenon
<1>1. Grew(client.chunk, bufs, b) /\ b.cap["wb"] >= HalfElems(n)
  BY <1>c, HostTypes, EnsureWbGrows, Zenon
<1> HIDE DEF b
<1>2. b \in BufState /\ Follows(client.chunk, b) /\ \A f \in CapNames : b.cap[f] >= bufs.cap[f]
  BY <1>1, Zenon DEF Grew
<1>3. TransferTypes'
  <2>1. base' \in 0 .. end' /\ end' \in Nat /\ buf' \in {0, 1}
    BY <1>f, <1>n
  <2>2. pc # "idle" /\ pc' # "idle"
    BY <1>f, Zenon
  <2>3. bufs' \in BufState /\ Follows(client.chunk, bufs)'
    BY <1>f, <1>2, Zenon
  <2>4. pc' \in {"half1", "half2"}
    BY <1>f, Zenon
  <2> QED BY <1>f, <2>1, <2>2, <2>3, <2>4, ZenonT(40) DEF TransferInv, TransferTypes
<1>4. QueuesFit'
  <2>1. \A s \in Streams : queue'[s] = <<>>
    BY <1>f, Zenon
  <2> QED BY <2>1, EmptyQueue, Zenon DEF QueuesFit
<1>5. FlushOrdered'
  BY <1>f, Zenon DEF TransferInv, FlushOrdered
<1>6. Covered'
  <2>1. ~client.chunk /\ bufs.cap["vers"] >= call.n
    BY Zenon DEF TransferInv, Covered
  <2>2. b.cap["vers"] >= call.n
    <3>1. "vers" \in CapNames
      BY Zenon DEF CapNames
    <3>2. bufs.cap["vers"] \in Nat /\ b.cap["vers"] \in Nat
      BY <3>1, <1>2, HostTypes, Zenon DEF BufState
    <3>3. b.cap["vers"] >= bufs.cap["vers"]
      BY <1>2, <3>1, Zenon
    <3> QED BY <2>1, <3>2, <3>3, <1>h
  <2>3. HalfStart' = start
    BY <1>f, Zenon DEF HalfStart
  <2>4. end' - HalfStart' = n /\ HalfStart' <= base' /\ end' <= call'.n
    BY <1>f, <1>e, <1>n, <2>3
  <2>5. pc' \in {"half1", "half2"}
    BY <1>f, Zenon
  <2> QED BY <1>f, <1>1, <2>1, <2>2, <2>4, <2>5, Zenon DEF Covered
<1>7. TicksOrdered'
  BY <1>f, Zenon DEF TransferInv, TicksOrdered
<1> QED BY <1>3, <1>4, <1>5, <1>6, <1>7, Zenon DEF TransferInv

(* Both halves.                                                            *)
LEMMA HalvesKeep ==
    ASSUME TransferInv, FirstHalf \/ NextHalf
    PROVE  TransferInv' /\ \A s \in Streams : queue[s] = <<>>
<1>n. call.n \in Nat /\ call.n \div 2 \in Nat /\ call.n - (call.n \div 2) \in Nat
  BY HostTypes
<1>1. CASE FirstHalf
  <2>1. pc = "flush" /\ Drained({"stream"}) /\ Half(0, call.n \div 2, "half1")
    BY <1>1, Zenon DEF FirstHalf
  <2>2. \A s \in Streams : queue[s] = <<>>
    <3>1. Busy = {"stream"}
      BY <2>1, BusyIs, Zenon
    <3> QED BY <2>1, <3>1, OthersDrained, Zenon
  <2>3. 0 + (call.n \div 2) <= call.n /\ 0 \in Nat
    BY <1>n
  <2>4. TransferInv'
    BY <2>1, <2>2, <2>3, <1>n, HalfKeeps, ZenonT(40)
  <2> QED BY <2>2, <2>4, Zenon
<1>2. CASE NextHalf
  <2>1. pc = "half1" /\ Scattered /\ Half(call.n \div 2, call.n - (call.n \div 2), "half2")
    BY <1>2, Zenon DEF NextHalf
  <2>2. \A s \in Streams : queue[s] = <<>>
    BY <2>1, FlushDrained, Zenon
  <2>3. (call.n \div 2) + (call.n - (call.n \div 2)) <= call.n
    BY <1>n
  <2>4. TransferInv'
    BY <2>1, <2>2, <2>3, <1>n, HalfKeeps, Zenon
  <2> QED BY <2>2, <2>4, Zenon
<1> QED BY <1>1, <1>2, Zenon

(* The copy and compute streams get commands that fit, for one more chunk. *)
ChunkQueued(m, cs, ks) ==
    /\ cs \in Seq(Allowed("copy", bufs.size)) /\ ks \in Seq(Allowed("compute", bufs.size))
    /\ queue' = [queue EXCEPT !["copy"] = @ \o cs, !["compute"] = @ \o ks]
    /\ base' = base + m /\ buf' = 1 - buf
    /\ UNCHANGED <<client, call, pc, end, done>>

(* Queueing the commands of a chunk keeps the invariant.                   *)
LEMMA ChunkKeeps ==
    ASSUME TransferInv, pc \in {"tx", "wb"}, NEW m \in Nat, base + m <= call.n, NEW cs, NEW ks,
           ChunkQueued(m, cs, ks), recorded' \in [Events -> Nat],
           held' \in [{0, 1} -> [from : Nat, len : Nat]],
           bufs' \in BufState, bufs'.cap = bufs.cap, bufs'.size = bufs.size
    PROVE  TransferInv'
<1>f. /\ cs \in Seq(Allowed("copy", bufs.size)) /\ ks \in Seq(Allowed("compute", bufs.size))
      /\ queue' = [queue EXCEPT !["copy"] = @ \o cs, !["compute"] = @ \o ks]
  BY Zenon DEF ChunkQueued
<1>g. /\ base' = base + m /\ buf' = 1 - buf /\ client' = client /\ call' = call /\ pc' = pc
      /\ end' = end /\ done' = done
  BY Zenon DEF ChunkQueued
<1>s. "copy" \in Streams /\ "compute" \in Streams /\ "d2h" \in Streams \ {"copy", "compute"}
  BY Zenon DEF Streams
<1>1. /\ DOMAIN queue' = Streams
      /\ queue'["copy"] = queue["copy"] \o cs /\ queue'["compute"] = queue["compute"] \o ks
      /\ \A s \in Streams \ {"copy", "compute"} : queue'[s] = queue[s]
  <2>1. DOMAIN queue = Streams
    BY HostTypes, Zenon
  <2> QED BY <2>1, <1>f, <1>s, Zenon
<1>b. Busy = {"copy", "compute"} /\ Busy' = {"copy", "compute"}
  BY <1>g, Zenon DEF Busy
<1>2. TransferTypes'
  <2>1. base' \in 0 .. end' /\ end' \in Nat /\ buf' \in {0, 1}
    <3>1. end = call.n
      BY Zenon DEF TransferInv, Covered
    <3>2. base \in Nat /\ end \in Nat /\ buf \in {0, 1}
      BY HostTypes, Zenon
    <3> QED BY <1>g, <3>1, <3>2
  <2>2. Follows(client.chunk, bufs)'
    BY <1>g, HostTypes, ZenonT(40) DEF Follows
  <2> QED BY <1>1, <1>g, <2>1, <2>2, Zenon DEF TransferInv, TransferTypes
<1>3. QueuesFit'
  <2>1. ASSUME NEW s \in Streams
        PROVE  queue'[s] \in Seq(Allowed(s, bufs'.size)) /\ (s \notin Busy' => queue'[s] = <<>>)
    <3>0. queue[s] \in Seq(Allowed(s, bufs.size)) /\ (s \notin Busy => queue[s] = <<>>)
      BY Zenon DEF TransferInv, QueuesFit
    <3>1. CASE s = "copy"
      <4>1. queue[s] \o cs \in Seq(Allowed(s, bufs.size))
        BY <1>f, <3>0, <3>1, Queued, Zenon
      <4> QED BY <1>1, <1>b, <3>1, <4>1, Zenon
    <3>2. CASE s = "compute"
      <4>1. queue[s] \o ks \in Seq(Allowed(s, bufs.size))
        BY <1>f, <3>0, <3>2, Queued, Zenon
      <4> QED BY <1>1, <1>b, <3>2, <4>1, Zenon
    <3>3. CASE s \notin {"copy", "compute"}
      BY <1>1, <1>b, <3>0, <3>3, Zenon
    <3> QED BY <3>1, <3>2, <3>3, Zenon
  <2> QED BY <2>1, Zenon DEF QueuesFit
<1>4. FlushOrdered'
  <2>1. queue'["d2h"] = <<>>
    <3>1. queue["d2h"] = <<>>
      BY <1>s, <1>b, Zenon DEF TransferInv, QueuesFit
    <3> QED BY <1>1, <1>s, <3>1, Zenon
  <2>2. InOrder(<<>>, held', done', recorded')
    BY EmptyQueue, Zenon
  <2> QED BY <2>1, <2>2, Zenon DEF FlushOrdered
<1>5. Covered'
  BY <1>g, Zenon DEF TransferInv, Covered, HalfStart
<1>6. TicksOrdered'
  BY <1>g, Zenon DEF TicksOrdered
<1> QED BY <1>2, <1>3, <1>4, <1>5, <1>6, Zenon DEF TransferInv

(* The number of entries of a chunk.                                       *)
LEMMA ChunkEntries ==
    ASSUME NEW k \in Nat \ {0}, NEW n \in Nat, NEW o \in Nat, o < n
    PROVE  LET m == Min({k, n - o}) IN m \in Nat \ {0} /\ m <= k /\ o + m <= n
<1>1. n - o \in Nat \ {0}
  OBVIOUS
<1> DEFINE m == Min({k, n - o})
<1>2. m \in {k, n - o} /\ m <= k /\ m <= n - o
  BY <1>1, MaxMin
<1> HIDE DEF m
<1>3. m \in Nat \ {0} /\ m <= k /\ o + m <= n
  BY <1>1, <1>2
<1> QED BY <1>3, Zenon DEF m

(* The buffers of chunk mode are as large as their capacities say.         *)
LEMMA ChunkBuffers ==
    ASSUME TransferInv, client.chunk # FALSE, NEW m \in Nat, m <= bufs.cap["chunkVers"], m <= bufs.cap["chunk"]
    PROVE  \A x \in VersBuffers \cup GridBuffers : x \in Buffers /\ m <= bufs.size[x]
<1>1. Sized(client.chunk, "chunkVers") = VersBuffers /\ Sized(client.chunk, "chunk") = GridBuffers
  <2>1. client.chunk \in BOOLEAN
    BY HostTypes, Zenon
  <2> QED BY <2>1, SizedBy, Zenon
<1>2. "chunkVers" \in CapNames /\ "chunk" \in CapNames
  BY Zenon DEF CapNames
<1>3. /\ \A x \in VersBuffers : bufs.size[x] = bufs.cap["chunkVers"]
      /\ \A x \in GridBuffers : bufs.size[x] = bufs.cap["chunk"]
  BY <1>1, <1>2, HostTypes, Zenon DEF Follows
<1>4. \A x \in VersBuffers \cup GridBuffers : x \in Buffers
  BY BufferNames, Zenon
<1> QED BY <1>3, <1>4, Zenon

(* The chunks of a transfer.                                               *)
LEMMA TransferChunkKeeps ==
    ASSUME TransferInv, TransferChunk
    PROVE  TransferInv' /\ bufs'.size = bufs.size
<1> DEFINE m == Min({TransferElems(call.n), call.n - base})
           at(name) == <<name, buf>>
           c1 == Copy(at("h_packed_vers_buf"), 0, at("d_packed_vers_buf"), m)
           c2 == Copy(at("h_grids_buf"), 0, at("d_grids_buf"), m)
           c3 == Copy(at("h_prev_slots_buf"), 0, at("d_prev_slots_buf"), m)
           c4 == Record(at("h2d_done"))
           k1 == WaitFor(at("h2d_done"))
           k2 == Kernel("scatter", at("d_packed_vers_buf"), at("d_grids_buf"),
                        at("d_prev_slots_buf"), m)
           k3 == Record(at("compute_done"))
<1>f. /\ pc = "tx" /\ base < call.n
      /\ queue' = [queue EXCEPT !["copy"] = @ \o <<c1, c2, c3, c4>>,
                                !["compute"] = @ \o <<k1, k2, k3>>]
      /\ recorded' = [recorded EXCEPT ![at("h2d_done")] = @ + 1, ![at("compute_done")] = @ + 1]
      /\ bufs' = [bufs EXCEPT !.tx[buf] = TRUE]
      /\ base' = base + m /\ buf' = 1 - buf
      /\ UNCHANGED <<client, call, pc, end, held, done>>
  BY Zenon DEF TransferChunk, QueueTransferChunk
<1>c. /\ client.chunk # FALSE /\ bufs.cap["chunkVers"] >= TransferElems(call.n)
      /\ bufs.cap["chunk"] >= TransferElems(call.n)
  BY <1>f, Zenon DEF TransferInv, Covered
<1>m. m \in Nat /\ m <= TransferElems(call.n) /\ base + m <= call.n
  <2>1. call.n \in Nat /\ base \in Nat /\ TransferElems(call.n) \in Nat \ {0}
    BY HostTypes, ChunkSizes, Zenon
  <2> QED BY <1>f, <2>1, ChunkEntries, Zenon
<1> HIDE DEF m
<1>b. \A x \in VersBuffers \cup GridBuffers : x \in Buffers /\ m <= bufs.size[x] /\ 0 + m <= bufs.size[x]
  <2>1. "chunkVers" \in CapNames /\ "chunk" \in CapNames
    BY Zenon DEF CapNames
  <2>2. bufs.cap["chunkVers"] \in Nat /\ bufs.cap["chunk"] \in Nat /\ TransferElems(call.n) \in Nat
    BY <2>1, HostTypes, ChunkSizes, Zenon
  <2>3. m <= bufs.cap["chunkVers"] /\ m <= bufs.cap["chunk"]
    BY <1>c, <1>m, <2>2
  <2>4. \A x \in VersBuffers \cup GridBuffers : x \in Buffers /\ m <= bufs.size[x]
    BY <1>c, <1>m, <2>3, ChunkBuffers, Zenon
  <2> QED BY <1>m, <2>4
<1>x. /\ \A x \in {"h_packed_vers_buf", "d_packed_vers_buf", "h_prev_slots_buf", "d_prev_slots_buf",
                   "h_grids_buf", "d_grids_buf"} : at(x) \in VersBuffers \cup GridBuffers
      /\ \A e \in {"h2d_done", "compute_done"} : at(e) \in Events
  <2>1. buf \in {0, 1}
    BY HostTypes, Zenon
  <2> QED BY <2>1, Zenon DEF VersBuffers, GridBuffers, Events
<1> HIDE DEF at
<1>y. "copy" \in Streams \ {"d2h"} /\ "compute" \in Streams \ {"d2h"} /\ 0 \in Nat
  BY Zenon DEF Streams
<1>r. recorded \in [Events -> Nat]
  BY HostTypes, Zenon
<1>1. {c1, c2, c3} \subseteq Allowed("copy", bufs.size)
  <2>1. c1 \in Allowed("copy", bufs.size)
    BY <1>b, <1>m, <1>x, <1>y, AllowedOn, Zenon
  <2>2. c2 \in Allowed("copy", bufs.size)
    BY <1>b, <1>m, <1>x, <1>y, AllowedOn, Zenon
  <2>3. c3 \in Allowed("copy", bufs.size)
    BY <1>b, <1>m, <1>x, <1>y, AllowedOn, Zenon
  <2> QED BY <2>1, <2>2, <2>3, Zenon
<1>2. k2 \in Allowed("compute", bufs.size)
  BY <1>b, <1>m, <1>x, <1>y, AllowedOn, Zenon
<1>3. c4 \in Allowed("copy", bufs.size) /\ k1 \in Allowed("compute", bufs.size)
      /\ k3 \in Allowed("compute", bufs.size)
  BY <1>x, <1>r, EventAllowed, Zenon
<1> HIDE DEF c1, c2, c3, c4, k1, k2, k3
<1>4. /\ <<c1, c2, c3, c4>> \in Seq(Allowed("copy", bufs.size))
      /\ <<k1, k2, k3>> \in Seq(Allowed("compute", bufs.size))
  BY <1>1, <1>2, <1>3
<1>5. ChunkQueued(m, <<c1, c2, c3, c4>>, <<k1, k2, k3>>)
  BY <1>f, <1>4, Zenon DEF ChunkQueued
<1>6. recorded' \in [Events -> Nat]
  <2>1. recorded' = [recorded EXCEPT ![at("h2d_done")] = @ + 1, ![at("compute_done")] = @ + 1]
    BY <1>f, Zenon
  <2>2. at("h2d_done") \in Events /\ at("compute_done") \in Events
    BY <1>x, Zenon
  <2> QED BY <1>r, <2>1, <2>2
<1>7. bufs' \in BufState /\ bufs'.cap = bufs.cap /\ bufs'.size = bufs.size
  <2>1. bufs \in BufState /\ buf \in {0, 1}
    BY HostTypes, Zenon
  <2> QED BY <1>f, <2>1, Zenon DEF BufState
<1>8. held' \in [{0, 1} -> [from : Nat, len : Nat]] /\ pc \in {"tx", "wb"}
  BY <1>f, HostTypes, Zenon
<1>9. TransferInv'
  BY <1>m, <1>5, <1>6, <1>7, <1>8, ChunkKeeps, Zenon
<1> QED BY <1>7, <1>9, Zenon

(* The chunks of a writeback.                                              *)
LEMMA WritebackChunkKeeps ==
    ASSUME TransferInv, WritebackChunk
    PROVE  TransferInv' /\ bufs'.size = bufs.size
<1> DEFINE m == Min({WritebackElems, call.n - base})
           at(name) == <<name, buf>>
           c1 == Copy(at("h_grids_buf"), 0, at("d_grids_buf"), m)
           c2 == Copy(at("h_curr_slots_buf"), 0, at("d_curr_slots_buf"), m)
           c3 == Record(at("h2d_done"))
           c4 == WaitFor(at("compute_done"))
           c5 == Copy(at("d_packed_vers_buf"), 0, at("h_packed_vers_buf"), m)
           c6 == Record(at("d2h_done"))
           k1 == WaitFor(at("h2d_done"))
           k2 == Kernel("pack", at("d_packed_vers_buf"), at("d_grids_buf"),
                        at("d_curr_slots_buf"), m)
           k3 == Record(at("compute_done"))
<1>f. /\ pc = "wb" /\ base < call.n
      /\ queue' = [queue EXCEPT !["copy"] = @ \o <<c1, c2, c3, c4, c5, c6>>,
                                !["compute"] = @ \o <<k1, k2, k3>>]
      /\ base' = base + m /\ buf' = 1 - buf
      /\ UNCHANGED <<client, call, pc, end, done>>
  BY Zenon DEF WritebackChunk
<1>g. /\ recorded' = [e \in Events |-> IF e[2] = buf /\ e[1] # "wb_d2h_event"
                                       THEN recorded[e] + 1 ELSE recorded[e]]
      /\ bufs' = [bufs EXCEPT !.wb[buf] = TRUE]
      /\ held' = [held EXCEPT ![buf] = [from |-> base, len |-> m]]
  BY Zenon DEF WritebackChunk
<1>c. /\ client.chunk # FALSE /\ bufs.cap["chunkVers"] >= WritebackElems
      /\ bufs.cap["chunk"] >= WritebackElems
  BY <1>f, Zenon DEF TransferInv, Covered
<1>m. m \in Nat /\ m <= WritebackElems /\ base + m <= call.n
  <2>1. call.n \in Nat /\ base \in Nat /\ WritebackElems \in Nat \ {0}
    BY HostTypes, ChunkSizes, Zenon
  <2> QED BY <1>f, <2>1, ChunkEntries, Zenon
<1> HIDE DEF m
<1>b. \A x \in VersBuffers \cup GridBuffers : x \in Buffers /\ m <= bufs.size[x] /\ 0 + m <= bufs.size[x]
  <2>1. "chunkVers" \in CapNames /\ "chunk" \in CapNames
    BY Zenon DEF CapNames
  <2>2. bufs.cap["chunkVers"] \in Nat /\ bufs.cap["chunk"] \in Nat /\ WritebackElems \in Nat
    BY <2>1, HostTypes, ChunkSizes, Zenon
  <2>3. m <= bufs.cap["chunkVers"] /\ m <= bufs.cap["chunk"]
    BY <1>c, <1>m, <2>2
  <2>4. \A x \in VersBuffers \cup GridBuffers : x \in Buffers /\ m <= bufs.size[x]
    BY <1>c, <1>m, <2>3, ChunkBuffers, Zenon
  <2> QED BY <1>m, <2>4
<1>x. /\ \A x \in {"h_packed_vers_buf", "d_packed_vers_buf", "h_curr_slots_buf", "d_curr_slots_buf",
                   "h_grids_buf", "d_grids_buf"} : at(x) \in VersBuffers \cup GridBuffers
      /\ \A e \in {"h2d_done", "compute_done", "d2h_done"} : at(e) \in Events
  <2>1. buf \in {0, 1}
    BY HostTypes, Zenon
  <2> QED BY <2>1, Zenon DEF VersBuffers, GridBuffers, Events
<1> HIDE DEF at
<1>y. "copy" \in Streams \ {"d2h"} /\ "compute" \in Streams \ {"d2h"} /\ 0 \in Nat
  BY Zenon DEF Streams
<1>r. recorded \in [Events -> Nat]
  BY HostTypes, Zenon
<1>1. {c1, c2, c5} \subseteq Allowed("copy", bufs.size)
  <2>1. c1 \in Allowed("copy", bufs.size)
    BY <1>b, <1>m, <1>x, <1>y, AllowedOn, Zenon
  <2>2. c2 \in Allowed("copy", bufs.size)
    BY <1>b, <1>m, <1>x, <1>y, AllowedOn, Zenon
  <2>3. c5 \in Allowed("copy", bufs.size)
    BY <1>b, <1>m, <1>x, <1>y, AllowedOn, Zenon
  <2> HIDE DEF c1, c2, c5
  <2> QED BY <2>1, <2>2, <2>3, Zenon
<1>2. k2 \in Allowed("compute", bufs.size)
  BY <1>b, <1>m, <1>x, <1>y, AllowedOn, Zenon
<1>3. /\ c3 \in Allowed("copy", bufs.size) /\ c4 \in Allowed("copy", bufs.size)
      /\ c6 \in Allowed("copy", bufs.size)
      /\ k1 \in Allowed("compute", bufs.size) /\ k3 \in Allowed("compute", bufs.size)
  BY <1>x, <1>r, EventAllowed, Zenon
<1> HIDE DEF c1, c2, c3, c4, c5, c6, k1, k2, k3
<1>4. /\ <<c1, c2, c3, c4, c5, c6>> \in Seq(Allowed("copy", bufs.size))
      /\ <<k1, k2, k3>> \in Seq(Allowed("compute", bufs.size))
  BY <1>1, <1>2, <1>3
<1>5. ChunkQueued(m, <<c1, c2, c3, c4, c5, c6>>, <<k1, k2, k3>>)
  BY <1>f, <1>4, Zenon DEF ChunkQueued
<1>6. recorded' \in [Events -> Nat]
  BY <1>g, <1>r
<1>7. bufs' \in BufState /\ bufs'.cap = bufs.cap /\ bufs'.size = bufs.size
  <2>1. bufs \in BufState /\ buf \in {0, 1}
    BY HostTypes, Zenon
  <2> QED BY <1>g, <2>1, Zenon DEF BufState
<1>8. held' \in [{0, 1} -> [from : Nat, len : Nat]] /\ pc \in {"tx", "wb"}
  <2>1. held \in [{0, 1} -> [from : Nat, len : Nat]] /\ base \in Nat
    BY HostTypes, Zenon
  <2> QED BY <1>f, <1>g, <1>m, <2>1, Zenon
<1>9. TransferInv'
  BY <1>m, <1>5, <1>6, <1>7, <1>8, ChunkKeeps, Zenon
<1> QED BY <1>7, <1>9, Zenon

(* The host scatters a chunk that has arrived.  In the flush no record of  *)
(* its event is queued any more: the last one has run.                     *)
LEMMA HeldKeeps ==
    ASSUME TransferInv, pc \in {"wb", "half1", "half2"}, NEW b \in {0, 1}, NEW ev, NEW packed,
           ScatterHeld(b, ev, packed), pc # "wb" => ev = "wb_d2h_event"
    PROVE  TransferInv' /\ bufs' = bufs
<1>f. /\ Synced(<<ev, b>>) /\ held' = [held EXCEPT ![b].len = 0]
      /\ UNCHANGED <<client, call, pc, base, end, buf, bufs, queue, recorded, done>>
  BY Zenon DEF ScatterHeld, gpuSide
<1>h. /\ held' \in [{0, 1} -> [from : Nat, len : Nat]]
      /\ \A x \in {0, 1} : x # b => held'[x].len = held[x].len
  <2>1. held \in [{0, 1} -> [from : Nat, len : Nat]]
    BY HostTypes, Zenon
  <2> QED BY <1>f, <2>1, Zenon
<1>1. TransferTypes'
  BY <1>f, <1>h, Zenon DEF TransferInv, TransferTypes
<1>2. QueuesFit'
  <2>1. Busy' = Busy
    BY <1>f, Zenon DEF Busy
  <2> QED BY <1>f, <2>1, Zenon DEF TransferInv, QueuesFit
<1>3. Covered' /\ TicksOrdered'
  BY <1>f, Zenon DEF TransferInv, Covered, HalfStart, TicksOrdered
<1>4. FlushOrdered'
  <2> DEFINE q == queue["d2h"]
  <2>1. InOrder(q, held, done, recorded)
    BY Zenon DEF TransferInv, FlushOrdered
  <2>2. CASE pc = "wb"
    <3>1. q = <<>>
      <4>1. "d2h" \in Streams /\ "d2h" \notin Busy
        BY <2>2, Zenon DEF Streams, Busy
      <4> QED BY <4>1, Zenon DEF TransferInv, QueuesFit
    <3>2. InOrder(<<>>, held', done, recorded)
      BY EmptyQueue, Zenon
    <3> QED BY <1>f, <3>1, <3>2, Zenon DEF FlushOrdered
  <2>3. CASE pc # "wb"
    <3>1. done[Wb(b)] = recorded[Wb(b)]
      BY <1>f, <2>3, Zenon DEF Synced, Wb
    <3>2. done[Wb(b)] \in Nat
      <4>1. Wb(b) \in Events
        BY Zenon DEF Wb, Events
      <4> QED BY <4>1, HostTypes, Zenon
    <3>3. ASSUME NEW i \in DOMAIN q, IsRecordOf(q[i], b) PROVE FALSE
      <4>1. done[Wb(b)] < q[i].tick /\ q[i].tick <= recorded[Wb(b)]
        BY <2>1, <3>3, Zenon DEF InOrder
      <4>2. q[i].tick \in Nat
        <5>1. "d2h" \in Streams
          BY Zenon DEF Streams
        <5>2. q \in Seq(Allowed("d2h", bufs.size))
          BY <5>1, Zenon DEF TransferInv, QueuesFit
        <5>3. q[i] \in Allowed("d2h", bufs.size)
          BY <5>2, LenProperties, ElementOfSeq, Zenon
        <5>4. q[i] \in Commands /\ q[i].op = "record"
          BY <5>3, <3>3, Zenon DEF Allowed, IsRecordOf
        <5> HIDE DEF q
        <5> QED BY <5>4, Zenon DEF Commands
      <4> HIDE DEF q
      <4> QED BY <3>1, <3>2, <4>1, <4>2
    <3> HIDE DEF q
    <3>4. \A x \in {0, 1}, i \in DOMAIN q : IsRecordOf(q[i], x) => x # b
      BY <3>3, Zenon
    <3>5. InOrder(q, held', done, recorded)
      BY <2>1, <3>4, <1>h, ZenonT(40) DEF InOrder
    <3> QED BY <1>f, <3>5, Zenon DEF FlushOrdered, q
  <2> QED BY <2>2, <2>3, Zenon
<1> QED BY <1>f, <1>1, <1>2, <1>3, <1>4, Zenon DEF TransferInv

(* A chunk is added to the stream of the flush, for a buffer of which      *)
(* nothing is queued: the order of the stream is kept.                     *)
ChunkAdded(q, t, h, g, d, r, z, x, cp, rc) ==
    /\ x \in {0, 1} /\ h[x].len = 0 /\ g[x].len # 0
    /\ Len(q) \in Nat /\ DOMAIN q = 1 .. Len(q) /\ DOMAIN t = 1 .. Len(q) + 2
    /\ \A i \in 1 .. Len(q) : t[i] = q[i]
    /\ t[Len(q) + 1] = cp /\ t[Len(q) + 2] = rc
    /\ cp.op = "copy" /\ cp.dst = <<"h_wb_d2h_buf", x>>
    /\ rc.op = "record" /\ rc.ev = Wb(x) /\ rc.tick = r[Wb(x)] + 1
    /\ r[Wb(x)] \in Nat /\ d[Wb(x)] \in Nat /\ d[Wb(x)] <= r[Wb(x)]
    /\ z[Wb(x)] = r[Wb(x)] + 1
    /\ \A y \in {0, 1} : y # x => g[y] = h[y] /\ z[Wb(y)] = r[Wb(y)]

(* A flush chunk, its copy followed by its event, keeps the order of the stream. *)
LEMMA OrderKept ==
    ASSUME NEW q, NEW t, NEW h, NEW g, NEW d, NEW r, NEW z, NEW x, NEW cp, NEW rc,
           InOrder(q, h, d, r), ChunkAdded(q, t, h, g, d, r, z, x, cp, rc)
    PROVE  InOrder(t, g, d, z)
<1> DEFINE n == Len(q)
<1>1. x \in {0, 1} /\ h[x].len = 0 /\ g[x].len # 0
  BY Zenon DEF ChunkAdded
<1>2. /\ n \in Nat /\ DOMAIN q = 1 .. n /\ DOMAIN t = 1 .. n + 2
      /\ \A i \in 1 .. n : t[i] = q[i]
      /\ t[n + 1] = cp /\ t[n + 2] = rc
  BY Zenon DEF ChunkAdded
<1>3. d[Wb(x)] < rc.tick /\ rc.tick <= z[Wb(x)]
  BY DEF ChunkAdded
<1>4. \A y \in {0, 1} : y # x => g[y] = h[y] /\ z[Wb(y)] = r[Wb(y)]
  BY Zenon DEF ChunkAdded
<1>5. \A y \in {0, 1} : /\ IsCopyTo(cp, y) => y = x
                        /\ ~IsRecordOf(cp, y) /\ ~IsCopyTo(rc, y)
                        /\ IsRecordOf(rc, y) <=> y = x
  BY <1>1 DEF ChunkAdded, IsCopyTo, IsRecordOf, Wb
<1> HIDE DEF n
<1>6. /\ \A i \in DOMAIN t : i \in DOMAIN q \/ i = n + 1 \/ i = n + 2
      /\ n + 2 \in DOMAIN t /\ n + 1 < n + 2 /\ DOMAIN q \subseteq DOMAIN t
      /\ \A i \in DOMAIN q : t[i] = q[i]
  BY <1>2
<1>7. ASSUME NEW i \in DOMAIN q PROVE ~IsRecordOf(q[i], x)
  BY <1>1, Zenon DEF InOrder
<1>8. ASSUME NEW y \in {0, 1}, NEW i \in DOMAIN t, IsCopyTo(t[i], y)
      PROVE  \E j \in DOMAIN t : i < j /\ IsRecordOf(t[j], y)
  <2>1. CASE i \in DOMAIN q
    <3>1. PICK j \in DOMAIN q : i < j /\ IsRecordOf(q[j], y)
      BY <1>6, <1>8, <2>1, Zenon DEF InOrder
    <3> QED BY <3>1, <1>6, Zenon
  <2>2. CASE i = n + 1
    BY <1>2, <1>5, <1>6, <1>8, <2>2, ZenonT(40)
  <2>3. CASE i = n + 2
    BY <1>2, <1>5, <1>8, <2>3, Zenon
  <2> QED BY <1>6, <2>1, <2>2, <2>3, Zenon
<1>9. ASSUME NEW y \in {0, 1}, NEW i \in DOMAIN t, IsRecordOf(t[i], y)
      PROVE  /\ g[y].len # 0
             /\ d[Wb(y)] < t[i].tick /\ t[i].tick <= z[Wb(y)]
             /\ \A j \in DOMAIN t : IsRecordOf(t[j], y) => j = i
  <2>1. CASE i \in DOMAIN q
    <3>1. y # x
      BY <1>6, <1>7, <1>9, <2>1, Zenon
    <3>2. /\ h[y].len # 0 /\ d[Wb(y)] < q[i].tick /\ q[i].tick <= r[Wb(y)]
          /\ \A j \in DOMAIN q : IsRecordOf(q[j], y) => j = i
      BY <1>6, <1>9, <2>1, Zenon DEF InOrder
    <3>3. \A j \in DOMAIN t : IsRecordOf(t[j], y) => j = i
      BY <1>2, <1>5, <1>6, <3>1, <3>2, ZenonT(40)
    <3>4. g[y].len # 0 /\ z[Wb(y)] = r[Wb(y)] /\ t[i] = q[i]
      <4>1. g[y] = h[y] /\ z[Wb(y)] = r[Wb(y)]
        BY <1>4, <3>1, Zenon
      <4>2. t[i] = q[i]
        BY <1>6, <2>1, Zenon
      <4> QED BY <4>1, <4>2, <3>2, Zenon
    <3> QED BY <3>2, <3>3, <3>4, Zenon
  <2>2. CASE i = n + 1
    BY <1>2, <1>5, <1>9, <2>2, Zenon
  <2>3. CASE i = n + 2
    <3>1. y = x
      BY <1>2, <1>5, <1>9, <2>3, Zenon
    <3>2. \A j \in DOMAIN t : IsRecordOf(t[j], y) => j = i
      BY <1>2, <1>5, <1>6, <1>7, <2>3, <3>1, ZenonT(40)
    <3> QED BY <1>1, <1>2, <1>3, <2>3, <3>1, <3>2, ZenonT(40)
  <2> QED BY <1>6, <2>1, <2>2, <2>3, Zenon
<1>10. ASSUME NEW y \in {0, 1}, NEW i \in DOMAIN t
       PROVE  /\ IsCopyTo(t[i], y) => \E j \in DOMAIN t : i < j /\ IsRecordOf(t[j], y)
              /\ IsRecordOf(t[i], y) =>
                    /\ g[y].len # 0
                    /\ d[Wb(y)] < t[i].tick /\ t[i].tick <= z[Wb(y)]
                    /\ \A j \in DOMAIN t : IsRecordOf(t[j], y) => j = i
  <2>1. IsCopyTo(t[i], y) => \E j \in DOMAIN t : i < j /\ IsRecordOf(t[j], y)
    BY <1>8, Zenon
  <2>2. IsRecordOf(t[i], y) =>
          /\ g[y].len # 0
          /\ d[Wb(y)] < t[i].tick /\ t[i].tick <= z[Wb(y)]
          /\ \A j \in DOMAIN t : IsRecordOf(t[j], y) => j = i
    BY <1>9, Zenon
  <2> QED BY <2>1, <2>2, Zenon
<1> QED BY <1>10, Zenon DEF InOrder

(* The chunks of the flush.                                                *)
LEMMA FlushChunkKeeps ==
    ASSUME TransferInv, FlushChunk
    PROVE  TransferInv' /\ bufs' = bufs
<1> DEFINE k == HalfElems(end - HalfStart)
           m == Min({k, end - base})
           from == <<"d_packed_vers", 0>>
           to == <<"h_wb_d2h_buf", buf>>
           cp == Copy(from, base, to, m)
           rc == Record(Wb(buf))
           q == queue["d2h"]
           t == q \o <<cp, rc>>
<1>f. /\ pc \in {"half1", "half2"} /\ base < end /\ held[buf].len = 0
      /\ queue' = [queue EXCEPT !["d2h"] = @ \o <<cp, rc>>]
      /\ recorded' = [recorded EXCEPT ![Wb(buf)] = @ + 1]
      /\ held' = [held EXCEPT ![buf] = [from |-> base, len |-> m]]
      /\ base' = base + m /\ buf' = 1 - buf
      /\ UNCHANGED <<client, call, pc, end, bufs, done>>
  BY Zenon DEF FlushChunk, HalfStart, Wb
<1>h. /\ call.n \in Nat /\ base \in Nat /\ end \in Nat /\ buf \in {0, 1}
      /\ recorded \in [Events -> Nat] /\ done \in [Events -> Nat]
      /\ held \in [{0, 1} -> [from : Nat, len : Nat]] /\ DOMAIN queue = Streams
  BY HostTypes, Zenon
<1>c. ~client.chunk /\ bufs.cap["vers"] >= call.n /\ bufs.cap["wb"] >= k
      /\ HalfStart <= base /\ end <= call.n
  BY <1>f, Zenon DEF TransferInv, Covered
<1>k. k \in Nat \ {0}
  <2>1. HalfStart \in Nat
    BY <1>h DEF HalfStart
  <2>2. end - HalfStart \in Nat
    BY <1>f, <1>c, <1>h, <2>1
  <2> QED BY <2>2, ChunkSizes, Zenon
<1> HIDE DEF k
<1>m. m \in Nat \ {0} /\ m <= k /\ base + m <= end
  BY <1>f, <1>h, <1>k, ChunkEntries, Zenon
<1> HIDE DEF m
<1>w. Wb(buf) \in Events /\ \A y \in {0, 1} : y # buf => Wb(y) # Wb(buf) /\ Wb(y) \in Events
  BY <1>h, Zenon DEF Wb, Events
<1>s. "d2h" \in Streams
  BY Zenon DEF Streams
<1>1. cp \in Allowed("d2h", bufs.size) /\ cp.op = "copy" /\ cp.dst = to
  <2>1. from \in Buffers /\ to \in Buffers /\ to \in WbBuffers
    BY <1>h, BufferNames, Zenon
  <2>2. {"vers", "wb"} \subseteq CapNames
    BY Zenon DEF CapNames
  <2>3. bufs.size[from] = bufs.cap["vers"] /\ bufs.size[to] = bufs.cap["wb"]
    BY <2>1, <2>2, HostTypes, SizedBy, Zenon DEF Follows
  <2>4. bufs.cap["vers"] \in Nat /\ bufs.cap["wb"] \in Nat
    BY <2>2, HostTypes, Zenon
  <2>5. base + m <= bufs.size[from] /\ m <= bufs.size[to]
    BY <1>c, <1>h, <1>k, <1>m, <2>3, <2>4
  <2>6. base \in Nat /\ m \in Nat
    BY <1>h, <1>m, Zenon
  <2> HIDE DEF from, to
  <2>7. cp \in Commands /\ cp.op = "copy" /\ cp.dst = to
    BY <2>1, <2>6, CommandsAre
  <2>8. Fits(cp, bufs.size)
    BY <2>1, <2>5, <2>6, CopyFits, Zenon
  <2> HIDE DEF cp
  <2>9. OnStream("d2h", cp)
    BY <1>h, <2>7, Zenon DEF OnStream, to
  <2> QED BY <2>7, <2>8, <2>9, Zenon DEF Allowed
<1>2. /\ rc \in Allowed("d2h", bufs.size) /\ rc.op = "record" /\ rc.ev = Wb(buf)
      /\ rc.tick = recorded[Wb(buf)] + 1
  <2>1. recorded[Wb(buf)] + 1 \in Nat
    BY <1>h, <1>w
  <2>2. /\ rc \in Commands /\ rc.op = "record" /\ rc.ev = Wb(buf)
        /\ rc.tick = recorded[Wb(buf)] + 1 /\ UsesOf(rc) = {}
    BY <1>w, <2>1, EventCommandsAre DEF Record
  <2> HIDE DEF rc
  <2>3. Fits(rc, bufs.size) /\ OnStream("d2h", rc)
    BY <1>h, <2>2, Zenon DEF Fits, OnStream, Wb
  <2> QED BY <2>2, <2>3, Zenon DEF Allowed
<1> HIDE DEF cp, rc
<1>3. q \in Seq(Allowed("d2h", bufs.size)) /\ <<cp, rc>> \in Seq(Allowed("d2h", bufs.size))
  BY <1>1, <1>2, <1>s DEF TransferInv, QueuesFit
<1>4. t \in Seq(Allowed("d2h", bufs.size))
  BY <1>3, Queued, Zenon
<1>5. /\ Len(q) \in Nat /\ DOMAIN q = 1 .. Len(q) /\ DOMAIN t = 1 .. Len(q) + 2
      /\ \A i \in 1 .. Len(q) : t[i] = q[i]
      /\ t[Len(q) + 1] = cp /\ t[Len(q) + 2] = rc
  <2> HIDE DEF q
  <2> QED BY <1>3
<1>6. /\ DOMAIN queue' = Streams /\ queue'["d2h"] = t
      /\ \A s \in Streams : s # "d2h" => queue'[s] = queue[s]
  BY <1>f, <1>h, <1>s, Zenon
<1> HIDE DEF q, t
<1>7. TransferTypes'
  <2>1. base' \in 0 .. end' /\ buf' \in {0, 1}
    BY <1>f, <1>h, <1>m
  <2>2. held' \in [{0, 1} -> [from : Nat, len : Nat]]
    BY <1>f, <1>h, <1>m, ZenonT(40)
  <2>3. recorded' \in [Events -> Nat]
    BY <1>f, <1>h, <1>w
  <2> QED BY <1>f, <1>6, <2>1, <2>2, <2>3, ZenonT(40) DEF TransferInv, TransferTypes
<1>8. QueuesFit'
  <2>1. Busy = {"d2h"} /\ Busy' = {"d2h"}
    BY <1>f, Zenon DEF Busy
  <2>2. ASSUME NEW s \in Streams
        PROVE  queue'[s] \in Seq(Allowed(s, bufs'.size)) /\ (s \notin Busy' => queue'[s] = <<>>)
    <3>1. CASE s = "d2h"
      BY <1>f, <1>4, <1>6, <2>1, <3>1, Zenon
    <3>2. CASE s # "d2h"
      BY <1>f, <1>6, <2>1, <3>2, Zenon DEF TransferInv, QueuesFit
    <3> QED BY <3>1, <3>2, Zenon
  <2> QED BY <2>2, Zenon DEF QueuesFit
<1>9. Covered'
  <2>1. HalfStart <= base'
    <3>1. HalfStart \in Nat
      BY <1>h DEF HalfStart
    <3> QED BY <1>c, <1>f, <1>h, <1>m, <3>1
  <2>2. HalfStart' = HalfStart
    BY <1>f, Zenon DEF HalfStart
  <2> QED BY <1>f, <2>1, <2>2, ZenonT(40) DEF TransferInv, Covered
<1>10. TicksOrdered'
  <2>1. ASSUME NEW y \in {0, 1} PROVE done[Wb(y)] <= recorded'[Wb(y)]
    <3>1. Wb(y) \in Events /\ done[Wb(y)] <= recorded[Wb(y)]
      BY <1>f, <1>w, Zenon DEF TransferInv, TicksOrdered
    <3>2. recorded'[Wb(y)] \in {recorded[Wb(y)], recorded[Wb(y)] + 1}
      BY <1>f, <1>h, <3>1, Zenon
    <3> QED BY <1>h, <3>1, <3>2
  <2> QED BY <1>f, <2>1, Zenon DEF TicksOrdered
<1>11. FlushOrdered'
  <2>1. InOrder(q, held, done, recorded)
    BY Zenon DEF TransferInv, FlushOrdered, q
  <2>2. held'[buf].len # 0 /\ \A y \in {0, 1} : y # buf => held'[y] = held[y]
    BY <1>f, <1>h, <1>m, Zenon
  <2>3. /\ recorded'[Wb(buf)] = recorded[Wb(buf)] + 1
        /\ \A y \in {0, 1} : y # buf => recorded'[Wb(y)] = recorded[Wb(y)]
    BY <1>f, <1>h, <1>w, Zenon
  <2>4. recorded[Wb(buf)] \in Nat /\ done[Wb(buf)] \in Nat /\ done[Wb(buf)] <= recorded[Wb(buf)]
    BY <1>f, <1>h, <1>w, Zenon DEF TransferInv, TicksOrdered
  <2>5. ChunkAdded(q, t, held, held', done, recorded, recorded', buf, cp, rc)
    BY <1>f, <1>h, <1>1, <1>2, <1>5, <2>2, <2>3, <2>4, ZenonT(40) DEF ChunkAdded
  <2>6. InOrder(t, held', done, recorded')
    BY <2>1, <2>5, OrderKept, Zenon
  <2> QED BY <1>f, <1>6, <2>6, Zenon DEF FlushOrdered
<1> QED BY <1>f, <1>7, <1>8, <1>9, <1>10, <1>11, ZenonT(40) DEF TransferInv

(* The host's steps together: each keeps the invariant, and changes the    *)
(* size of a buffer only when nothing is queued.                           *)
LEMMA HostKeeps ==
    ASSUME TransferInv, Host
    PROVE  /\ TransferInv'
           /\ bufs'.size = bufs.size \/ \A s \in Streams : queue[s] = <<>>
<1>r. ASSUME pc # "idle", pc' = "idle", \A s \in Streams : queue[s] = <<>>,
             UNCHANGED <<client, call, base, end, buf, held, bufs, queue, recorded, done>>
      PROVE  TransferInv' /\ \A s \in Streams : queue[s] = <<>>
  BY <1>r, ReturnKeeps, Zenon
<1>b. buf \in {0, 1} /\ 1 - buf \in {0, 1}
  BY HostTypes
<1>1. CASE TransferChunk
  BY <1>1, TransferChunkKeeps, Zenon
<1>2. CASE WritebackChunk
  BY <1>2, WritebackChunkKeeps, Zenon
<1>3. CASE GatherWhole
  BY <1>3, GatherKeeps, Zenon
<1>4. CASE ScatterWhole
  BY <1>4, ScatterKeeps, Zenon
<1>5. CASE PackWhole
  BY <1>5, PackKeeps, Zenon
<1>6. CASE FirstHalf \/ NextHalf
  BY <1>6, HalvesKeep, Zenon
<1>7. CASE FlushChunk
  BY <1>7, FlushChunkKeeps, Zenon
<1>8. CASE WritebackScatter \/ FlushScatter
  <2>1. PICK b \in {0, 1}, ev \in {"d2h_done", "wb_d2h_event"},
             packed \in {"h_packed_vers_buf", "h_wb_d2h_buf"} :
          /\ pc \in {"wb", "half1", "half2"} /\ ScatterHeld(b, ev, packed)
          /\ pc # "wb" => ev = "wb_d2h_event"
    <3>1. CASE WritebackScatter
      BY <1>b, <3>1, Zenon DEF WritebackScatter, ScatterPrevious, ScatterLast
    <3>2. CASE FlushScatter
      BY <1>b, <3>2, Zenon DEF FlushScatter, ScatterPrevious, ScatterLast
    <3> QED BY <1>8, <3>1, <3>2, Zenon
  <2> QED BY <2>1, HeldKeeps, Zenon
<1>9. CASE TransferReturn \/ WritebackReturn
  <2>1. /\ pc \in {"tx", "wb"} /\ pc' = "idle" /\ Drained({"copy", "compute"})
        /\ UNCHANGED <<client, call, base, end, buf, held, bufs, queue, recorded, done>>
    BY <1>9, Zenon DEF TransferReturn, WritebackReturn, Return, gpuSide
  <2>2. Busy = {"copy", "compute"}
    BY <2>1, BusyIs, Zenon
  <2>3. \A s \in Streams : queue[s] = <<>>
    BY <2>1, <2>2, OthersDrained, Zenon
  <2> QED BY <1>r, <2>1, <2>3, Zenon
<1>10. CASE ScatterWholeReturn \/ WritebackWholeReturn
  <2>1. /\ pc \in {"scattered", "packed"} /\ pc' = "idle" /\ Drained({"stream"})
        /\ UNCHANGED <<client, call, base, end, buf, held, bufs, queue, recorded, done>>
    BY <1>10, Zenon DEF ScatterWholeReturn, WritebackWholeReturn, Return, gpuSide
  <2>2. Busy = {"stream"}
    BY <2>1, BusyIs, Zenon
  <2>3. \A s \in Streams : queue[s] = <<>>
    BY <2>1, <2>2, OthersDrained, Zenon
  <2> QED BY <1>r, <2>1, <2>3, Zenon
<1>11. CASE FlushReturn
  <2>1. /\ pc = "half2" /\ pc' = "idle" /\ Scattered
        /\ UNCHANGED <<client, call, base, end, buf, held, bufs, queue, recorded, done>>
    BY <1>11, Zenon DEF FlushReturn, Return, gpuSide
  <2>2. \A s \in Streams : queue[s] = <<>>
    BY <2>1, FlushDrained, Zenon
  <2> QED BY <1>r, <2>1, <2>2, Zenon
<1> QED BY <1>1, <1>2, <1>3, <1>4, <1>5, <1>6, <1>7, <1>8, <1>9, <1>10, <1>11, ZenonT(40) DEF Host

(* Every step.                                                             *)
LEMMA NextKeeps ==
    ASSUME TransferInv, [Next]_vars
    PROVE  /\ TransferInv'
           /\ bufs'.size = bufs.size \/ \A s \in Streams : queue[s] = <<>>
<1>1. CASE Calls
  BY <1>1, CallsBegin, Zenon
<1>2. CASE Reset
  BY <1>2, ResetKeeps, Zenon
<1>3. CASE Host
  BY <1>3, HostKeeps, Zenon
<1>4. ASSUME NEW s \in Streams, Run(s)
      PROVE  TransferInv' /\ bufs'.size = bufs.size
  <2>1. bufs' = bufs
    BY <1>4, Zenon DEF Run
  <2> QED BY <1>4, <2>1, RunKeeps, Zenon
<1>5. CASE UNCHANGED vars
  <2>1. /\ client' = client /\ call' = call /\ pc' = pc /\ base' = base /\ end' = end /\ buf' = buf
        /\ held' = held /\ bufs' = bufs /\ queue' = queue /\ recorded' = recorded /\ done' = done
    BY <1>5, Zenon DEF vars
  <2>2. TransferTypes' /\ QueuesFit'
    BY <2>1, Zenon DEF TransferInv, TransferTypes, QueuesFit, Busy
  <2>3. Covered' /\ FlushOrdered' /\ TicksOrdered'
    BY <2>1, Zenon DEF TransferInv, Covered, HalfStart, FlushOrdered, TicksOrdered
  <2> QED BY <2>1, <2>2, <2>3, Zenon DEF TransferInv
<1> QED BY <1>1, <1>2, <1>3, <1>4, <1>5, Zenon DEF Next

--------------------------------------------------------------------------------
(* The inductive invariant, in every reachable state.                      *)
LEMMA InvHolds == Spec => []TransferInv
<1>1. Init => TransferInv
  BY InitHolds, Zenon
<1>2. TransferInv /\ [Next]_vars => TransferInv'
  BY NextKeeps, Zenon
<1> QED BY <1>1, <1>2, PTL DEF Spec

(* What is queued stays within the buffers, in one state.                  *)
LEMMA QueuedFits ==
    ASSUME TransferInv
    PROVE  BuffersHold
<1> SUFFICES ASSUME NEW u \in Uses, u[1] # <<"h_prev_slots", 0>>
             PROVE  u[2] <= bufs.size[u[1]]
  BY Zenon DEF BuffersHold
<1>1. PICK s \in Streams : \E i \in DOMAIN queue[s] : u \in UsesOf(queue[s][i])
  BY UseOf, Zenon
<1>2. PICK i \in DOMAIN queue[s] : u \in UsesOf(queue[s][i])
  BY <1>1, Zenon
<1>3. queue[s] \in Seq(Allowed(s, bufs.size))
  BY Zenon DEF TransferInv, QueuesFit
<1>4. queue[s][i] \in Allowed(s, bufs.size)
  BY <1>3, LenProperties, ElementOfSeq, Zenon
<1>5. Fits(queue[s][i], bufs.size)
  BY <1>4, Zenon DEF Allowed
<1> QED BY <1>2, <1>5, Zenon DEF Fits

(* No copy and no kernel that a call has queued reaches past the end of a  *)
(* buffer other than h_prev_slots (scatter_gather.cu, the ensure functions *)
(* and the loops of transfer_versions, writeback_versions and              *)
(* wb_chunked_d2h_scatter), for calls of any sizes, chunks of any sizes    *)
(* and streams of any pace.  The exception matters to a transfer without   *)
(* chunks alone: there the early return of ensure_versions_capacity can    *)
(* leave h_prev_slots too small.  No stager makes such a transfer; the     *)
(* transfers in chunks, the writebacks and the flushes never use it.       *)
THEOREM TransfersStayInBuffers == Spec => []BuffersHold
<1>1. TransferInv => BuffersHold
  BY QueuedFits, Zenon
<1> QED BY <1>1, InvHolds, PTL

(* A buffer is freed and allocated anew only when no queued command uses   *)
(* it: ensure_wb_d2h_buf and the other growth functions free while a call  *)
(* runs, and the flush never drains the stream that uses its buffers.      *)
THEOREM BuffersGrowUnused == Spec => GrowsUnused
<1>1. ASSUME TransferInv, [Next]_vars, NEW x \in Buffers, bufs'.size[x] # bufs.size[x]
      PROVE  \A u \in Uses : u[1] # x
  <2>1. \A s \in Streams : queue[s] = <<>>
    BY <1>1, NextKeeps, Zenon
  <2>2. Uses = {}
    BY <2>1, EmptyUses, Zenon
  <2> QED BY <2>2, Zenon
<1>2. TransferInv /\ [Next]_vars =>
        [\A x \in Buffers : bufs'.size[x] # bufs.size[x] => \A u \in Uses : u[1] # x]_vars
  BY <1>1, Zenon
<1> QED BY <1>2, InvHolds, PTL DEF Spec, GrowsUnused

--------------------------------------------------------------------------------
(* The chunks queued so far, by the event recorded behind each.  A flush   *)
(* starts with none, and its first half ends where the second begins, but  *)
(* for a flush of one record.                                              *)
ChunksOf(r, ev) == r[<<ev, 0>>] + r[<<ev, 1>>]
MoveOn ==
    /\ ChunksMoveOn
    /\ pc \in {"pack", "flush"} => ChunksOf(recorded, "wb_d2h_event") = 0
    /\ pc = "half1" => end = IF call.n \div 2 = 0 THEN call.n ELSE call.n \div 2

(* The invariant, in the states of a chunk loop and out of them.           *)
LEMMA MoveOnIs ==
    /\ pc \notin {"tx", "wb", "pack", "flush", "half1", "half2"} => MoveOn
    /\ pc = "tx" => (MoveOn <=> ChunksOf(recorded, "compute_done") <= base)
    /\ pc = "wb" => (MoveOn <=> ChunksOf(recorded, "d2h_done") <= base)
    /\ pc \in {"pack", "flush"} => (MoveOn <=> ChunksOf(recorded, "wb_d2h_event") = 0)
    /\ pc = "half1" =>
          (MoveOn <=> /\ ChunksOf(recorded, "wb_d2h_event") <= base
                      /\ end = IF call.n \div 2 = 0 THEN call.n ELSE call.n \div 2)
    /\ pc = "half2" => (MoveOn <=> ChunksOf(recorded, "wb_d2h_event")
                                       <= IF call.n = 1 THEN base + 1 ELSE base)
BY SMT DEF MoveOn, ChunksMoveOn, ChunksOf

(* One more record of the event of a buffer is one more chunk.             *)
LEMMA OneMore ==
    ASSUME NEW ev \in {"compute_done", "d2h_done", "wb_d2h_event"}, NEW b \in {0, 1},
           NEW r \in [Events -> Nat], NEW q,
           q[<<ev, b>>] = r[<<ev, b>>] + 1, q[<<ev, 1 - b>>] = r[<<ev, 1 - b>>]
    PROVE  ChunksOf(r, ev) \in Nat /\ ChunksOf(q, ev) = ChunksOf(r, ev) + 1
<1>1. <<ev, 0>> \in Events /\ <<ev, 1>> \in Events
  BY Zenon DEF Events
<1>2. r[<<ev, 0>>] \in Nat /\ r[<<ev, 1>>] \in Nat
  BY <1>1, Zenon
<1>3. CASE b = 0
  BY <1>2, <1>3 DEF ChunksOf
<1>4. CASE b = 1
  BY <1>2, <1>4 DEF ChunksOf
<1> QED BY <1>3, <1>4, Zenon

(* A call starts with no chunk queued.                                     *)
LEMMA CallMovesOn ==
    ASSUME Calls
    PROVE  MoveOn'
<1>1. PICK n, bad :
        \/ Transfer(n, bad) \/ TransferWhole(n, bad)
        \/ Writeback(n, bad) \/ WritebackWhole(n, bad) \/ Flush(n, bad)
  BY Zenon DEF Calls
<1>2. /\ pc' \in {"tx", "wb", "gather", "pack"} /\ base' = 0
      /\ recorded' = [e \in Events |-> 0]
  BY <1>1, Zenon DEF Transfer, TransferWhole, Writeback, WritebackWhole, Flush, Begin
<1>3. ASSUME NEW ev \in {"compute_done", "d2h_done", "wb_d2h_event"}
      PROVE  ChunksOf(recorded', ev) = 0
  <2>1. <<ev, 0>> \in Events /\ <<ev, 1>> \in Events
    BY Zenon DEF Events
  <2>2. recorded'[<<ev, 0>>] = 0 /\ recorded'[<<ev, 1>>] = 0
    BY <1>2, <2>1, Zenon
  <2> QED BY <2>2 DEF ChunksOf
<1>4. /\ ChunksOf(recorded', "compute_done") = 0 /\ ChunksOf(recorded', "d2h_done") = 0
      /\ ChunksOf(recorded', "wb_d2h_event") = 0
  BY <1>3, Zenon
<1> QED BY <1>2, <1>4 DEF MoveOn, ChunksMoveOn, ChunksOf

(* A step of a loop queues one chunk and is past at least one more entry.  *)
LEMMA ChunkMovesOn ==
    ASSUME TransferInv, MoveOn, TransferChunk \/ WritebackChunk \/ FlushChunk
    PROVE  MoveOn'
<1>h. /\ call.n \in Nat /\ base \in Nat /\ end \in Nat /\ buf \in {0, 1}
      /\ recorded \in [Events -> Nat]
  BY HostTypes, Zenon
<1>o. 1 - buf \in {0, 1} /\ 1 - buf # buf
  BY <1>h
<1>1. CASE TransferChunk
  <2> DEFINE m == Min({TransferElems(call.n), call.n - base})
  <2>1. /\ pc = "tx" /\ base < call.n /\ base' = base + m /\ UNCHANGED <<pc, call, end>>
        /\ recorded' = [recorded EXCEPT ![<<"h2d_done", buf>>] = @ + 1,
                                        ![<<"compute_done", buf>>] = @ + 1]
    BY <1>1, Zenon DEF TransferChunk, QueueTransferChunk
  <2>2. m \in Nat \ {0}
    BY <1>h, <2>1, ChunkSizes, ChunkEntries, Zenon
  <2> HIDE DEF m
  <2>3. /\ recorded'[<<"compute_done", buf>>] = recorded[<<"compute_done", buf>>] + 1
        /\ recorded'[<<"compute_done", 1 - buf>>] = recorded[<<"compute_done", 1 - buf>>]
    BY <1>h, <1>o, <2>1 DEF Events
  <2>4. /\ ChunksOf(recorded, "compute_done") \in Nat
        /\ ChunksOf(recorded', "compute_done") = ChunksOf(recorded, "compute_done") + 1
    BY <1>h, <2>3, OneMore, Zenon
  <2>5. ChunksOf(recorded, "compute_done") <= base
    BY <2>1, Zenon DEF MoveOn, ChunksMoveOn, ChunksOf
  <2>6. ChunksOf(recorded', "compute_done") <= base'
    BY <1>h, <2>1, <2>2, <2>4, <2>5
  <2> QED BY <2>1, <2>6, Zenon DEF MoveOn, ChunksMoveOn, ChunksOf
<1>2. CASE WritebackChunk
  <2> DEFINE m == Min({WritebackElems, call.n - base})
  <2>1. /\ pc = "wb" /\ base < call.n /\ base' = base + m /\ UNCHANGED <<pc, call, end>>
        /\ recorded' = [e \in Events |-> IF e[2] = buf /\ e[1] # "wb_d2h_event"
                                         THEN recorded[e] + 1 ELSE recorded[e]]
    BY <1>2, Zenon DEF WritebackChunk
  <2>2. m \in Nat \ {0}
    BY <1>h, <2>1, ChunkSizes, ChunkEntries, Zenon
  <2> HIDE DEF m
  <2>3. /\ recorded'[<<"d2h_done", buf>>] = recorded[<<"d2h_done", buf>>] + 1
        /\ recorded'[<<"d2h_done", 1 - buf>>] = recorded[<<"d2h_done", 1 - buf>>]
    BY <1>h, <1>o, <2>1 DEF Events
  <2>4. /\ ChunksOf(recorded, "d2h_done") \in Nat
        /\ ChunksOf(recorded', "d2h_done") = ChunksOf(recorded, "d2h_done") + 1
    BY <1>h, <2>3, OneMore, Zenon
  <2>5. ChunksOf(recorded, "d2h_done") <= base
    BY <2>1, Zenon DEF MoveOn, ChunksMoveOn, ChunksOf
  <2>6. ChunksOf(recorded', "d2h_done") <= base'
    BY <1>h, <2>1, <2>2, <2>4, <2>5
  <2> QED BY <2>1, <2>6, Zenon DEF MoveOn, ChunksMoveOn, ChunksOf
<1>3. CASE FlushChunk
  <2> DEFINE k == HalfElems(end - HalfStart)
             m == Min({k, end - base})
             x == IF pc = "half2" /\ call.n = 1 THEN 1 ELSE 0
  <2>1. /\ pc \in {"half1", "half2"} /\ base < end /\ base' = base + m
        /\ UNCHANGED <<pc, call, end>>
        /\ recorded' = [recorded EXCEPT ![<<"wb_d2h_event", buf>>] = @ + 1]
    BY <1>3, Zenon DEF FlushChunk, HalfStart
  <2>2. m \in Nat \ {0}
    <3>1. HalfStart \in Nat /\ HalfStart <= base
      BY <1>h, <2>1 DEF HalfStart, TransferInv, Covered
    <3>2. end - HalfStart \in Nat
      BY <1>h, <2>1, <3>1
    <3>3. k \in Nat \ {0}
      BY <3>2, ChunkSizes, Zenon
    <3> HIDE DEF k
    <3> QED BY <1>h, <2>1, <3>3, ChunkEntries, Zenon
  <2> HIDE DEF m
  <2>3. /\ recorded'[<<"wb_d2h_event", buf>>] = recorded[<<"wb_d2h_event", buf>>] + 1
        /\ recorded'[<<"wb_d2h_event", 1 - buf>>] = recorded[<<"wb_d2h_event", 1 - buf>>]
    BY <1>h, <1>o, <2>1 DEF Events
  <2>4. /\ ChunksOf(recorded, "wb_d2h_event") \in Nat
        /\ ChunksOf(recorded', "wb_d2h_event") = ChunksOf(recorded, "wb_d2h_event") + 1
    BY <1>h, <2>3, OneMore, Zenon
  <2> DEFINE c == ChunksOf(recorded, "wb_d2h_event")
             d == ChunksOf(recorded', "wb_d2h_event")
  <2>5. c <= base + x /\ x \in Nat
    BY <1>h, <2>1, MoveOnIs DEF MoveOn
  <2>6. d <= base' + x
    BY <1>h, <2>1, <2>2, <2>4, <2>5
  <2> HIDE DEF c, d
  <2>7. CASE pc = "half1"
    <3>1. d <= base' /\ pc' = "half1" /\ x = 0
      BY <1>h, <2>1, <2>2, <2>6, <2>7
    <3> QED BY <2>1, <2>7, <3>1, Zenon DEF MoveOn, ChunksMoveOn, ChunksOf, d
  <2>8. CASE pc = "half2"
    <3>1. d <= IF call.n = 1 THEN base' + 1 ELSE base'
      BY <1>h, <2>1, <2>2, <2>6, <2>8
    <3> QED BY <2>1, <2>8, <3>1, Zenon DEF MoveOn, ChunksMoveOn, ChunksOf, d
  <2> QED BY <2>1, <2>7, <2>8, Zenon
<1> QED BY <1>1, <1>2, <1>3, Zenon

(* A half starts where the one before it ended, but for the second half of *)
(* a flush of one record.                                                  *)
LEMMA HalfMovesOn ==
    ASSUME TransferInv, MoveOn, FirstHalf \/ NextHalf
    PROVE  MoveOn'
<1> DEFINE c == ChunksOf(recorded, "wb_d2h_event")
           h == call.n \div 2
<1>h. call.n \in Nat /\ base \in Nat /\ end \in Nat /\ h \in Nat
  BY HostTypes
<1>1. CASE FirstHalf
  <2>1. /\ pc = "flush" /\ pc' = "half1" /\ base' = 0 /\ UNCHANGED <<call, recorded>>
        /\ end' = 0 + IF h = 0 THEN call.n - 0 ELSE h
    BY <1>1, Zenon DEF FirstHalf, Half, gpuSide
  <2>2. c = 0
    BY <2>1, Zenon DEF MoveOn
  <2>3. end' = (IF h = 0 THEN call.n ELSE h) /\ c <= base'
    BY <1>h, <2>1, <2>2
  <2> QED BY <2>1, <2>3, Zenon DEF MoveOn, ChunksMoveOn, ChunksOf
<1>2. CASE NextHalf
  <2>1. /\ pc = "half1" /\ pc' = "half2" /\ base' = h /\ UNCHANGED <<call, recorded>>
        /\ base = end
    BY <1>2, Zenon DEF NextHalf, Half, Scattered, gpuSide
  <2>2. c <= base /\ end = IF h = 0 THEN call.n ELSE h
    BY <2>1, Zenon DEF MoveOn, ChunksMoveOn, ChunksOf
  <2>3. call.n # 0
    BY <2>1, Zenon DEF TransferInv, TransferTypes
  <2>4. c <= IF call.n = 1 THEN base' + 1 ELSE base'
    BY <1>h, <2>1, <2>2, <2>3
  <2> QED BY <2>1, <2>4, Zenon DEF MoveOn, ChunksMoveOn, ChunksOf
<1> QED BY <1>1, <1>2, Zenon

(* The other steps queue no chunk of a loop.                               *)
LEMMA NextMovesOn ==
    ASSUME TransferInv, MoveOn, [Next]_vars
    PROVE  MoveOn'
<1>s. ASSUME UNCHANGED <<pc, call, base, end, recorded>> PROVE MoveOn'
  BY <1>s, Zenon DEF MoveOn, ChunksMoveOn, ChunksOf
<1>o. ASSUME pc' \in {"idle", "scatter", "scattered", "packed"} PROVE MoveOn'
  BY <1>o, Zenon DEF MoveOn, ChunksMoveOn
<1>1. CASE Calls
  BY <1>1, CallMovesOn, Zenon
<1>2. CASE TransferChunk \/ WritebackChunk \/ FlushChunk
  BY <1>2, ChunkMovesOn, Zenon
<1>3. CASE FirstHalf \/ NextHalf
  BY <1>3, HalfMovesOn, Zenon
<1>4. CASE Reset
  BY <1>4, <1>o, Zenon DEF Reset
<1>5. CASE TransferReturn \/ WritebackReturn \/ ScatterWholeReturn \/ WritebackWholeReturn \/ FlushReturn
  BY <1>5, <1>o, Zenon DEF TransferReturn, WritebackReturn, ScatterWholeReturn,
       WritebackWholeReturn, FlushReturn, Return
<1>6. CASE GatherWhole \/ ScatterWhole
  BY <1>6, <1>o, Zenon DEF GatherWhole, ScatterWhole
<1>7. CASE PackWhole
  <2>1. pc = "pack" /\ pc' \in {"flush", "packed"} /\ UNCHANGED <<call, recorded>>
    BY <1>7, Zenon DEF PackWhole
  <2>2. CASE pc' = "packed"
    BY <1>o, <2>2, Zenon
  <2>3. CASE pc' = "flush"
    BY <2>1, <2>3, Zenon DEF MoveOn, ChunksMoveOn, ChunksOf
  <2> QED BY <2>1, <2>2, <2>3, Zenon
<1>8. CASE WritebackScatter \/ FlushScatter
  BY <1>8, <1>s, Zenon DEF WritebackScatter, FlushScatter, ScatterPrevious, ScatterLast,
       ScatterHeld, gpuSide
<1>9. ASSUME NEW s \in Streams, Run(s) PROVE MoveOn'
  BY <1>9, <1>s, Zenon DEF Run
<1>10. CASE UNCHANGED vars
  BY <1>10, <1>s, Zenon DEF vars
<1> QED BY <1>1, <1>2, <1>3, <1>4, <1>5, <1>6, <1>7, <1>8, <1>9, <1>10, ZenonT(40) DEF Next, Host

(* Whatever the sizes of entries and chunks, every chunk a loop queues     *)
(* takes it past at least one more entry (scatter_gather.cu, chunk_elems   *)
(* in transfer_versions, writeback_versions and wb_chunked_d2h_scatter):   *)
(* a call of n entries queues at most n chunks, or two when n is one.      *)
THEOREM ChunkLoopsMoveOn == Spec => []ChunksMoveOn
<1>1. Init => MoveOn
  BY Zenon DEF Init, MoveOn, ChunksMoveOn
<1>2. TransferInv /\ MoveOn /\ [Next]_vars => MoveOn'
  BY NextMovesOn, Zenon
<1>3. MoveOn => ChunksMoveOn
  BY Zenon DEF MoveOn
<1> QED BY <1>1, <1>2, <1>3, InvHolds, PTL DEF Spec
================================================================================
