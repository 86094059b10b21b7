--------------------------- MODULE StagerCacheProofs ---------------------------
(***************************************************************************)
(* For any capacity, number of threads and sequence of epochs: the index   *)
(* and the slots agree, the collection finds enough victims and none       *)
(* twice, transfers go where the index says, and staging implements        *)
(* CacheBinding.                                                           *)
(*                                                                         *)
(* The idea.  An offset is scanned once the thread of its residue is past  *)
(* it.  While the counter is below the deficit, every scanned slot that    *)
(* could be a victim is one; and there are as many such slots as the       *)
(* deficit asks for, because the epoch fits into the cache.                *)
(***************************************************************************)
EXTENDS StagerCache, FiniteSetTheorems, TLAPS

Collecting == {"reclaim", "fifo"}
Before == {"mark", "lookup", "full"}
After == {"transfer", "remap"}

CacheTypes ==
    /\ pc \in Before \cup Collecting \cup {"ring"} \cup After
    /\ deleted \subseteq Records /\ need \subseteq Records
    /\ crid2grid \in [Records -> Slots \cup {None}]
    /\ resident \in [Slots -> Records \cup {None}]
    /\ head \in 0 .. Cap /\ cursor \in Slots /\ reclaim \subseteq Slots
    /\ new \in Seq(Records) /\ victims \in Seq(Slots) /\ popped \in Seq(Slots)
    /\ count \in Nat /\ maxOffset \in Nat
    /\ offset \in [Threads -> 0 .. Cap] /\ checked \in [Threads -> BOOLEAN]
    /\ admitted \in Int /\ evicted \in Int

(* The first two parts of IndexMatchesSlots.                               *)
Indexed ==
    /\ \A c \in Records, g \in Slots : crid2grid[c] = g <=> resident[g] = c
    /\ \A g \in Slots : resident[g] = None <=> g >= head

(* What the totals say of the ring while slots are still to be taken.      *)
Totals ==
    admitted - evicted = IF pc \in Collecting THEN Cap
                         ELSE IF pc = "ring" THEN head + Len(new) - Len(victims) ELSE head

(* The slot the missing record new[i] has been given so far.               *)
Given(i) ==
    IF pc \in Collecting THEN None
    ELSE IF i <= Len(victims) THEN victims[i]
    ELSE IF pc \in After THEN popped[i - Len(victims)] ELSE None

(* The records of the epoch: those in new have the slots given to them,    *)
(* the others are bound.                                                   *)
Wanted ==
    /\ pc = "mark" => need = {}
    /\ pc \in Before => new = <<>> /\ victims = <<>>
    /\ pc \notin After => popped = <<>>
    /\ pc \notin Before =>
          /\ Cardinality(need) <= Cap
          /\ insert # {} => bitmap = insert
          /\ \A c \in need : crid2grid[c] # None \/ \E i \in DOMAIN new : new[i] = c
    /\ \A i, j \in DOMAIN new : new[i] = new[j] => i = j
    /\ \A i \in DOMAIN new : new[i] \in need /\ crid2grid[new[i]] = Given(i)
    /\ Len(victims) <= Len(new)
    /\ pc = "ring" => Len(new) - Len(victims) <= Free
    /\ pc \in After => Len(new) = Len(victims) + Len(popped)

(* Offset o has been scanned.                                              *)
Scanned(o) == o < offset[o % NumThreads]
SlotAt(o) == (cursor + o) % Cap

(* The collection passes: what was taken, and that nothing was passed by.  *)
Collected ==
    /\ Len(new) > Free
    /\ Len(victims) = IF count < Deficit THEN count ELSE Deficit
    /\ GridsOf(need) \subseteq needed /\ needed \subseteq GridsOf(need) \cup Range(victims)
    /\ \A i \in DOMAIN victims : resident[victims[i]] # None /\ resident[victims[i]] \notin need
    /\ \A t \in Threads : offset[t] = Cap \/ offset[t] % NumThreads = t
    /\ pc = "reclaim" => Range(victims) \subseteq needed
    /\ pc = "fifo" =>
          /\ \A i \in DOMAIN victims :
                victims[i] \in needed \/ \E o \in Slots : Scanned(o) /\ victims[i] = SlotAt(o)
          /\ count < Deficit => \A o \in Slots : Scanned(o) =>
                resident[SlotAt(o)] = None \/ SlotAt(o) \in needed \/ SlotAt(o) \in Range(victims)

CacheInv ==
    /\ CacheTypes /\ Indexed /\ Totals /\ Wanted
    /\ pc \in Collecting => Collected
    /\ VictimsDistinct /\ FlaggedAreDeleted /\ TransfersMatchIndex

--------------------------------------------------------------------------------
(* Arithmetic of the scan.                                                 *)

(* A residue is a thread.                                                  *)
LEMMA ModRange ==
    ASSUME NEW n \in Nat \ {0}, NEW o \in Nat
    PROVE  o % n \in 0 .. n - 1 /\ o \div n \in Int /\ o = n * (o \div n) + (o % n)
<1> DEFINE d == o \div n
           m == o % n
<1>1. m \in 0 .. n - 1
  OBVIOUS
<1>2. d \in Int
  OBVIOUS
<1>3. o = d * n + m
  OBVIOUS
<1> HIDE DEF d, m
<1>4. o = n * d + m
  BY <1>1, <1>2, <1>3
<1> QED BY <1>1, <1>2, <1>4, Zenon DEF d, m

(* A larger factor makes the product larger by n at least.                 *)
LEMMA ProductGap ==
    ASSUME NEW n \in Nat, NEW a \in Int, NEW b \in Int, b < a
    PROVE  n * b + n <= n * a
<1>1. a - b - 1 \in Nat
  OBVIOUS
<1>2. n * (a - b - 1) >= 0
  BY <1>1
<1>3. n * (a - b - 1) = n * a - n * b - n
  OBVIOUS
<1>4. n * a \in Int /\ n * b \in Int
  OBVIOUS
<1> QED BY <1>2, <1>3, <1>4

(* Two offsets of one thread are NumThreads apart.                         *)
LEMMA ModGap ==
    ASSUME NEW n \in Nat \ {0}, NEW o \in Nat, NEW p \in Nat, o % n = p % n, p < o
    PROVE  p + n <= o
<1> DEFINE a == o \div n
           b == p \div n
<1>1. a \in Int /\ o = n * a + (o % n) /\ b \in Int /\ p = n * b + (p % n) /\ o % n \in Nat
  BY ModRange
<1> HIDE DEF a, b
<1>2. n * a \in Int /\ n * b \in Int
  BY <1>1
<1>3. n * b < n * a
  BY <1>1, <1>2
<1>4. b < a
  <2> SUFFICES ASSUME a <= b PROVE FALSE
    BY <1>1
  <2>1. a = b \/ a < b
    BY <1>1
  <2>2. a < b => n * a + n <= n * b
    BY <1>1, ProductGap, Zenon
  <2> QED BY <2>1, <2>2, <1>2, <1>3
<1>5. n * b + n <= n * a
  BY <1>1, <1>4, ProductGap, Zenon
<1> QED BY <1>1, <1>2, <1>5

(* The next offset of a thread has its residue.                            *)
LEMMA ModStep ==
    ASSUME NEW n \in Nat \ {0}, NEW o \in Nat
    PROVE  (o + n) % n = o % n
<1> DEFINE a == o \div n
           b == (o + n) \div n
           x == o % n
           y == (o + n) % n
<1>1. /\ a \in Int /\ o = n * a + x /\ x \in 0 .. n - 1
      /\ b \in Int /\ o + n = n * b + y /\ y \in 0 .. n - 1
  <2>1. a \in Int /\ o = n * a + x /\ x \in 0 .. n - 1
    BY ModRange, Zenon
  <2> DEFINE z == o + n
  <2>2. z \in Nat
    OBVIOUS
  <2> HIDE DEF z
  <2>3. z % n \in 0 .. n - 1 /\ z \div n \in Int /\ z = n * (z \div n) + (z % n)
    BY <2>2, ModRange, Zenon
  <2>4. b \in Int /\ o + n = n * b + y /\ y \in 0 .. n - 1
    BY <2>3, Zenon DEF z
  <2> QED BY <2>1, <2>4, Zenon
<1> HIDE DEF a, b, x, y
<1>2. n * a \in Int /\ n * b \in Int /\ n * (a + 1) = n * a + n
  BY <1>1
<1>3. n * b = n * (a + 1) + x - y
  BY <1>1, <1>2
<1>4. b = a + 1
  <2>1. a + 1 < b => n * (a + 1) + n <= n * b
    BY <1>1, ProductGap
  <2>2. b < a + 1 => n * b + n <= n * (a + 1)
    BY <1>1, ProductGap
  <2> QED BY <2>1, <2>2, <1>1, <1>2, <1>3
<1>5. x = y
  BY <1>1, <1>2, <1>3, <1>4
<1> QED BY <1>5, Zenon DEF x, y

(* One turn round the ring.                                                *)
LEMMA ModOnce ==
    ASSUME NEW n \in Nat \ {0}, NEW a \in 0 .. 2 * n - 1
    PROVE  a % n = IF a < n THEN a ELSE a - n
OBVIOUS

--------------------------------------------------------------------------------
(* Binding records to slots.                                               *)

(* Distinct records cs are to take distinct slots gs, one for each i in D, *)
(* and apart from those the index map and the slots agree.                 *)
Fits(map, cs, gs, D) ==
    /\ map \in [Records -> Slots \cup {None}] /\ resident \in [Slots -> Records \cup {None}]
    /\ cs \in Seq(Records) /\ gs \in Seq(Slots) /\ DOMAIN cs = D /\ DOMAIN gs = D
    /\ \A i, j \in D : cs[i] = cs[j] => i = j
    /\ \A i, j \in D : gs[i] = gs[j] => i = j
    /\ \A c \in Records, g \in Slots :
          (\A i \in D : cs[i] # c /\ gs[i] # g) => (map[c] = g <=> resident[g] = c)
    /\ \A c \in Records : (\A i \in D : cs[i] # c) => \A i \in D : map[c] # gs[i]
    /\ \A g \in Slots : (\A i \in D : gs[i] # g) => \A i \in D : resident[g] # cs[i]

(* The index B and the slots O after that: each record has its slot, the   *)
(* rest stays, and the two agree.                                          *)
Gives(map, cs, gs, D, B, O) ==
    /\ B \in [Records -> Slots \cup {None}] /\ O \in [Slots -> Records \cup {None}]
    /\ \A i \in D : B[cs[i]] = gs[i] /\ O[gs[i]] = cs[i]
    /\ \A c \in Records : (\A i \in D : cs[i] # c) => B[c] = map[c]
    /\ \A g \in Slots : (\A i \in D : gs[i] # g) => O[g] = resident[g]
    /\ \A c \in Records, g \in Slots : B[c] = g <=> O[g] = c

(* k_flat_insert and k_set_grid2crid bind the records to the slots.        *)
LEMMA BindingKept ==
    ASSUME NEW map, NEW cs, NEW gs, NEW D, Fits(map, cs, gs, D)
    PROVE  Gives(map, cs, gs, D, Bound(map, cs, gs), Occupied(cs, gs))
<1>a. /\ map \in [Records -> Slots \cup {None}] /\ resident \in [Slots -> Records \cup {None}]
      /\ cs \in Seq(Records) /\ gs \in Seq(Slots) /\ DOMAIN cs = D /\ DOMAIN gs = D
  BY Zenon DEF Fits
<1>b. /\ \A i, j \in D : cs[i] = cs[j] => i = j
      /\ \A i, j \in D : gs[i] = gs[j] => i = j
  BY Zenon DEF Fits
<1>c. /\ \A c \in Records, g \in Slots :
            (\A i \in D : cs[i] # c /\ gs[i] # g) => (map[c] = g <=> resident[g] = c)
      /\ \A c \in Records : (\A i \in D : cs[i] # c) => \A i \in D : map[c] # gs[i]
      /\ \A g \in Slots : (\A i \in D : gs[i] # g) => \A i \in D : resident[g] # cs[i]
  BY Zenon DEF Fits
<1> DEFINE B == Bound(map, cs, gs)
           O == Occupied(cs, gs)
<1>0. \A i \in D : cs[i] \in Records /\ gs[i] \in Slots
  BY <1>a
<1>1. ASSUME NEW c \in Records PROVE B[c] = IF \E i \in D : cs[i] = c
                                             THEN gs[CHOOSE i \in D : cs[i] = c] ELSE map[c]
  BY <1>a, Zenon DEF Bound
<1>2. ASSUME NEW g \in Slots PROVE O[g] = IF \E i \in D : gs[i] = g
                                           THEN cs[CHOOSE i \in D : gs[i] = g] ELSE resident[g]
  BY <1>a, Zenon DEF Occupied
<1>3. ASSUME NEW i \in D PROVE B[cs[i]] = gs[i] /\ O[gs[i]] = cs[i]
  <2>1. (CHOOSE j \in D : cs[j] = cs[i]) = i /\ (CHOOSE j \in D : gs[j] = gs[i]) = i
    BY <1>b, Zenon
  <2> QED BY <2>1, <1>0, <1>1, <1>2, ZenonT(40)
<1>4. ASSUME NEW c \in Records, \A i \in D : cs[i] # c PROVE B[c] = map[c]
  BY <1>1, <1>4, Zenon
<1>5. ASSUME NEW g \in Slots, \A i \in D : gs[i] # g PROVE O[g] = resident[g]
  BY <1>2, <1>5, Zenon
<1> HIDE DEF B, O
<1>6. B \in [Records -> Slots \cup {None}]
  <2>1. \A c \in Records : B[c] \in Slots \cup {None}
    BY <1>0, <1>3, <1>4, <1>a
  <2>2. B = [c \in Records |-> B[c]]
    BY Zenon DEF B, Bound
  <2> QED BY <2>1, <2>2, Zenon
<1>7. O \in [Slots -> Records \cup {None}]
  <2>1. \A g \in Slots : O[g] \in Records \cup {None}
    BY <1>0, <1>3, <1>5, <1>a
  <2>2. O = [g \in Slots |-> O[g]]
    BY Zenon DEF O, Occupied
  <2> QED BY <2>1, <2>2, Zenon
<1>8. ASSUME NEW c \in Records, NEW g \in Slots PROVE B[c] = g <=> O[g] = c
  <2>1. CASE \E i \in D : cs[i] = c
    <3>1. PICK i \in D : cs[i] = c
      BY <2>1, Zenon
    <3>2. CASE \E j \in D : gs[j] = g
      BY <3>1, <3>2, <1>3, <1>0, <1>b, <1>c
    <3>3. CASE ~\E j \in D : gs[j] = g
      BY <3>1, <3>3, <1>3, <1>5, <1>0, <1>b, <1>c
    <3> QED BY <3>2, <3>3, Zenon
  <2>2. CASE ~\E i \in D : cs[i] = c
    <3>1. CASE \E j \in D : gs[j] = g
      BY <2>2, <3>1, <1>3, <1>4, <1>0, <1>b, <1>c
    <3>2. CASE ~\E j \in D : gs[j] = g
      BY <2>2, <3>2, <1>4, <1>5, <1>0, <1>b, <1>c
    <3> QED BY <3>1, <3>2, Zenon
  <2> QED BY <2>1, <2>2, Zenon
<1> QED BY <1>3, <1>4, <1>5, <1>6, <1>7, <1>8, Zenon DEF Gives, B, O

--------------------------------------------------------------------------------
(* The scan.                                                               *)

(* From the cursor every slot is one offset away.                          *)
LEMMA SlotAtOnce ==
    ASSUME cursor \in Slots
    PROVE  /\ \A o \in Slots : SlotAt(o) \in Slots
           /\ \A o, q \in Slots : SlotAt(o) = SlotAt(q) => o = q
           /\ \A g \in Slots : \E o \in Slots : SlotAt(o) = g
<1>0. Cap \in Nat \ {0} /\ Slots = 0 .. Cap - 1
  BY CacheAssumption, Zenon DEF CacheAssumption, Slots
<1>1. ASSUME NEW o \in Slots
      PROVE  SlotAt(o) = IF cursor + o < Cap THEN cursor + o ELSE cursor + o - Cap
  <2> DEFINE a == cursor + o
  <2>1. a \in 0 .. 2 * Cap - 1
    BY <1>0
  <2>2. SlotAt(o) = a % Cap
    BY Zenon DEF SlotAt
  <2> HIDE DEF a
  <2>3. a % Cap = IF a < Cap THEN a ELSE a - Cap
    BY <2>1, <1>0, ModOnce, Zenon
  <2>4. SlotAt(o) = IF a < Cap THEN a ELSE a - Cap
    BY <2>2, <2>3, Zenon
  <2> QED BY <2>4, <1>0 DEF a
<1>2. \A o \in Slots : SlotAt(o) \in Slots
  BY <1>0, <1>1
<1>3. \A o, q \in Slots : SlotAt(o) = SlotAt(q) => o = q
  BY <1>0, <1>1
<1>4. ASSUME NEW g \in Slots PROVE \E o \in Slots : SlotAt(o) = g
  <2> DEFINE o == IF g >= cursor THEN g - cursor ELSE g - cursor + Cap
  <2>1. o \in Slots
    BY <1>0
  <2>2. SlotAt(o) = g
    BY <2>1, <1>0, <1>1
  <2> QED BY <2>1, <2>2, Zenon
<1> QED BY <1>2, <1>3, <1>4, Zenon

(* A thread that goes on has scanned one offset more, its own.             *)
LEMMA NextScan ==
    ASSUME offset \in [Threads -> 0 .. Cap], NEW t \in Threads, offset[t] < Cap,
           \A u \in Threads : offset[u] = Cap \/ offset[u] % NumThreads = u,
           offset' = NextOffset(t)
    PROVE  /\ offset' \in [Threads -> 0 .. Cap]
           /\ \A u \in Threads : offset'[u] = Cap \/ offset'[u] % NumThreads = u
           /\ offset[t] \in Slots
           /\ \A o \in Slots : Scanned(o)' <=> Scanned(o) \/ o = offset[t]
           /\ ~Scanned(offset[t])
<1>0. Cap \in Nat \ {0} /\ NumThreads \in Nat \ {0}
  BY CacheAssumption, Zenon DEF CacheAssumption
<1>1. /\ offset[t] \in Nat /\ offset[t] \in Slots /\ offset[t] % NumThreads = t
      /\ ~(offset[t] < offset[t])
  BY <1>0 DEF Slots
<1>2. offset'[t] = (IF offset[t] + NumThreads < Cap THEN offset[t] + NumThreads ELSE Cap)
  BY Zenon DEF NextOffset
<1>3. \A u \in Threads : u # t => offset'[u] = offset[u]
  BY Zenon DEF NextOffset
<1>4. offset' \in [Threads -> 0 .. Cap]
  BY <1>0, <1>1 DEF NextOffset
<1>5. (offset[t] + NumThreads) % NumThreads = t
  BY <1>0, <1>1, ModStep, Zenon
<1>6. \A u \in Threads : offset'[u] = Cap \/ offset'[u] % NumThreads = u
  BY <1>2, <1>3, <1>5, Zenon
<1>7. ASSUME NEW o \in Slots PROVE Scanned(o)' <=> Scanned(o) \/ o = offset[t]
  <2> DEFINE u == o % NumThreads
  <2>1. o \in Nat /\ o < Cap
    BY <1>0 DEF Slots
  <2>2. u \in Threads
    BY <2>1, <1>0, ModRange, Zenon DEF Threads
  <2>3. (Scanned(o)' <=> o < offset'[u]) /\ (Scanned(o) <=> o < offset[u])
    BY Zenon DEF Scanned
  <2>4. CASE u # t
    <3>1. o # offset[t]
      BY <2>4, <1>1, Zenon
    <3> HIDE DEF u
    <3> QED BY <3>1, <2>2, <2>3, <2>4, <1>3, Zenon
  <2>5. CASE u = t
    <3>1. o % NumThreads = offset[t] % NumThreads
      BY <2>5, <1>1, Zenon
    <3>2. offset[t] < o => offset[t] + NumThreads <= o
      BY <3>1, <2>1, <1>0, <1>1, ModGap, Zenon
    <3> HIDE DEF u
    <3>3. (Scanned(o)' <=> o < offset'[t]) /\ (Scanned(o) <=> o < offset[t])
      BY <2>3, <2>5, Zenon
    <3> QED BY <3>2, <3>3, <2>1, <1>0, <1>1, <1>2
  <2> QED BY <2>4, <2>5, Zenon
<1>8. ~Scanned(offset[t])
  BY <1>1, Zenon DEF Scanned
<1> QED BY <1>1, <1>4, <1>6, <1>7, <1>8, Zenon

(* The first n naturals are n.                                             *)
LEMMA CountUp ==
    ASSUME NEW n \in Nat
    PROVE  IsFiniteSet(1 .. n) /\ Cardinality(1 .. n) = n
<1>1. /\ IsFiniteSet(1 .. n)
      /\ Cardinality(1 .. n) = IF 1 > n THEN 0 ELSE n - 1 + 1
  BY FS_Interval
<1> QED BY <1>1

(* A set of slots that holds the values of a sequence is no larger.        *)
LEMMA RangeSize ==
    ASSUME NEW S, NEW s \in Seq(S)
    PROVE  IsFiniteSet(Range(s)) /\ Cardinality(Range(s)) <= Len(s)
<1>1. Len(s) \in Nat /\ DOMAIN s = 1 .. Len(s)
  OBVIOUS
<1>2. IsFiniteSet(1 .. Len(s)) /\ Cardinality(1 .. Len(s)) = Len(s)
  BY <1>1, CountUp, Zenon
<1>3. Range(s) = {s[i] : i \in 1 .. Len(s)}
  BY <1>1, Zenon DEF Range
<1>4. /\ IsFiniteSet({s[i] : i \in 1 .. Len(s)})
      /\ Cardinality({s[i] : i \in 1 .. Len(s)}) <= Cardinality(1 .. Len(s))
  <2>1. s \in [1 .. Len(s) -> Range(s)]
    <3>1. \A i \in 1 .. Len(s) : s[i] \in Range(s)
      BY <1>1, Zenon DEF Range
    <3>2. s \in [1 .. Len(s) -> S]
      OBVIOUS
    <3> QED BY <3>1, <3>2, Zenon
  <2>2. s \in Surjection(1 .. Len(s), Range(s))
    <3>1. \A x \in Range(s) : \E i \in 1 .. Len(s) : s[i] = x
      BY <1>1, Zenon DEF Range
    <3> QED BY <2>1, <3>1, Zenon DEF Surjection
  <2>3. IsFiniteSet(Range(s)) /\ Cardinality(Range(s)) <= Cardinality(1 .. Len(s))
    BY <2>2, <1>2, FS_Surjection, Zenon
  <2> QED BY <2>3, <1>3, Zenon
<1> QED BY <1>2, <1>3, <1>4, Zenon

(* When both passes are over the deficit is covered: the slots that cannot *)
(* be victims hold the records of the epoch that were found, and these are *)
(* as many as the epoch has beyond its missing ones.                       *)
LEMMA CoversDeficit ==
    ASSUME CacheTypes, Indexed, Wanted, Collected, pc = "fifo", KernelDone
    PROVE  count >= Deficit /\ Len(victims) = Deficit
<1>0. /\ Cap \in Nat \ {0} /\ NumThreads \in Nat \ {0} /\ Slots = 0 .. Cap - 1
      /\ IsFiniteSet(Records) /\ None \notin Slots
  BY CacheAssumption, Zenon DEF CacheAssumption, Slots
<1>1. /\ head \in 0 .. Cap /\ count \in Nat /\ Len(new) \in Nat /\ Deficit = Len(new) - (Cap - head)
      /\ Deficit \in Int
  BY <1>0 DEF CacheTypes, Deficit, Free
<1>2. SUFFICES ASSUME count < Deficit PROVE FALSE
  BY <1>1 DEF Collected
<1>3. Len(victims) = count
  BY <1>2, Zenon DEF Collected
<1>4. \A o \in Slots : Scanned(o)
  <2> SUFFICES ASSUME NEW o \in Slots PROVE Scanned(o)
    BY Zenon
  <2>1. o \in Nat /\ o < Cap
    BY <1>0
  <2>2. o % NumThreads \in Threads
    BY <2>1, <1>0, ModRange, Zenon DEF Threads
  <2>3. offset[o % NumThreads] = Cap
    BY <2>2, Zenon DEF KernelDone
  <2> QED BY <2>1, <2>3, Zenon DEF Scanned
<1> DEFINE found == {c \in need : crid2grid[c] # None}
           missing == {c \in need : crid2grid[c] = None}
           taken == GridsOf(need)
<1>5. 0 .. head - 1 \subseteq taken \cup Range(victims)
  <2> SUFFICES ASSUME NEW g \in 0 .. head - 1 PROVE g \in taken \cup Range(victims)
    BY Zenon
  <2>1. g \in Slots /\ ~(g >= head)
    BY <1>0, <1>1
  <2>2. resident[g] # None
    BY <2>1, Zenon DEF Indexed
  <2>3. PICK o \in Slots : SlotAt(o) = g
    BY <2>1, SlotAtOnce, Zenon DEF CacheTypes
  <2>4. resident[g] = None \/ g \in needed \/ g \in Range(victims)
    BY <2>3, <1>2, <1>4, Zenon DEF Collected
  <2> QED BY <2>2, <2>4, Zenon DEF Collected
<1>6. /\ IsFiniteSet(need) /\ IsFiniteSet(found) /\ IsFiniteSet(missing)
      /\ Cardinality(need) \in Nat /\ Cardinality(found) \in Nat /\ Cardinality(missing) \in Nat
      /\ Cardinality(need) = Cardinality(found) + Cardinality(missing)
  <2>1. IsFiniteSet(need)
    BY <1>0, FS_Subset, Zenon DEF CacheTypes
  <2>2. IsFiniteSet(found) /\ IsFiniteSet(missing)
    BY <2>1, FS_Subset, Zenon
  <2>3. found \cup missing = need /\ found \cap missing = {}
    BY Zenon
  <2> HIDE DEF found, missing
  <2>4. Cardinality(found \cup missing) = Cardinality(found) + Cardinality(missing) - Cardinality(found \cap missing)
    BY <2>2, FS_Union, Zenon
  <2>5. Cardinality(found \cap missing) = 0
    BY <2>3, FS_EmptySet, Zenon
  <2>6. Cardinality(need) \in Nat /\ Cardinality(found) \in Nat /\ Cardinality(missing) \in Nat
    BY <2>1, <2>2, FS_CardinalityType, Zenon
  <2>7. Cardinality(need) = Cardinality(found) + Cardinality(missing) - 0
    BY <2>3, <2>4, <2>5, Zenon
  <2> QED BY <2>1, <2>2, <2>6, <2>7
<1>7. Cardinality(missing) = Len(new)
  <2>1. DOMAIN new = 1 .. Len(new) /\ new \in [1 .. Len(new) -> Records]
    BY DEF CacheTypes
  <2>2. \A i \in DOMAIN new : new[i] \in missing
    BY Zenon DEF Wanted, Given, Collecting
  <2>3. \A c \in missing : \E i \in DOMAIN new : new[i] = c
    BY Zenon DEF Wanted, Before
  <2> HIDE DEF missing
  <2>4. new \in [1 .. Len(new) -> missing]
    BY <2>1, <2>2, Zenon
  <2>5. new \in Bijection(1 .. Len(new), missing)
    <3>1. new \in Injection(1 .. Len(new), missing)
      BY <2>1, <2>4, Zenon DEF Injection, IsInjective, Wanted
    <3>2. new \in Surjection(1 .. Len(new), missing)
      BY <2>1, <2>3, <2>4, Zenon DEF Surjection
    <3> QED BY <3>1, <3>2, Zenon DEF Bijection
  <2>6. IsFiniteSet(1 .. Len(new)) /\ Cardinality(1 .. Len(new)) = Len(new)
    BY <1>1, CountUp, Zenon
  <2>7. Cardinality(missing) = Cardinality(1 .. Len(new))
    BY <2>5, <2>6, FS_Bijection, Zenon DEF ExistsBijection
  <2> QED BY <2>6, <2>7, Zenon DEF missing
<1>8. IsFiniteSet(taken) /\ Cardinality(taken) <= Cardinality(found)
  <2> DEFINE f == [c \in found |-> crid2grid[c]]
  <2>1. taken = {crid2grid[c] : c \in found}
    BY Zenon DEF GridsOf
  <2>2. f \in Surjection(found, taken)
    <3>1. f \in [found -> taken]
      BY <2>1, Zenon
    <3>2. \A g \in taken : \E c \in found : f[c] = g
      BY <2>1, Zenon
    <3> HIDE DEF f
    <3> QED BY <3>1, <3>2, Zenon DEF Surjection
  <2> HIDE DEF f, found, taken
  <2> QED BY <2>2, <1>6, FS_Surjection, Zenon
<1>9. IsFiniteSet(Range(victims)) /\ Cardinality(Range(victims)) <= Len(victims)
  BY RangeSize, Zenon DEF CacheTypes
<1> HIDE DEF found, missing, taken
<1>10. head <= Cardinality(taken \cup Range(victims))
  <2>1. IsFiniteSet(taken \cup Range(victims))
    BY <1>8, <1>9, FS_Union, Zenon
  <2>2. Cardinality(0 .. head - 1) <= Cardinality(taken \cup Range(victims))
    BY <2>1, <1>5, FS_Subset, Zenon
  <2>3. Cardinality(0 .. head - 1) = IF 0 > head - 1 THEN 0 ELSE head - 1 - 0 + 1
    BY <1>1, FS_Interval
  <2>4. Cardinality(0 .. head - 1) = head
    BY <2>3, <1>1
  <2> QED BY <2>2, <2>4, Zenon
<1>11. /\ Cardinality(taken \cup Range(victims))
             = Cardinality(taken) + Cardinality(Range(victims)) - Cardinality(taken \cap Range(victims))
       /\ Cardinality(taken) \in Nat /\ Cardinality(Range(victims)) \in Nat
       /\ Cardinality(taken \cap Range(victims)) \in Nat
  <2>1. IsFiniteSet(taken \cap Range(victims))
    BY <1>8, FS_Subset, Zenon
  <2> QED BY <2>1, <1>8, <1>9, FS_Union, FS_CardinalityType, Zenon
<1>12. Cardinality(need) <= Cap
  BY Zenon DEF Wanted, Before
<1> QED BY <1>0, <1>1, <1>2, <1>3, <1>6, <1>7, <1>8, <1>9, <1>10, <1>11, <1>12, SMTT(30)

--------------------------------------------------------------------------------
(* The initial state, and what the steps before the collection keep.       *)

(* A pass starts with nothing scanned.                                     *)
LEMMA FreshScan ==
    ASSUME offset' = ScanStart
    PROVE  /\ offset' \in [Threads -> 0 .. Cap]
           /\ \A t \in Threads : offset'[t] = Cap \/ offset'[t] % NumThreads = t
           /\ \A o \in Slots : ~Scanned(o)'
<1>0. Cap \in Nat \ {0} /\ NumThreads \in Nat \ {0}
  BY CacheAssumption, Zenon DEF CacheAssumption
<1>1. offset' \in [Threads -> 0 .. Cap]
  BY <1>0 DEF ScanStart, Threads
<1>2. \A t \in Threads : offset'[t] = IF t < Cap THEN t ELSE Cap
  BY Zenon DEF ScanStart
<1>3. ASSUME NEW t \in Threads PROVE t % NumThreads = t
  <2>1. t \in 0 .. 2 * NumThreads - 1 /\ t < NumThreads
    BY <1>0 DEF Threads
  <2> QED BY <2>1, <1>0, ModOnce, Zenon
<1>4. ASSUME NEW o \in Slots PROVE ~Scanned(o)'
  <2> DEFINE u == o % NumThreads
  <2>1. o \in Nat /\ o < Cap
    BY <1>0 DEF Slots
  <2>2. u \in 0 .. NumThreads - 1
    BY <2>1, <1>0, ModRange, Zenon
  <2>3. u <= o
    <3>1. CASE o < NumThreads
      <4>1. o \in Threads
        BY <3>1, <2>1, <1>0 DEF Threads
      <4>2. u = o
        BY <4>1, <1>3, Zenon
      <4> HIDE DEF u
      <4> QED BY <4>2, <2>1
    <3>2. CASE ~(o < NumThreads)
      <4> HIDE DEF u
      <4> QED BY <3>2, <2>1, <2>2, <1>0
    <3> QED BY <3>1, <3>2, Zenon
  <2>4. Scanned(o)' <=> o < offset'[u]
    BY Zenon DEF Scanned
  <2> HIDE DEF u
  <2>5. offset'[u] = IF u < Cap THEN u ELSE Cap
    BY <2>2, <1>2, Zenon DEF Threads
  <2> QED BY <2>1, <2>2, <2>3, <2>4, <2>5, <1>0
<1>5. \A t \in Threads : offset'[t] = Cap \/ offset'[t] % NumThreads = t
  BY <1>2, <1>3, Zenon
<1> QED BY <1>1, <1>4, <1>5, Zenon

(* The invariant holds when the stager has been built.                     *)
LEMMA InitKeeps == Init => CacheInv
<1> SUFFICES ASSUME Init PROVE CacheInv
  BY Zenon
<1>0. Cap \in Nat \ {0} /\ NumThreads \in Nat \ {0} /\ None \notin Records /\ None \notin Slots
  BY CacheAssumption, Zenon DEF CacheAssumption
<1>1. CacheTypes
  BY <1>0 DEF Init, CacheTypes, Before, Slots
<1>2. Indexed
  <2>1. \A g \in Slots : g >= head
    BY <1>0 DEF Init, Slots
  <2>2. \A c \in Records : crid2grid[c] = None
    BY Zenon DEF Init
  <2>3. \A g \in Slots : resident[g] = None
    BY Zenon DEF Init
  <2> QED BY <2>1, <2>2, <2>3, <1>0, Zenon DEF Indexed
<1>3. pc = "mark" /\ new = <<>> /\ victims = <<>> /\ popped = <<>> /\ need = {} /\ reclaim = {}
      /\ admitted = 0 /\ evicted = 0 /\ head = 0
  BY Zenon DEF Init
<1>4. Totals
  BY <1>3 DEF Totals, Collecting
<1>5. Wanted
  BY <1>3 DEF Wanted, Before, After
<1>6. pc \notin Collecting
  BY <1>3, Zenon DEF Collecting
<1>7. VictimsDistinct /\ FlaggedAreDeleted /\ TransfersMatchIndex
  BY <1>3 DEF VictimsDistinct, FlaggedAreDeleted, TransfersMatchIndex
<1> QED BY <1>1, <1>2, <1>4, <1>5, <1>6, <1>7, Zenon DEF CacheInv

(* Flags go to the slots of the records deleted in this step.              *)
LEMMA MarkReclaimableKeeps == CacheInv /\ MarkReclaimable => CacheInv'
<1> SUFFICES ASSUME CacheInv, MarkReclaimable PROVE CacheInv'
  BY Zenon
<1>0. Cap \in Nat \ {0} /\ None \notin Records /\ None \notin Slots
  BY CacheAssumption, Zenon DEF CacheAssumption
<1>f. /\ pc = "mark" /\ pc' = "lookup"
      /\ UNCHANGED <<crid2grid, resident, head, cursor, new, count, maxOffset, victims,
                     offset, checked, popped, admitted, evicted>>
  BY Zenon DEF MarkReclaimable, scan, totals
<1>1. PICK n \in SUBSET (Records \ deleted), d \in SUBSET (Records \ deleted) :
          need' = n /\ deleted' = deleted \cup d /\ reclaim' = reclaim \cup GridsOf(d)
  BY Zenon DEF MarkReclaimable
<1>2. new = <<>> /\ victims = <<>> /\ popped = <<>>
  BY <1>f, Zenon DEF CacheInv, Wanted, Before, After
<1>3. \A g \in GridsOf(d) : g \in Slots /\ \E c \in d : crid2grid[c] = g /\ resident[g] = c
  <2> SUFFICES ASSUME NEW c \in d, crid2grid[c] # None
               PROVE  crid2grid[c] \in Slots /\ resident[crid2grid[c]] = c
    BY Zenon DEF GridsOf
  <2>1. c \in Records
    BY <1>1, Zenon
  <2>2. crid2grid[c] \in Slots
    BY <2>1, Zenon DEF CacheInv, CacheTypes
  <2> QED BY <2>1, <2>2, Zenon DEF CacheInv, Indexed
<1>4. CacheTypes'
  <2>1. pc' \in Before \cup Collecting \cup {"ring"} \cup After
    BY <1>f, Zenon DEF Before
  <2>2. need' \subseteq Records /\ deleted' \subseteq Records /\ reclaim' \subseteq Slots
    BY <1>1, <1>3, Zenon DEF CacheInv, CacheTypes
  <2> QED BY <2>1, <2>2, <1>f, Zenon DEF CacheInv, CacheTypes
<1>5. Indexed'
  BY <1>f, Zenon DEF CacheInv, Indexed
<1>6. Totals'
  BY <1>f, Zenon DEF CacheInv, Totals, Collecting
<1>7. Wanted'
  BY <1>f, <1>2 DEF Wanted, Before, After
<1>8. pc' \notin Collecting
  BY <1>f, Zenon DEF Collecting
<1>9. VictimsDistinct' /\ TransfersMatchIndex'
  BY <1>f, Zenon DEF CacheInv, VictimsDistinct, TransfersMatchIndex
<1>10. FlaggedAreDeleted'
  <2>1. \A g \in reclaim : resident[g] \in deleted'
    BY <1>1, Zenon DEF CacheInv, FlaggedAreDeleted
  <2>2. \A g \in GridsOf(d) : resident[g] \in deleted'
    BY <1>1, <1>3, Zenon
  <2> QED BY <2>1, <2>2, <1>f, <1>1, Zenon DEF FlaggedAreDeleted
<1> QED BY <1>4, <1>5, <1>6, <1>7, <1>8, <1>9, <1>10, Zenon DEF CacheInv

(* The exception leaves everything as it is.                               *)
LEMMA OverCapacityKeeps == CacheInv /\ OverCapacity => CacheInv'
<1> SUFFICES ASSUME CacheInv, OverCapacity PROVE CacheInv'
  BY Zenon
<1>f. /\ pc = "lookup" /\ pc' = "full"
      /\ UNCHANGED <<deleted, need, insert, crid2grid, resident, head, cursor, reclaim, bitmap, new,
                     count, maxOffset, victims, offset, checked, popped, sent, admitted, evicted>>
  BY Zenon DEF OverCapacity, work, maps, scan, totals
<1>1. CacheTypes'
  BY <1>f, Zenon DEF CacheInv, CacheTypes, Before
<1>2. Indexed' /\ VictimsDistinct' /\ FlaggedAreDeleted' /\ TransfersMatchIndex'
  BY <1>f, Zenon DEF CacheInv, Indexed, VictimsDistinct, FlaggedAreDeleted, TransfersMatchIndex
<1>3. Totals'
  BY <1>f, Zenon DEF CacheInv, Totals, Collecting
<1>4. new = <<>> /\ victims = <<>> /\ popped = <<>>
  BY <1>f, Zenon DEF CacheInv, Wanted, Before, After
<1>5. Wanted'
  BY <1>f, <1>4 DEF Wanted, Before, After
<1>6. pc' \notin Collecting
  BY <1>f, Zenon DEF Collecting
<1> QED BY <1>1, <1>2, <1>3, <1>5, <1>6, Zenon DEF CacheInv

(* The missing records are listed in some order, each of them once.        *)
LEMMA ListedOnce ==
    ASSUME NEW S, S \subseteq Records, IsFiniteSet(S), NEW s \in Listings(S)
    PROVE  /\ s \in Seq(Records)
           /\ \A i, j \in DOMAIN s : s[i] = s[j] => i = j
           /\ \A i \in DOMAIN s : s[i] \in S
           /\ \A c \in S : \E i \in DOMAIN s : s[i] = c
<1> DEFINE n == Cardinality(S)
<1>1. n \in Nat
  BY FS_CardinalityType, Zenon
<1>2. s \in [1 .. n -> S] /\ \A i, j \in 1 .. n : s[i] = s[j] => i = j
  <2>1. s \in [1 .. n -> S] /\ IsInjective(s)
    BY Zenon DEF Listings, Injection
  <2> QED BY <2>1, Zenon DEF IsInjective
<1> HIDE DEF n
<1>3. DOMAIN s = 1 .. n /\ s \in [1 .. n -> Records]
  BY <1>2, Zenon
<1>4. s \in Seq(Records)
  BY <1>1, <1>3
<1>5. \A c \in S : \E i \in DOMAIN s : s[i] = c
  <2> DEFINE R == {s[i] : i \in 1 .. n}
  <2>1. R \subseteq S
    BY <1>2, Zenon
  <2>2. s \in [1 .. n -> R]
    BY <1>2, Zenon
  <2>3. s \in Injection(1 .. n, R)
    BY <2>2, <1>2, Zenon DEF Injection, IsInjective
  <2>4. s \in Surjection(1 .. n, R)
    BY <2>2, Zenon DEF Surjection
  <2>5. ExistsBijection(1 .. n, R)
    BY <2>3, <2>4, Zenon DEF Bijection, ExistsBijection
  <2>6. IsFiniteSet(1 .. n) /\ Cardinality(1 .. n) = n
    BY <1>1, CountUp, Zenon
  <2> HIDE DEF R
  <2>7. Cardinality(R) = Cardinality(S)
    BY <2>5, <2>6, FS_Bijection, Zenon DEF n
  <2>8. R = S
    BY <2>1, <2>7, FS_Subset, Zenon
  <2> QED BY <2>8, <1>3, Zenon DEF R
<1> QED BY <1>2, <1>3, <1>4, <1>5, Zenon

(* The lookup leaves exactly the missing records to be given slots, and    *)
(* the totals count the evictions the deficit will need.                   *)
LEMMA LookupNeededKeeps == CacheInv /\ LookupNeeded => CacheInv'
<1> SUFFICES ASSUME CacheInv, LookupNeeded PROVE CacheInv'
  BY Zenon
<1>0. /\ Cap \in Nat \ {0} /\ None \notin Records /\ None \notin Slots /\ IsFiniteSet(Records)
      /\ Reclaim \in BOOLEAN
  BY CacheAssumption, Zenon DEF CacheAssumption
<1> DEFINE S == {c \in need : crid2grid[c] = None}
<1>f. /\ pc = "lookup" /\ victims' = <<>> /\ count' = 0 /\ maxOffset' = 0 /\ offset' = ScanStart
      /\ checked' = [t \in Threads |-> FALSE] /\ needed' = GridsOf(need)
      /\ new' \in Listings(S) /\ Cardinality(need) <= Cap
      /\ bitmap' = IF insert = {} THEN bitmap ELSE insert
      /\ UNCHANGED <<deleted, need, insert, crid2grid, resident, head, cursor, reclaim, popped, sent>>
  BY Zenon DEF LookupNeeded, work, maps
<1>p. pc' = IF new' = <<>> THEN "remap"
            ELSE IF Len(new') <= Free THEN "ring"
            ELSE IF Reclaim THEN "reclaim" ELSE "fifo"
  BY Zenon DEF LookupNeeded
<1>1. /\ new' \in Seq(Records)
      /\ \A i, j \in DOMAIN new' : new'[i] = new'[j] => i = j
      /\ \A i \in DOMAIN new' : new'[i] \in S
      /\ \A c \in S : \E i \in DOMAIN new' : new'[i] = c
  <2>1. S \subseteq Records
    BY Zenon DEF CacheInv, CacheTypes
  <2>2. IsFiniteSet(S)
    BY <2>1, <1>0, FS_Subset, Zenon
  <2> HIDE DEF S
  <2> QED BY <2>1, <2>2, <1>f, ListedOnce, Zenon
<1>2. popped = <<>>
  BY <1>f, Zenon DEF CacheInv, Wanted, Before, After
<1>3. /\ Len(new') \in Nat /\ head \in 0 .. Cap /\ Free \in Nat
      /\ Free = Cap - head /\ (new' = <<>> <=> Len(new') = 0)
  BY <1>0, <1>1 DEF CacheInv, CacheTypes, Free
<1>4. /\ pc' \in Collecting \cup {"ring", "remap"}
      /\ (pc' \in Collecting <=> Len(new') > Free)
      /\ (pc' = "remap" <=> new' = <<>>)
  BY <1>p, <1>3 DEF Collecting
<1>5. CacheTypes'
  <2>1. offset' \in [Threads -> 0 .. Cap]
    BY <1>f, FreshScan, Zenon
  <2>2. checked' \in [Threads -> BOOLEAN] /\ count' \in Nat /\ maxOffset' \in Nat
        /\ victims' \in Seq(Slots)
    BY <1>f
  <2>3. admitted' \in Int /\ evicted' \in Int
    <3>1. admitted' = admitted + Len(new') /\ evicted' = evicted + Shortfall(Len(new'))
      BY Zenon DEF LookupNeeded
    <3>2. Shortfall(Len(new')) \in Int
      BY <1>3 DEF Shortfall
    <3> QED BY <3>1, <3>2, <1>3 DEF CacheInv, CacheTypes
  <2>4. pc' \in Before \cup Collecting \cup {"ring"} \cup After
    BY <1>4, Zenon DEF After
  <2> QED BY <2>1, <2>2, <2>3, <2>4, <1>f, <1>1, Zenon DEF CacheInv, CacheTypes
<1>6. Indexed' /\ VictimsDistinct' /\ FlaggedAreDeleted'
  <2>1. Indexed' /\ FlaggedAreDeleted'
    BY <1>f, Zenon DEF CacheInv, Indexed, FlaggedAreDeleted
  <2>2. VictimsDistinct'
    BY <1>f DEF VictimsDistinct
  <2> QED BY <2>1, <2>2, Zenon
<1>7. TransfersMatchIndex'
  BY <1>4, Zenon DEF TransfersMatchIndex
<1>8. Totals'
  <2>1. admitted' = admitted + Len(new')
        /\ evicted' = evicted + IF Len(new') > Free THEN Len(new') - Free ELSE 0
    BY Zenon DEF LookupNeeded, Shortfall
  <2>2. admitted - evicted = head /\ admitted \in Int /\ evicted \in Int
    BY <1>f, Zenon DEF CacheInv, Totals, Collecting, CacheTypes
  <2>3. CASE Len(new') > Free
    <3>1. admitted' - evicted' = Cap
      BY <2>1, <2>2, <2>3, <1>3, <1>0
    <3> QED BY <3>1, <2>3, <1>4, Zenon DEF Totals
  <2>4. CASE ~(Len(new') > Free)
    <3>1. admitted' - evicted' = head + Len(new')
      BY <2>1, <2>2, <2>4, <1>3, <1>0
    <3>2. pc' = "ring" \/ (pc' = "remap" /\ Len(new') = 0)
      BY <2>4, <1>3, <1>4, Zenon
    <3>3. pc' \notin Collecting
      BY <3>2, Zenon DEF Collecting
    <3>4. Len(victims') = 0
      BY <1>f, Zenon
    <3>5. admitted' - evicted' = IF pc' = "ring" THEN head + Len(new') - Len(victims') ELSE head
      BY <3>1, <3>2, <3>4, <1>3
    <3> QED BY <3>3, <3>5, <1>f, Zenon DEF Totals
  <2> QED BY <2>3, <2>4, Zenon
<1>9. Wanted'
  <2>1. /\ pc' # "mark" /\ pc' \notin Before /\ popped' = <<>>
    BY <1>2, <1>4, <1>f, Zenon DEF Before, Collecting
  <2>2. /\ Cardinality(need)' <= Cap
        /\ insert' # {} => bitmap' = insert'
        /\ \A c \in need' : crid2grid'[c] # None \/ \E i \in DOMAIN new' : new'[i] = c
    BY <1>1, <1>f, Zenon
  <2>3. \A i \in DOMAIN new' : new'[i] \in need' /\ crid2grid'[new'[i]] = None
    BY <1>1, <1>f, Zenon
  <2>4. \A i \in DOMAIN new' : Given(i)' = None
    <3> SUFFICES ASSUME NEW i \in DOMAIN new' PROVE Given(i)' = None
      BY Zenon
    <3>1. i \in 1 .. Len(new') /\ Len(victims') = 0 /\ ~(i <= Len(victims'))
      BY <1>1, <1>f
    <3>2. pc' \notin After
      <4>1. new' # <<>>
        BY <3>1
      <4> QED BY <4>1, <1>4, Zenon DEF After, Collecting
    <3> QED BY <3>1, <3>2, Zenon DEF Given
  <2>5. Len(victims') = 0 /\ Len(victims') <= Len(new')
    BY <1>f, <1>3
  <2>6. pc' = "ring" => Len(new') - Len(victims') <= Free'
    <3>1. Free' = Free
      BY <1>f, Zenon DEF Free
    <3>2. pc' = "ring" => ~(Len(new') > Free)
      BY <1>4, Zenon DEF Collecting
    <3> QED BY <3>1, <3>2, <2>5, <1>3
  <2>7. pc' \in After => Len(new') = Len(victims') + Len(popped')
    <3>1. pc' \in After => Len(new') = 0
      BY <1>3, <1>4, Zenon DEF After, Collecting
    <3>2. Len(popped') = 0
      BY <2>1, Zenon
    <3> QED BY <3>1, <3>2, <2>5
  <2> QED BY <2>1, <2>2, <2>3, <2>4, <2>5, <2>6, <2>7, <1>1, ZenonT(40) DEF Wanted
<1>10. ASSUME pc' \in Collecting PROVE Collected'
  <2>1. Len(new') > Free' /\ Deficit' = Len(new') - Free /\ Deficit' > 0 /\ Free' = Free
    BY <1>10, <1>3, <1>4, <1>f DEF Free, Deficit
  <2>2. Len(victims') = 0 /\ DOMAIN victims' = {} /\ Range(victims') = {}
    BY <1>f DEF Range
  <2>3. Len(victims') = IF count' < Deficit' THEN count' ELSE Deficit'
    BY <2>1, <2>2, <1>f
  <2>4. needed' = GridsOf(need)'
    BY <1>f, Zenon DEF GridsOf
  <2>5. /\ \A t \in Threads : offset'[t] = Cap \/ offset'[t] % NumThreads = t
        /\ \A o \in Slots : ~Scanned(o)'
    BY <1>f, FreshScan, Zenon
  <2> QED BY <2>1, <2>2, <2>3, <2>4, <2>5, Zenon DEF Collected
<1> QED BY <1>5, <1>6, <1>7, <1>8, <1>9, <1>10, Zenon DEF CacheInv

--------------------------------------------------------------------------------
(* What the collection kernels keep.                                       *)

(* What no step of a collection kernel touches.                            *)
Still ==
    UNCHANGED <<pc, deleted, need, insert, crid2grid, resident, head, cursor, reclaim, bitmap, new,
                popped, sent, admitted, evicted>>

(* A step of a collection kernel has to keep the types and the distinct    *)
(* victims, and to show that it collects; the rest follows.                *)
LEMMA CollectionKeeps ==
    ASSUME CacheInv, Still, pc \in Collecting, Collected',
           count' \in Nat, maxOffset' \in Nat, victims' \in Seq(Slots), Len(victims') <= Len(new),
           offset' \in [Threads -> 0 .. Cap], checked' \in [Threads -> BOOLEAN],
           VictimsDistinct'
    PROVE  CacheInv'
<1>f. pc' = pc /\ pc # "mark" /\ pc # "ring" /\ pc \notin Before /\ pc \notin After
  BY Zenon DEF Still, Collecting, Before, After
<1>1. CacheTypes'
  BY Zenon DEF CacheInv, CacheTypes, Still
<1>2. Indexed' /\ FlaggedAreDeleted'
  BY Zenon DEF CacheInv, Indexed, FlaggedAreDeleted, Still
<1>3. TransfersMatchIndex'
  BY <1>f, Zenon DEF TransfersMatchIndex, After
<1>4. Totals'
  BY Zenon DEF CacheInv, Totals, Still
<1>5. Wanted'
  <2>1. \A i : Given(i)' = Given(i)
    BY <1>f, Zenon DEF Given
  <2>2. /\ pc' # "mark" /\ pc' # "ring" /\ pc' \notin Before /\ pc' \notin After
        /\ new' = new /\ need' = need /\ crid2grid' = crid2grid /\ popped' = popped
        /\ insert' = insert /\ bitmap' = bitmap
    BY <1>f, Zenon DEF Still
  <2>3. /\ popped = <<>> /\ Cardinality(need) <= Cap /\ (insert # {} => bitmap = insert)
        /\ \A c \in need : crid2grid[c] # None \/ \E i \in DOMAIN new : new[i] = c
        /\ \A i, j \in DOMAIN new : new[i] = new[j] => i = j
        /\ \A i \in DOMAIN new : new[i] \in need /\ crid2grid[new[i]] = Given(i)
    BY <1>f, Zenon DEF CacheInv, Wanted
  <2> QED BY <2>1, <2>2, <2>3, Zenon DEF Wanted
<1> QED BY <1>1, <1>2, <1>3, <1>4, <1>5, Zenon DEF CacheInv

(* The shape of the numbers while a kernel collects.                       *)
LEMMA CollectionNumbers ==
    ASSUME CacheInv, pc \in Collecting
    PROVE  /\ Cap \in Nat \ {0} /\ NumThreads \in Nat \ {0} /\ None \notin Slots
           /\ head \in 0 .. Cap /\ count \in Nat /\ Len(new) \in Nat /\ Deficit \in Nat \ {0}
           /\ Deficit <= Len(new) /\ Len(victims) <= Deficit /\ Len(victims) \in Nat
           /\ DOMAIN victims = 1 .. Len(victims) /\ victims \in Seq(Slots)
           /\ offset \in [Threads -> 0 .. Cap] /\ checked \in [Threads -> BOOLEAN]
           /\ maxOffset \in Nat /\ cursor \in Slots
<1>1. Cap \in Nat \ {0} /\ NumThreads \in Nat \ {0} /\ None \notin Slots
  BY CacheAssumption, Zenon DEF CacheAssumption
<1>2. /\ head \in 0 .. Cap /\ count \in Nat /\ new \in Seq(Records) /\ victims \in Seq(Slots)
      /\ offset \in [Threads -> 0 .. Cap] /\ checked \in [Threads -> BOOLEAN]
      /\ maxOffset \in Nat /\ cursor \in Slots
  BY Zenon DEF CacheInv, CacheTypes
<1>3. /\ Len(new) \in Nat /\ Len(victims) \in Nat /\ DOMAIN victims = 1 .. Len(victims)
  BY <1>2
<1>4. Deficit = Len(new) - (Cap - head) /\ Len(new) > Cap - head
  BY Zenon DEF CacheInv, Collected, Deficit, Free
<1>5. Len(victims) = IF count < Deficit THEN count ELSE Deficit
  BY Zenon DEF CacheInv, Collected
<1>6. Deficit \in Nat \ {0} /\ Deficit <= Len(new)
  BY <1>1, <1>2, <1>3, <1>4
<1>7. Len(victims) <= Deficit
  BY <1>2, <1>5, <1>6
<1> QED BY <1>1, <1>2, <1>3, <1>6, <1>7, Zenon

(* A thread leaves only when the counter has reached the deficit, and then *)
(* no slot has to be scanned any more.                                     *)
LEMMA CheckCountKeeps ==
    ASSUME CacheInv, NEW t \in Threads, CheckCount(t)
    PROVE  CacheInv'
<1>f. /\ pc \in Collecting /\ Still /\ offset[t] < Cap
      /\ UNCHANGED <<needed, count, maxOffset, victims>>
  BY Zenon DEF CheckCount, Collecting, Still, work, maps, totals
<1>0. /\ Cap \in Nat \ {0} /\ NumThreads \in Nat \ {0} /\ count \in Nat /\ Deficit \in Nat \ {0}
      /\ Deficit <= Len(new) /\ Len(victims) <= Deficit /\ Len(victims) \in Nat /\ Len(new) \in Nat
      /\ offset \in [Threads -> 0 .. Cap] /\ checked \in [Threads -> BOOLEAN]
      /\ maxOffset \in Nat /\ victims \in Seq(Slots)
  BY <1>f, CollectionNumbers, Zenon
<1>1. \/ count >= Deficit /\ offset' = [offset EXCEPT ![t] = Cap] /\ checked' = checked
      \/ checked' = [checked EXCEPT ![t] = TRUE] /\ offset' = offset
  BY Zenon DEF CheckCount
<1>2. offset' \in [Threads -> 0 .. Cap] /\ checked' \in [Threads -> BOOLEAN]
  <2>1. offset' \in [Threads -> 0 .. Cap]
    BY <1>0, <1>1
  <2>2. checked' \in [Threads -> BOOLEAN]
    BY <1>0, <1>1, Zenon
  <2> QED BY <2>1, <2>2, Zenon
<1>3. \A u \in Threads : offset'[u] = offset[u] \/ offset'[u] = Cap
  BY <1>0, <1>1, Zenon
<1>4. \A o \in Slots : Scanned(o) => Scanned(o)'
  <2> SUFFICES ASSUME NEW o \in Slots, Scanned(o) PROVE Scanned(o)'
    BY Zenon
  <2> DEFINE u == o % NumThreads
  <2>1. o \in Nat /\ o < Cap
    BY <1>0 DEF Slots
  <2>2. u \in Threads
    BY <2>1, <1>0, ModRange, Zenon DEF Threads
  <2>3. (Scanned(o)' <=> o < offset'[u]) /\ (Scanned(o) <=> o < offset[u])
    BY Zenon DEF Scanned
  <2> HIDE DEF u
  <2> QED BY <2>1, <2>2, <2>3, <1>3, Zenon
<1>5. Deficit' = Deficit /\ Free' = Free /\ GridsOf(need)' = GridsOf(need) /\ \A o : SlotAt(o)' = SlotAt(o)
  BY <1>f, Zenon DEF Still, Deficit, Free, GridsOf, SlotAt
<1>6. count < Deficit => \A o \in Slots : Scanned(o)' <=> Scanned(o)
  <2>1. count < Deficit => offset' = offset
    BY <1>0, <1>1
  <2> QED BY <2>1, Zenon DEF Scanned
<1>7. \A u \in Threads : offset'[u] = Cap \/ offset'[u] % NumThreads = u
  BY <1>3, <1>f, Zenon DEF CacheInv, Collected
<1>8. Collected'
  <2>1. /\ Len(new)' > Free'
        /\ Len(victims)' = IF count' < Deficit' THEN count' ELSE Deficit'
        /\ GridsOf(need)' \subseteq needed' /\ needed' \subseteq GridsOf(need)' \cup Range(victims)'
        /\ \A i \in DOMAIN victims' : resident'[victims'[i]] # None /\ resident'[victims'[i]] \notin need'
        /\ pc' = "reclaim" => Range(victims)' \subseteq needed'
    BY <1>f, <1>5, Zenon DEF CacheInv, Collected, Still
  <2>2. ASSUME pc' = "fifo"
        PROVE \A i \in DOMAIN victims' :
                 victims'[i] \in needed' \/ \E o \in Slots : Scanned(o)' /\ victims'[i] = SlotAt(o)'
    BY <2>2, <1>f, <1>4, <1>5, Zenon DEF CacheInv, Collected, Still
  <2>3. ASSUME pc' = "fifo", count' < Deficit', NEW o \in Slots, Scanned(o)'
        PROVE  \/ resident'[SlotAt(o)'] = None \/ SlotAt(o)' \in needed'
               \/ SlotAt(o)' \in Range(victims)'
    BY <2>3, <1>f, <1>5, <1>6, Zenon DEF CacheInv, Collected, Still
  <2> QED BY <2>1, <2>2, <2>3, <1>7, Zenon DEF Collected
<1>9. VictimsDistinct'
  BY <1>f, Zenon DEF CacheInv, VictimsDistinct
<1>10. Len(victims') <= Len(new)
  BY <1>0, <1>f
<1>11. count' \in Nat /\ maxOffset' \in Nat /\ victims' \in Seq(Slots)
  BY <1>0, <1>f, Zenon
<1> QED BY <1>2, <1>8, <1>9, <1>10, <1>11, <1>f, CollectionKeeps, Zenon

(* A slot no epoch record holds and no thread has taken becomes a victim,  *)
(* if the counter is still below the deficit.                              *)
LEMMA CollectOne ==
    ASSUME CacheInv, pc \in Collecting, Still, NEW g \in Slots, Collect(g),
           g \notin Range(victims), resident[g] # None, resident[g] \notin need
    PROVE  /\ count' \in Nat /\ victims' \in Seq(Slots) /\ Len(victims') <= Len(new)
           /\ Len(victims') = IF count' < Deficit THEN count' ELSE Deficit
           /\ count' < Deficit => count < Deficit
           /\ Range(victims') = IF count < Deficit THEN Range(victims) \cup {g} ELSE Range(victims)
           /\ \A i \in DOMAIN victims' : resident[victims'[i]] # None /\ resident[victims'[i]] \notin need
           /\ VictimsDistinct'
<1>0. /\ count \in Nat /\ Deficit \in Nat \ {0} /\ Deficit <= Len(new) /\ Len(new) \in Nat
      /\ victims \in Seq(Slots) /\ Len(victims) \in Nat /\ DOMAIN victims = 1 .. Len(victims)
      /\ Len(victims) <= Deficit
  BY CollectionNumbers, Zenon
<1>1. /\ count' = count + 1 /\ count' \in Nat
      /\ victims' = IF count < Deficit THEN Append(victims, g) ELSE victims
  BY <1>0 DEF Collect
<1>2. Len(victims) = IF count < Deficit THEN count ELSE Deficit
  BY Zenon DEF CacheInv, Collected
<1>3. count' < Deficit => count < Deficit
  BY <1>0, <1>1
<1>4. \A i \in DOMAIN victims : resident[victims[i]] # None /\ resident[victims[i]] \notin need
  BY Zenon DEF CacheInv, Collected
<1>5. \A i, j \in DOMAIN victims : victims[i] = victims[j] => i = j
  BY Zenon DEF CacheInv, VictimsDistinct
<1>6. CASE ~(count < Deficit)
  <2>1. victims' = victims
    BY <1>1, <1>6, Zenon
  <2>2. Len(victims') = IF count' < Deficit THEN count' ELSE Deficit
    <3>1. Len(victims) = Deficit
      BY <1>2, <1>6, Zenon
    <3> QED BY <3>1, <2>1, <1>3, <1>6, Zenon
  <2>3. Len(victims') <= Len(new)
    BY <2>1, <1>0
  <2> QED BY <2>1, <2>2, <2>3, <1>0, <1>1, <1>3, <1>4, <1>5, <1>6, ZenonT(40) DEF VictimsDistinct
<1>7. CASE count < Deficit
  <2>1. /\ victims' = Append(victims, g) /\ victims' \in Seq(Slots)
        /\ Len(victims') = Len(victims) + 1 /\ DOMAIN victims' = 1 .. Len(victims) + 1
        /\ victims'[Len(victims) + 1] = g
        /\ \A i \in DOMAIN victims : victims'[i] = victims[i]
    BY <1>0, <1>1, <1>7
  <2>2. Len(victims') = IF count' < Deficit THEN count' ELSE Deficit
    BY <2>1, <1>0, <1>1, <1>2, <1>7
  <2>3. Len(victims') <= Len(new)
    BY <2>1, <1>0, <1>2, <1>7
  <2>4. /\ \A i \in DOMAIN victims' : i \in DOMAIN victims \/ i = Len(victims) + 1
        /\ DOMAIN victims \subseteq DOMAIN victims' /\ Len(victims) + 1 \in DOMAIN victims'
    BY <2>1, <1>0
  <2> DEFINE k == Len(victims) + 1
             w == victims'
  <2>a. /\ \A i \in DOMAIN w : i \in DOMAIN victims \/ i = k
        /\ DOMAIN victims \subseteq DOMAIN w /\ k \in DOMAIN w /\ w[k] = g
        /\ \A i \in DOMAIN victims : w[i] = victims[i]
    BY <2>1, <2>4, Zenon
  <2> HIDE DEF k, w
  <2>b. Range(w) = Range(victims) \cup {g}
    <3>1. \A i \in DOMAIN w : w[i] \in Range(victims) \cup {g}
      BY <2>a, Zenon DEF Range
    <3>2. \A i \in DOMAIN victims : victims[i] \in Range(w)
      BY <2>a, Zenon DEF Range
    <3>3. g \in Range(w)
      BY <2>a, Zenon DEF Range
    <3> QED BY <3>1, <3>2, <3>3, Zenon DEF Range
  <2>c. \A i \in DOMAIN victims : victims[i] # g
    BY Zenon DEF Range
  <2>d. \A i, j \in DOMAIN w : w[i] = w[j] => i = j
    BY <2>a, <2>c, <1>5, Zenon
  <2>5. Range(victims') = Range(victims) \cup {g}
    BY <2>b, Zenon DEF w
  <2>6. \A i \in DOMAIN victims' : resident[victims'[i]] # None /\ resident[victims'[i]] \notin need
    BY <2>1, <2>4, <1>4, Zenon
  <2>8. VictimsDistinct'
    BY <2>d, Zenon DEF VictimsDistinct, w
  <2> QED BY <2>1, <2>2, <2>3, <2>5, <2>6, <2>8, <1>1, <1>3, <1>7, ZenonT(40)
<1> QED BY <1>6, <1>7, Zenon

(* A resident slot that is not flagged as needed holds no epoch record.    *)
LEMMA UnneededSlot ==
    ASSUME CacheInv, pc \in Collecting, NEW g \in Slots, resident[g] # None, g \notin needed
    PROVE  resident[g] \notin need
<1>1. SUFFICES ASSUME resident[g] \in need PROVE FALSE
  BY Zenon
<1>2. resident[g] \in Records
  BY <1>1, Zenon DEF CacheInv, CacheTypes
<1>3. crid2grid[resident[g]] = g
  BY <1>2, Zenon DEF CacheInv, Indexed
<1>4. g # None
  BY CacheAssumption, Zenon DEF CacheAssumption
<1>5. g \in GridsOf(need)
  BY <1>1, <1>3, <1>4, Zenon DEF GridsOf
<1> QED BY <1>5, Zenon DEF CacheInv, Collected

(* The first pass protects what it takes from the second.                  *)
LEMMA CollectReclaimKeeps ==
    ASSUME CacheInv, NEW t \in Threads, CollectReclaim(t)
    PROVE  CacheInv'
<1> DEFINE g == offset[t]
<1>f. /\ pc = "reclaim" /\ Still /\ g < Cap /\ offset' = NextOffset(t)
      /\ checked' = [checked EXCEPT ![t] = FALSE] /\ maxOffset' = maxOffset
  BY Zenon DEF CollectReclaim, Still, work, maps, totals
<1>c. pc \in Collecting /\ pc' = "reclaim"
  BY <1>f, Zenon DEF Collecting, Still
<1>0. /\ count \in Nat /\ Deficit \in Nat \ {0} /\ Deficit <= Len(new) /\ Len(new) \in Nat
      /\ victims \in Seq(Slots) /\ Len(victims) \in Nat /\ Len(victims) <= Deficit
      /\ offset \in [Threads -> 0 .. Cap] /\ checked \in [Threads -> BOOLEAN] /\ maxOffset \in Nat
  BY <1>c, CollectionNumbers, Zenon
<1>1. \A u \in Threads : offset[u] = Cap \/ offset[u] % NumThreads = u
  BY <1>c, Zenon DEF CacheInv, Collected
<1>2. /\ offset' \in [Threads -> 0 .. Cap] /\ g \in Slots
      /\ \A u \in Threads : offset'[u] = Cap \/ offset'[u] % NumThreads = u
  BY <1>0, <1>1, <1>f, NextScan, Zenon
<1>3. checked' \in [Threads -> BOOLEAN]
  BY <1>0, <1>f, Zenon
<1>4. Deficit' = Deficit /\ Free' = Free /\ GridsOf(need)' = GridsOf(need)
  BY <1>f, Zenon DEF Still, Deficit, Free, GridsOf
<1>5. /\ Len(new) > Free /\ Len(victims) = IF count < Deficit THEN count ELSE Deficit
      /\ GridsOf(need) \subseteq needed /\ needed \subseteq GridsOf(need) \cup Range(victims)
      /\ \A i \in DOMAIN victims : resident[victims[i]] # None /\ resident[victims[i]] \notin need
      /\ Range(victims) \subseteq needed
  BY <1>c, <1>f, Zenon DEF CacheInv, Collected
<1>6. SUFFICES
        /\ count' \in Nat /\ victims' \in Seq(Slots) /\ Len(victims') <= Len(new)
        /\ Len(victims') = IF count' < Deficit THEN count' ELSE Deficit
        /\ \A i \in DOMAIN victims' : resident[victims'[i]] # None /\ resident[victims'[i]] \notin need
        /\ VictimsDistinct'
        /\ GridsOf(need) \subseteq needed' /\ needed' \subseteq GridsOf(need) \cup Range(victims')
        /\ Range(victims') \subseteq needed'
  <2>1. Collected'
    BY <1>2, <1>4, <1>5, <1>6, <1>c, <1>f, Zenon DEF Collected, Still
  <2>2. maxOffset' \in Nat
    BY <1>0, <1>f, Zenon
  <2> HIDE DEF g
  <2> QED BY <2>1, <2>2, <1>2, <1>3, <1>6, <1>c, <1>f, CollectionKeeps, ZenonT(40)
<1>7. \/ /\ Collect(g) /\ resident[g] # None /\ g \notin needed
         /\ needed' = IF count < Deficit THEN needed \cup {g} ELSE needed
      \/ UNCHANGED <<count, victims, needed>>
  BY Zenon DEF CollectReclaim
<1>8. CASE UNCHANGED <<count, victims, needed>>
  <2>1. Len(victims) <= Len(new)
    BY <1>0
  <2>2. VictimsDistinct'
    BY <1>8, Zenon DEF CacheInv, VictimsDistinct
  <2> QED BY <2>1, <2>2, <1>0, <1>5, <1>8, Zenon
<1>9. CASE /\ Collect(g) /\ resident[g] # None /\ g \notin needed
           /\ needed' = IF count < Deficit THEN needed \cup {g} ELSE needed
  <2> HIDE DEF g
  <2>1. g \notin Range(victims)
    BY <1>5, <1>9, Zenon
  <2>2. resident[g] \notin need
    BY <1>2, <1>9, <1>c, UnneededSlot, Zenon
  <2>3. /\ count' \in Nat /\ victims' \in Seq(Slots) /\ Len(victims') <= Len(new)
        /\ Len(victims') = IF count' < Deficit THEN count' ELSE Deficit
        /\ Range(victims') = IF count < Deficit THEN Range(victims) \cup {g} ELSE Range(victims)
        /\ \A i \in DOMAIN victims' : resident[victims'[i]] # None /\ resident[victims'[i]] \notin need
        /\ VictimsDistinct'
    BY <2>1, <2>2, <1>2, <1>9, <1>c, <1>f, CollectOne, ZenonT(40)
  <2>4. /\ GridsOf(need) \subseteq needed' /\ needed' \subseteq GridsOf(need) \cup Range(victims')
        /\ Range(victims') \subseteq needed'
    BY <2>3, <1>5, <1>9, Zenon
  <2> QED BY <2>3, <2>4, Zenon
<1> QED BY <1>7, <1>8, <1>9, Zenon

(* The second pass takes the slot at its offset or may pass it by.         *)
LEMMA CollectFifoKeeps ==
    ASSUME CacheInv, NEW t \in Threads, CollectFifo(t)
    PROVE  CacheInv'
<1> DEFINE g == SlotAt(offset[t])
<1>f. /\ pc = "fifo" /\ Still /\ offset[t] < Cap /\ offset' = NextOffset(t) /\ needed' = needed
      /\ checked' = [checked EXCEPT ![t] = FALSE]
  BY Zenon DEF CollectFifo, Still, work, maps, totals
<1>c. pc \in Collecting /\ pc' = "fifo"
  BY <1>f, Zenon DEF Collecting, Still
<1>0. /\ count \in Nat /\ Deficit \in Nat \ {0} /\ Deficit <= Len(new) /\ Len(new) \in Nat
      /\ victims \in Seq(Slots) /\ Len(victims) \in Nat /\ Len(victims) <= Deficit
      /\ offset \in [Threads -> 0 .. Cap] /\ checked \in [Threads -> BOOLEAN] /\ maxOffset \in Nat
      /\ cursor \in Slots
  BY <1>c, CollectionNumbers, Zenon
<1>1. \A u \in Threads : offset[u] = Cap \/ offset[u] % NumThreads = u
  BY <1>c, Zenon DEF CacheInv, Collected
<1>2. /\ offset' \in [Threads -> 0 .. Cap] /\ offset[t] \in Slots
      /\ \A u \in Threads : offset'[u] = Cap \/ offset'[u] % NumThreads = u
      /\ \A o \in Slots : Scanned(o)' <=> Scanned(o) \/ o = offset[t]
      /\ ~Scanned(offset[t])
  BY <1>0, <1>1, <1>f, NextScan, Zenon
<1>3. checked' \in [Threads -> BOOLEAN]
  BY <1>0, <1>f, Zenon
<1>4. /\ Deficit' = Deficit /\ Free' = Free /\ GridsOf(need)' = GridsOf(need)
      /\ \A o : SlotAt(o)' = SlotAt(o)
  BY <1>f, Zenon DEF Still, Deficit, Free, GridsOf, SlotAt
<1>5. /\ Len(new) > Free /\ Len(victims) = IF count < Deficit THEN count ELSE Deficit
      /\ GridsOf(need) \subseteq needed /\ needed \subseteq GridsOf(need) \cup Range(victims)
      /\ \A i \in DOMAIN victims : resident[victims[i]] # None /\ resident[victims[i]] \notin need
      /\ \A v \in Range(victims) : v \in needed \/ \E o \in Slots : Scanned(o) /\ v = SlotAt(o)
      /\ count < Deficit => \A o \in Slots : Scanned(o) =>
            resident[SlotAt(o)] = None \/ SlotAt(o) \in needed \/ SlotAt(o) \in Range(victims)
  BY <1>c, <1>f, Zenon DEF CacheInv, Collected, Range
<1>s. g \in Slots /\ \A o \in Slots : SlotAt(o) = g => o = offset[t]
  BY <1>0, <1>2, SlotAtOnce, Zenon
<1>6. SUFFICES
        /\ count' \in Nat /\ maxOffset' \in Nat /\ victims' \in Seq(Slots) /\ Len(victims') <= Len(new)
        /\ Len(victims') = IF count' < Deficit THEN count' ELSE Deficit
        /\ \A i \in DOMAIN victims' : resident[victims'[i]] # None /\ resident[victims'[i]] \notin need
        /\ VictimsDistinct'
        /\ Range(victims) \subseteq Range(victims') /\ Range(victims') \subseteq Range(victims) \cup {g}
        /\ count' < Deficit => count < Deficit
        /\ count' < Deficit => resident[g] = None \/ g \in needed \/ g \in Range(victims')
  <2>1. \A i \in DOMAIN victims' :
           victims'[i] \in needed' \/ \E o \in Slots : Scanned(o)' /\ victims'[i] = SlotAt(o)'
    <3> SUFFICES ASSUME NEW v \in Range(victims')
                 PROVE  v \in needed \/ \E o \in Slots : Scanned(o)' /\ v = SlotAt(o)
      BY <1>4, <1>f, Zenon DEF Range
    <3>1. CASE v \in Range(victims)
      BY <3>1, <1>2, <1>5, Zenon
    <3>2. CASE v = g
      BY <3>2, <1>2, Zenon
    <3> QED BY <3>1, <3>2, <1>6, Zenon
  <2>2. ASSUME count' < Deficit', NEW o \in Slots, Scanned(o)'
        PROVE  \/ resident'[SlotAt(o)'] = None \/ SlotAt(o)' \in needed'
               \/ SlotAt(o)' \in Range(victims)'
    <3>1. SUFFICES resident[SlotAt(o)] = None \/ SlotAt(o) \in needed \/ SlotAt(o) \in Range(victims')
      BY <1>4, <1>f, Zenon DEF Still
    <3>2. count' < Deficit /\ count < Deficit
      BY <2>2, <1>4, <1>6, Zenon
    <3>3. CASE Scanned(o)
      BY <3>2, <3>3, <1>5, <1>6, Zenon
    <3>4. CASE o = offset[t]
      BY <3>2, <3>4, <1>6, Zenon
    <3> QED BY <3>3, <3>4, <2>2, <1>2, Zenon
  <2>3. needed \subseteq GridsOf(need) \cup Range(victims')
    BY <1>5, <1>6, Zenon
  <2> HIDE DEF g
  <2>4. /\ Len(new)' > Free'
        /\ Len(victims)' = IF count' < Deficit' THEN count' ELSE Deficit'
        /\ GridsOf(need)' \subseteq needed' /\ needed' \subseteq GridsOf(need)' \cup Range(victims)'
        /\ \A i \in DOMAIN victims' : resident'[victims'[i]] # None /\ resident'[victims'[i]] \notin need'
    BY <2>3, <1>4, <1>5, <1>6, <1>f, Zenon DEF Still
  <2>5. Collected'
    BY <2>1, <2>2, <2>4, <1>2, <1>c, Zenon DEF Collected
  <2> QED BY <2>5, <1>2, <1>3, <1>6, <1>c, <1>f, CollectionKeeps, ZenonT(40)
<1>7. \/ /\ Collect(g) /\ resident[g] # None /\ g \notin needed
         /\ maxOffset' = IF count < Deficit /\ maxOffset < offset[t] THEN offset[t] ELSE maxOffset
      \/ /\ ~(resident[g] # None /\ g \notin needed)
         /\ UNCHANGED <<count, victims, maxOffset>>
  BY Zenon DEF CollectFifo, SlotAt
<1>8. CASE /\ ~(resident[g] # None /\ g \notin needed)
           /\ UNCHANGED <<count, victims, maxOffset>>
  <2>1. Len(victims) <= Len(new)
    BY <1>0
  <2>2. VictimsDistinct'
    BY <1>8, Zenon DEF CacheInv, VictimsDistinct
  <2> HIDE DEF g
  <2> QED BY <2>1, <2>2, <1>0, <1>5, <1>8, Zenon
<1>9. CASE /\ Collect(g) /\ resident[g] # None /\ g \notin needed
           /\ maxOffset' = IF count < Deficit /\ maxOffset < offset[t] THEN offset[t] ELSE maxOffset
  <2>1. g \notin Range(victims)
    BY <1>2, <1>5, <1>9, <1>s, Zenon
  <2> HIDE DEF g
  <2>2. resident[g] \notin need
    BY <1>9, <1>c, <1>s, UnneededSlot, Zenon
  <2>3. /\ count' \in Nat /\ victims' \in Seq(Slots) /\ Len(victims') <= Len(new)
        /\ Len(victims') = IF count' < Deficit THEN count' ELSE Deficit
        /\ count' < Deficit => count < Deficit
        /\ Range(victims') = IF count < Deficit THEN Range(victims) \cup {g} ELSE Range(victims)
        /\ \A i \in DOMAIN victims' : resident[victims'[i]] # None /\ resident[victims'[i]] \notin need
        /\ VictimsDistinct'
    BY <2>1, <2>2, <1>9, <1>c, <1>f, <1>s, CollectOne, ZenonT(40)
  <2>4. maxOffset' \in Nat
    BY <1>0, <1>9
  <2>5. /\ Range(victims) \subseteq Range(victims') /\ Range(victims') \subseteq Range(victims) \cup {g}
        /\ count' < Deficit => g \in Range(victims')
    BY <2>3, Zenon
  <2> QED BY <2>3, <2>4, <2>5, Zenon
<1> QED BY <1>7, <1>8, <1>9, Zenon

(* The second pass starts with what the first took.                        *)
LEMMA TopUpKeeps == CacheInv /\ TopUp => CacheInv'
<1> SUFFICES ASSUME CacheInv, TopUp PROVE CacheInv'
  BY Zenon
<1>f. /\ pc = "reclaim" /\ pc' = "fifo" /\ offset' = ScanStart /\ checked' = [t \in Threads |-> FALSE]
      /\ UNCHANGED <<deleted, need, insert, crid2grid, resident, head, cursor, reclaim, needed, bitmap,
                     new, count, maxOffset, victims, popped, sent, admitted, evicted>>
  BY Zenon DEF TopUp, work, maps, totals
<1>c. /\ pc \in Collecting /\ pc' \in Collecting /\ pc \notin Before /\ pc' \notin Before
      /\ pc \notin After /\ pc' \notin After /\ pc' # "mark" /\ pc' # "ring" /\ pc' # "remap"
  BY <1>f, Zenon DEF Collecting, Before, After
<1>1. /\ offset' \in [Threads -> 0 .. Cap]
      /\ \A t \in Threads : offset'[t] = Cap \/ offset'[t] % NumThreads = t
      /\ \A o \in Slots : ~Scanned(o)'
  BY <1>f, FreshScan, Zenon
<1>2. CacheTypes'
  <2>1. checked' \in [Threads -> BOOLEAN]
    BY <1>f, Zenon
  <2> QED BY <2>1, <1>1, <1>c, <1>f, Zenon DEF CacheInv, CacheTypes
<1>3. Indexed' /\ VictimsDistinct' /\ FlaggedAreDeleted'
  BY <1>f, Zenon DEF CacheInv, Indexed, VictimsDistinct, FlaggedAreDeleted
<1>4. TransfersMatchIndex'
  BY <1>c, Zenon DEF TransfersMatchIndex
<1>5. Totals'
  BY <1>c, <1>f, Zenon DEF CacheInv, Totals
<1>6. Wanted'
  <2>1. \A i : Given(i)' = Given(i)
    BY <1>c, Zenon DEF Given
  <2>2. /\ popped = <<>> /\ Cardinality(need) <= Cap /\ (insert # {} => bitmap = insert)
        /\ \A c \in need : crid2grid[c] # None \/ \E i \in DOMAIN new : new[i] = c
        /\ \A i, j \in DOMAIN new : new[i] = new[j] => i = j
        /\ \A i \in DOMAIN new : new[i] \in need /\ crid2grid[new[i]] = Given(i)
        /\ Len(victims) <= Len(new)
    BY <1>c, Zenon DEF CacheInv, Wanted
  <2> QED BY <2>1, <2>2, <1>c, <1>f, Zenon DEF Wanted
<1>7. Collected'
  <2>1. Deficit' = Deficit /\ Free' = Free /\ GridsOf(need)' = GridsOf(need)
    BY <1>f, Zenon DEF Deficit, Free, GridsOf
  <2>2. \A i \in DOMAIN victims : victims[i] \in needed
    BY <1>c, <1>f, Zenon DEF CacheInv, Collected, Range
  <2>3. /\ Len(new) > Free /\ Len(victims) = IF count < Deficit THEN count ELSE Deficit
        /\ GridsOf(need) \subseteq needed /\ needed \subseteq GridsOf(need) \cup Range(victims)
        /\ \A i \in DOMAIN victims : resident[victims[i]] # None /\ resident[victims[i]] \notin need
    BY <1>c, Zenon DEF CacheInv, Collected
  <2>4. pc' # "reclaim"
    BY <1>f, Zenon
  <2> QED BY <2>1, <2>2, <2>3, <2>4, <1>1, <1>f, Zenon DEF Collected
<1> QED BY <1>2, <1>3, <1>4, <1>5, <1>6, <1>7, Zenon DEF CacheInv

--------------------------------------------------------------------------------
(* What binding the missing records keeps.                                 *)

(* Slots change hands only from records the epoch does not need to missing *)
(* ones it needs.                                                          *)
Replaces ==
    \A g \in Slots : resident'[g] # resident[g] =>
        /\ resident[g] \notin need
        /\ \E c \in need : resident'[g] = c /\ crid2grid[c] = None

(* The victims' records lose their entries and the first missing records   *)
(* take the slots.                                                         *)
LEMMA RenameKeeps == CacheInv /\ Rename => CacheInv' /\ Replaces
<1> SUFFICES ASSUME CacheInv, Rename PROVE CacheInv' /\ Replaces
  BY Zenon
<1>f. /\ pc = "fifo" /\ KernelDone /\ cursor' = Advanced /\ reclaim' = Cleared /\ popped' = <<>>
      /\ crid2grid' = Bound(Unbound, First, victims) /\ resident' = Occupied(First, victims)
      /\ pc' = IF Free > 0 THEN "ring" ELSE "transfer"
      /\ UNCHANGED <<deleted, need, insert, head, bitmap, new, count, maxOffset, victims,
                     offset, checked, sent, admitted, evicted>>
  BY Zenon DEF Rename, work, scan, totals
<1>c. /\ pc \in Collecting /\ pc \notin Before /\ pc \notin After
      /\ pc' \in {"ring", "transfer"} /\ pc' \notin Collecting /\ pc' \notin Before
      /\ pc' # "mark" /\ pc' # "remap" /\ (pc' \in After <=> pc' # "ring")
  BY <1>f, Zenon DEF Collecting, Before, After
<1>0. /\ Cap \in Nat \ {0} /\ head \in 0 .. Cap /\ Len(new) \in Nat /\ Deficit \in Nat \ {0}
      /\ Deficit <= Len(new) /\ DOMAIN victims = 1 .. Len(victims) /\ victims \in Seq(Slots)
      /\ None \notin Slots /\ cursor \in Slots /\ maxOffset \in Nat
  BY <1>c, CollectionNumbers, Zenon
<1>n. None \notin Records /\ new \in Seq(Records)
  BY CacheAssumption, Zenon DEF CacheAssumption, CacheInv, CacheTypes
<1>d. Len(victims) = Deficit /\ Deficit = Len(new) - (Cap - head) /\ Free = Cap - head
  <2>1. Len(victims) = Deficit
    BY <1>c, <1>f, CoversDeficit, Zenon DEF CacheInv
  <2> QED BY <2>1, Zenon DEF Deficit, Free
<1> DEFINE D == 1 .. Deficit
<1>1. /\ First \in Seq(Records) /\ DOMAIN First = D /\ DOMAIN victims = D
      /\ D \subseteq DOMAIN new /\ \A i \in D : First[i] = new[i]
  <2>1. First \in Seq(Records) /\ Len(First) = Deficit /\ \A i \in D : First[i] = new[i]
    BY <1>0, <1>n DEF First
  <2>2. DOMAIN First = D
    BY <2>1
  <2>3. DOMAIN victims = D
    BY <1>0, <1>d, Zenon
  <2>4. D \subseteq DOMAIN new
    BY <1>0, <1>n
  <2> QED BY <2>1, <2>2, <2>3, <2>4, Zenon
<1> HIDE DEF D
<1>2. /\ \A i, j \in DOMAIN new : new[i] = new[j] => i = j
      /\ \A i \in DOMAIN new : new[i] \in Records /\ new[i] \in need /\ crid2grid[new[i]] = None
  <2>1. \A i \in DOMAIN new : new[i] \in Records
    BY <1>n
  <2>2. \A i \in DOMAIN new : Given(i) = None
    BY <1>c, Zenon DEF Given
  <2> QED BY <2>1, <2>2, <1>c, Zenon DEF CacheInv, Wanted
<1>3. /\ \A i \in D : resident[victims[i]] # None /\ resident[victims[i]] \notin need
      /\ \A i, j \in D : victims[i] = victims[j] => i = j
      /\ \A i \in D : victims[i] \in Slots
  <2>1. \A i \in D : victims[i] \in Slots
    BY <1>0, <1>1
  <2> QED BY <2>1, <1>1, <1>c, Zenon DEF CacheInv, Collected, VictimsDistinct
<1>4. /\ \A c \in Records, g \in Slots : crid2grid[c] = g <=> resident[g] = c
      /\ crid2grid \in [Records -> Slots \cup {None}] /\ resident \in [Slots -> Records \cup {None}]
  BY Zenon DEF CacheInv, Indexed, CacheTypes
<1>5. \A c \in Records : Unbound[c] = IF \E i \in D : resident[victims[i]] = c THEN None ELSE crid2grid[c]
  BY <1>1, Zenon DEF Unbound
<1>6. Unbound \in [Records -> Slots \cup {None}]
  <2>1. \A c \in Records : Unbound[c] \in Slots \cup {None}
    BY <1>4, <1>5, Zenon
  <2>2. Unbound = [c \in Records |-> Unbound[c]]
    BY Zenon DEF Unbound
  <2> QED BY <2>1, <2>2, Zenon
<1>7. \A c \in Records, g \in Slots :
         (\A i \in D : First[i] # c /\ victims[i] # g) => (Unbound[c] = g <=> resident[g] = c)
  <2> SUFFICES ASSUME NEW c \in Records, NEW g \in Slots, \A i \in D : victims[i] # g
               PROVE  Unbound[c] = g <=> resident[g] = c
    BY Zenon
  <2>1. CASE \E i \in D : resident[victims[i]] = c
    <3>1. Unbound[c] # g
      BY <2>1, <1>0, <1>5
    <3>2. resident[g] # c
      BY <2>1, <1>3, <1>4
    <3> QED BY <3>1, <3>2, Zenon
  <2>2. CASE ~\E i \in D : resident[victims[i]] = c
    BY <2>2, <1>4, <1>5, Zenon
  <2> QED BY <2>1, <2>2, Zenon
<1>8. \A c \in Records : (\A i \in D : First[i] # c) => \A i \in D : Unbound[c] # victims[i]
  BY <1>0, <1>3, <1>4, <1>5
<1>9. \A g \in Slots : (\A i \in D : victims[i] # g) => \A i \in D : resident[g] # First[i]
  BY <1>0, <1>1, <1>2, <1>4
<1>10. \A i, j \in D : First[i] = First[j] => i = j
  BY <1>1, <1>2, Zenon
<1>11. /\ crid2grid' \in [Records -> Slots \cup {None}] /\ resident' \in [Slots -> Records \cup {None}]
       /\ \A i \in D : crid2grid'[First[i]] = victims[i] /\ resident'[victims[i]] = First[i]
       /\ \A c \in Records : (\A i \in D : First[i] # c) => crid2grid'[c] = Unbound[c]
       /\ \A g \in Slots : (\A i \in D : victims[i] # g) => resident'[g] = resident[g]
       /\ \A c \in Records, g \in Slots : crid2grid'[c] = g <=> resident'[g] = c
  <2>1. /\ DOMAIN First = D /\ DOMAIN victims = D /\ First \in Seq(Records) /\ victims \in Seq(Slots)
        /\ \A i, j \in D : victims[i] = victims[j] => i = j
    BY <1>0, <1>1, <1>3, Zenon
  <2>2. Fits(Unbound, First, victims, D)
    BY <2>1, <1>4, <1>6, <1>7, <1>8, <1>9, <1>10, Zenon DEF Fits
  <2>3. Gives(Unbound, First, victims, D, crid2grid', resident')
    BY <2>2, <1>f, BindingKept, Zenon
  <2> QED BY <2>3, Zenon DEF Gives
<1>12. Indexed'
  <2>1. ASSUME NEW g \in Slots PROVE resident'[g] = None <=> g >= head
    <3>0. resident[g] = None <=> g >= head
      BY Zenon DEF CacheInv, Indexed
    <3>1. CASE \E i \in D : victims[i] = g
      <4>1. PICK i \in D : victims[i] = g
        BY <3>1, Zenon
      <4>2. resident'[g] = new[i] /\ new[i] \in Records /\ resident[g] # None
        BY <4>1, <1>1, <1>2, <1>3, <1>11, Zenon
      <4> QED BY <4>2, <3>0, <1>n, Zenon
    <3>2. CASE ~\E i \in D : victims[i] = g
      BY <3>0, <3>2, <1>11, Zenon
    <3> QED BY <3>1, <3>2, Zenon
  <2> QED BY <2>1, <1>11, <1>f, Zenon DEF Indexed
<1>13. CacheTypes'
  <2>1. cursor' \in Slots
    <3> DEFINE a == cursor + maxOffset + 1
    <3>1. a \in Nat
      BY <1>0 DEF Slots
    <3>2. cursor' = a % Cap
      BY <1>f, Zenon DEF Advanced
    <3> HIDE DEF a
    <3>3. a % Cap \in 0 .. Cap - 1
      BY <3>1, <1>0, ModRange, Zenon
    <3> QED BY <3>2, <3>3, Zenon DEF Slots
  <2>2. reclaim' \subseteq Slots
    BY <1>f, Zenon DEF CacheInv, CacheTypes, Cleared
  <2>3. popped' \in Seq(Slots)
    BY <1>f
  <2>4. pc' \in Before \cup Collecting \cup {"ring"} \cup After
    BY <1>f, Zenon DEF After
  <2> QED BY <2>1, <2>2, <2>3, <2>4, <1>11, <1>f, ZenonT(40) DEF CacheInv, CacheTypes
<1>14. Totals'
  <2>1. admitted' - evicted' = Cap
    BY <1>c, <1>f, Zenon DEF CacheInv, Totals
  <2>2. head + Len(new) - Len(victims) = Cap
    BY <1>0, <1>d
  <2>3. pc' # "ring" => head = Cap
    BY <1>0, <1>d, <1>f
  <2> QED BY <2>1, <2>2, <2>3, <1>c, <1>f, Zenon DEF Totals
<1>15. Wanted'
  <2>1. ASSUME NEW c \in need, crid2grid[c] # None PROVE crid2grid'[c] # None
    <3>1. c \in Records
      BY Zenon DEF CacheInv, CacheTypes
    <3>2. \A i \in D : First[i] # c
      BY <2>1, <1>1, <1>2, Zenon
    <3>3. \A i \in D : resident[victims[i]] # c
      BY <1>3, Zenon
    <3>4. Unbound[c] = crid2grid[c]
      BY <3>1, <3>3, <1>5, Zenon
    <3>5. crid2grid'[c] = Unbound[c]
      BY <3>1, <3>2, <1>11, Zenon
    <3> QED BY <2>1, <3>4, <3>5, Zenon
  <2>2. ASSUME NEW i \in DOMAIN new PROVE crid2grid'[new[i]] = Given(i)'
    <3>0. i \in 1 .. Len(new)
      BY <1>n
    <3>1. CASE i <= Len(victims)
      <4>1. i \in D
        BY <3>0, <3>1, <1>0, <1>d DEF D
      <4>2. Given(i)' = victims[i]
        BY <3>1, <1>c, <1>f, Zenon DEF Given
      <4> QED BY <4>1, <4>2, <1>1, <1>11, ZenonT(40)
    <3>2. CASE ~(i <= Len(victims))
      <4>1. i \notin D /\ pc' = "ring"
        BY <3>0, <3>2, <1>0, <1>d, <1>f DEF D
      <4>2. \A j \in D : First[j] # new[i]
        BY <4>1, <1>1, <1>2, Zenon
      <4>3. crid2grid'[new[i]] = Unbound[new[i]] /\ Unbound[new[i]] = None
        BY <4>2, <1>2, <1>5, <1>11, ZenonT(30)
      <4>4. Given(i)' = None
        BY <3>2, <4>1, <1>c, <1>f, Zenon DEF Given
      <4> QED BY <4>3, <4>4, Zenon
    <3> QED BY <3>1, <3>2, Zenon
  <2>3. pc' = "ring" => Len(new)' - Len(victims)' <= Free'
    <3>1. Len(new) - Len(victims) <= Cap - head
      BY <1>0, <1>d
    <3> QED BY <3>1, <1>f, Zenon DEF Free
  <2>4. pc' \in After => Len(new)' = Len(victims)' + Len(popped)'
    <3>1. pc' \in After => Len(new) = Len(victims) + 0
      BY <1>0, <1>c, <1>d, <1>f
    <3>2. Len(popped') = 0
      BY <1>f, Zenon
    <3> QED BY <3>1, <3>2, <1>f, Zenon
  <2>5. /\ Cardinality(need) <= Cap /\ (insert # {} => bitmap = insert) /\ Len(victims) <= Len(new)
        /\ \A c \in need : crid2grid[c] # None \/ \E i \in DOMAIN new : new[i] = c
    BY <1>c, Zenon DEF CacheInv, Wanted
  <2> QED BY <2>1, <2>2, <2>3, <2>4, <2>5, <1>2, <1>c, <1>f, ZenonT(40) DEF Wanted
<1>16. FlaggedAreDeleted'
  <2> SUFFICES ASSUME NEW g \in Cleared PROVE resident'[g] \in deleted
    BY <1>f, Zenon DEF FlaggedAreDeleted
  <2>1. g \in reclaim /\ g \in Slots /\ \A i \in D : victims[i] # g
    BY <1>1, Zenon DEF Cleared, Range, CacheInv, CacheTypes
  <2> QED BY <2>1, <1>11, Zenon DEF CacheInv, FlaggedAreDeleted
<1>17. VictimsDistinct' /\ TransfersMatchIndex'
  BY <1>c, <1>f, Zenon DEF CacheInv, VictimsDistinct, TransfersMatchIndex
<1>18. Replaces
  <2> SUFFICES ASSUME NEW g \in Slots, resident'[g] # resident[g]
               PROVE  resident[g] \notin need /\ \E c \in need : resident'[g] = c /\ crid2grid[c] = None
    BY Zenon DEF Replaces
  <2>1. PICK i \in D : victims[i] = g
    BY <1>11, Zenon
  <2>2. resident[g] \notin need
    BY <2>1, <1>3, Zenon
  <2>3. resident'[g] = new[i] /\ i \in DOMAIN new
    BY <2>1, <1>1, <1>11, Zenon
  <2> QED BY <2>2, <2>3, <1>2, Zenon
<1> QED BY <1>12, <1>13, <1>14, <1>15, <1>16, <1>17, <1>18, <1>c, ZenonT(40) DEF CacheInv

(* What is left of the missing records, element by element.                *)
LEMMA RestElements ==
    ASSUME CacheInv
    PROVE  /\ Rest \in Seq(Records) /\ Len(new) \in Nat /\ Len(victims) \in Nat
           /\ Len(victims) <= Len(new) /\ DOMAIN Rest = 1 .. Len(new) - Len(victims)
           /\ Len(Rest) = Len(new) - Len(victims)
           /\ \A i \in DOMAIN Rest : /\ Rest[i] = new[Len(victims) + i]
                                     /\ Len(victims) + i \in DOMAIN new
<1>1. /\ new \in Seq(Records) /\ Len(new) \in Nat /\ DOMAIN new = 1 .. Len(new) /\ Len(victims) \in Nat
      /\ Len(victims) <= Len(new)
  <2>1. new \in Seq(Records) /\ victims \in Seq(Slots) /\ Len(victims) <= Len(new)
    BY Zenon DEF CacheInv, CacheTypes, Wanted
  <2> QED BY <2>1
<1>2. /\ Rest \in Seq(Records) /\ Len(Rest) = Len(new) - Len(victims)
      /\ DOMAIN Rest = 1 .. Len(new) - Len(victims)
  BY <1>1 DEF Rest
<1>3. ASSUME NEW i \in 1 .. Len(new) - Len(victims)
      PROVE  Rest[i] = new[Len(victims) + i] /\ Len(victims) + i \in DOMAIN new
  <2>1. Len(victims) + i \in 1 .. Len(new) /\ Len(victims) + 1 + i - 1 = Len(victims) + i
    BY <1>1
  <2>2. Rest[i] = new[Len(victims) + 1 + i - 1]
    BY <1>1 DEF Rest
  <2> QED BY <2>1, <2>2, <1>1, Zenon
<1> QED BY <1>1, <1>2, <1>3, Zenon

(* The other missing records take slots off the ring.                      *)
LEMMA RingPopKeeps == CacheInv /\ RingPop => CacheInv' /\ Replaces
<1> SUFFICES ASSUME CacheInv, RingPop PROVE CacheInv' /\ Replaces
  BY Zenon
<1>f. /\ pc = "ring" /\ pc' = "transfer" /\ head' = head + Len(Rest) /\ Len(Rest) <= Free
      /\ popped' = [i \in DOMAIN Rest |-> (head + i - 1) % Cap]
      /\ crid2grid' = Bound(crid2grid, Rest, popped') /\ resident' = Occupied(Rest, popped')
      /\ UNCHANGED <<deleted, need, insert, cursor, reclaim, bitmap, new, count, maxOffset, victims,
                     offset, checked, sent, admitted, evicted>>
  BY Zenon DEF RingPop, work, scan, totals
<1>c. /\ pc \notin Collecting /\ pc \notin Before /\ pc \notin After
      /\ pc' \notin Collecting /\ pc' \notin Before /\ pc' \in After
      /\ pc' # "mark" /\ pc' # "remap" /\ pc' # "ring"
  BY <1>f, Zenon DEF Collecting, Before, After
<1>0. /\ Cap \in Nat \ {0} /\ head \in 0 .. Cap /\ None \notin Slots /\ None \notin Records
      /\ Free = Cap - head /\ new \in Seq(Records)
  BY CacheAssumption, Zenon DEF CacheAssumption, CacheInv, CacheTypes, Free
<1> DEFINE D == DOMAIN Rest
           r == Len(Rest)
<1>1. /\ Rest \in Seq(Records) /\ Len(new) \in Nat /\ Len(victims) \in Nat
      /\ Len(victims) <= Len(new) /\ D = 1 .. Len(new) - Len(victims)
      /\ r = Len(new) - Len(victims)
      /\ \A i \in D : Rest[i] = new[Len(victims) + i] /\ Len(victims) + i \in DOMAIN new
  BY RestElements, Zenon
<1> HIDE DEF D, r
<1>2. r \in Nat /\ D = 1 .. r /\ head + r <= Cap /\ head' = head + r
  BY <1>0, <1>1, <1>f DEF r
<1>3. \A i \in D : popped'[i] = head + i - 1 /\ popped'[i] \in Slots /\ popped'[i] >= head
  <2> SUFFICES ASSUME NEW i \in D
               PROVE  popped'[i] = head + i - 1 /\ popped'[i] \in Slots /\ popped'[i] >= head
    BY Zenon
  <2> DEFINE a == head + i - 1
  <2>1. a \in 0 .. 2 * Cap - 1 /\ a < Cap /\ a \in 0 .. Cap - 1 /\ a >= head
    BY <1>0, <1>2
  <2>2. popped'[i] = a % Cap
    BY <1>f, Zenon DEF D
  <2> HIDE DEF a
  <2>3. a % Cap = a
    BY <2>1, <1>0, ModOnce, Zenon
  <2>4. popped'[i] = a
    BY <2>2, <2>3, Zenon
  <2> QED BY <2>1, <2>4, Zenon DEF a, Slots
<1>4. popped' \in Seq(Slots) /\ DOMAIN popped' = D /\ Len(popped') = r
  <2>1. popped' \in [1 .. r -> Slots]
    <3>1. DOMAIN popped' = 1 .. r /\ popped' = [i \in 1 .. r |-> popped'[i]]
      BY <1>2, <1>f, Zenon DEF D
    <3> QED BY <3>1, <1>2, <1>3, Zenon
  <2>2. popped' \in Seq(Slots) /\ Len(popped') = r /\ DOMAIN popped' = 1 .. r
    BY <2>1, <1>2
  <2> QED BY <2>2, <1>2, Zenon
<1>5. \A i, j \in D : popped'[i] = popped'[j] => i = j
  BY <1>0, <1>2, <1>3
<1>6. /\ \A i, j \in DOMAIN new : new[i] = new[j] => i = j
      /\ \A i \in DOMAIN new : new[i] \in need /\ crid2grid[new[i]] = Given(i)
  BY Zenon DEF CacheInv, Wanted
<1>7. \A i, j \in D : Rest[i] = Rest[j] => i = j
  <2> SUFFICES ASSUME NEW i \in D, NEW j \in D, Rest[i] = Rest[j] PROVE i = j
    BY Zenon
  <2>1. new[Len(victims) + i] = new[Len(victims) + j]
    BY <1>1, Zenon
  <2>2. Len(victims) + i \in DOMAIN new /\ Len(victims) + j \in DOMAIN new
    BY <1>1, Zenon
  <2>3. Len(victims) + i = Len(victims) + j
    BY <2>1, <2>2, <1>6, Zenon
  <2> QED BY <2>3, <1>1, <1>2
<1>8. \A i \in D : Rest[i] \in need /\ Rest[i] \in Records /\ crid2grid[Rest[i]] = None
  <2> SUFFICES ASSUME NEW i \in D
               PROVE  Rest[i] \in need /\ Rest[i] \in Records /\ crid2grid[Rest[i]] = None
    BY Zenon
  <2>1. ~(Len(victims) + i <= Len(victims))
    BY <1>1, <1>2
  <2>2. Given(Len(victims) + i) = None
    BY <2>1, <1>c, Zenon DEF Given
  <2>3. Rest[i] \in Records
    BY <1>1 DEF D
  <2> QED BY <2>2, <2>3, <1>1, <1>6, Zenon
<1>9. /\ \A c \in Records, g \in Slots : crid2grid[c] = g <=> resident[g] = c
      /\ \A g \in Slots : resident[g] = None <=> g >= head
      /\ crid2grid \in [Records -> Slots \cup {None}] /\ resident \in [Slots -> Records \cup {None}]
  BY Zenon DEF CacheInv, Indexed, CacheTypes
<1>10. Gives(crid2grid, Rest, popped', D, crid2grid', resident')
  <2>1. \A c \in Records : (\A i \in D : Rest[i] # c) => \A i \in D : crid2grid[c] # popped'[i]
    <3> SUFFICES ASSUME NEW c \in Records, NEW i \in D, crid2grid[c] = popped'[i] PROVE FALSE
      BY Zenon
    <3>1. resident[popped'[i]] = c /\ resident[popped'[i]] = None
      BY <1>3, <1>9, Zenon
    <3> QED BY <3>1, <1>0, Zenon
  <2>2. \A g \in Slots : (\A i \in D : popped'[i] # g) => \A i \in D : resident[g] # Rest[i]
    <3> SUFFICES ASSUME NEW g \in Slots, NEW i \in D, resident[g] = Rest[i] PROVE FALSE
      BY Zenon
    <3>1. crid2grid[Rest[i]] = g /\ crid2grid[Rest[i]] = None
      BY <1>8, <1>9, ZenonT(40)
    <3> QED BY <3>1, <1>0, Zenon
  <2>3. Rest \in Seq(Records) /\ DOMAIN Rest = D
    BY <1>1, Zenon DEF D
  <2>4. Fits(crid2grid, Rest, popped', D)
    BY <2>1, <2>2, <2>3, <1>4, <1>5, <1>7, <1>9, Zenon DEF Fits
  <2> QED BY <2>4, <1>f, BindingKept, Zenon
<1>11. /\ crid2grid' \in [Records -> Slots \cup {None}] /\ resident' \in [Slots -> Records \cup {None}]
       /\ \A i \in D : crid2grid'[Rest[i]] = popped'[i] /\ resident'[popped'[i]] = Rest[i]
       /\ \A c \in Records : (\A i \in D : Rest[i] # c) => crid2grid'[c] = crid2grid[c]
       /\ \A g \in Slots : (\A i \in D : popped'[i] # g) => resident'[g] = resident[g]
       /\ \A c \in Records, g \in Slots : crid2grid'[c] = g <=> resident'[g] = c
  BY <1>10, Zenon DEF Gives
<1>12. Indexed'
  <2>1. ASSUME NEW g \in Slots PROVE resident'[g] = None <=> g >= head'
    <3>0. g \in Int
      BY <1>0 DEF Slots
    <3>1. CASE \E i \in D : popped'[i] = g
      <4>1. PICK i \in D : popped'[i] = g
        BY <3>1, ZenonT(40)
      <4>2. resident'[g] # None
        BY <4>1, <1>0, <1>8, <1>11
      <4>3. ~(g >= head')
        BY <4>1, <1>0, <1>2, <1>3
      <4> QED BY <4>2, <4>3, Zenon
    <3>2. CASE ~\E i \in D : popped'[i] = g
      <4>1. resident'[g] = resident[g]
        BY <3>2, <1>11, Zenon
      <4>2. g >= head => g >= head + r
        <5> SUFFICES ASSUME g >= head, g < head + r PROVE FALSE
          BY <3>0, <1>0, <1>2
        <5>1. g - head + 1 \in 1 .. r /\ head + (g - head + 1) - 1 = g
          BY <3>0, <1>0, <1>2
        <5> QED BY <5>1, <3>2, <1>2, <1>3, ZenonT(40)
      <4>3. g >= head <=> g >= head'
        BY <4>2, <3>0, <1>0, <1>2
      <4> QED BY <4>1, <4>3, <1>9, Zenon
    <3> QED BY <3>1, <3>2, Zenon
  <2> QED BY <2>1, <1>11, Zenon DEF Indexed
<1>13. CacheTypes'
  <2>1. head' \in 0 .. Cap
    BY <1>0, <1>2
  <2>2. pc' \in Before \cup Collecting \cup {"ring"} \cup After
    BY <1>c, Zenon
  <2> QED BY <2>1, <2>2, <1>4, <1>11, <1>f, ZenonT(40) DEF CacheInv, CacheTypes
<1>14. Totals'
  <2>1. admitted - evicted = head + Len(new) - Len(victims)
    BY <1>c, <1>f, Zenon DEF CacheInv, Totals
  <2>2. head' = head + Len(new) - Len(victims)
    BY <1>0, <1>1, <1>2, Zenon
  <2> QED BY <2>1, <2>2, <1>c, <1>f, Zenon DEF Totals
<1>15. Wanted'
  <2>1. ASSUME NEW c \in need, crid2grid[c] # None PROVE crid2grid'[c] # None
    <3>1. c \in Records
      BY Zenon DEF CacheInv, CacheTypes
    <3>2. \A i \in D : Rest[i] # c
      BY <2>1, <1>8, Zenon
    <3>3. crid2grid'[c] = crid2grid[c]
      BY <3>1, <3>2, <1>11, ZenonT(40)
    <3> QED BY <2>1, <3>3, Zenon
  <2>2. ASSUME NEW i \in DOMAIN new PROVE crid2grid'[new[i]] = Given(i)'
    <3>0. i \in 1 .. Len(new) /\ new[i] \in Records
      BY <1>0
    <3>1. CASE i <= Len(victims)
      <4>1. Given(i)' = victims[i] /\ Given(i) = victims[i]
        BY <3>1, <1>c, <1>f, Zenon DEF Given
      <4>2. \A j \in D : Rest[j] # new[i]
        <5> SUFFICES ASSUME NEW j \in D, Rest[j] = new[i] PROVE FALSE
          BY Zenon
        <5>1. Len(victims) + j = i
          BY <1>1, <1>6, Zenon
        <5> QED BY <5>1, <3>1, <1>1, <1>2
      <4>3. crid2grid'[new[i]] = crid2grid[new[i]]
        BY <4>2, <3>0, <1>11, Zenon
      <4> QED BY <4>1, <4>3, <1>6, Zenon
    <3>2. CASE ~(i <= Len(victims))
      <4> DEFINE j == i - Len(victims)
      <4>1. j \in D /\ Len(victims) + j = i
        BY <3>0, <3>2, <1>1
      <4>2. Given(i)' = popped'[j]
        BY <3>2, <1>c, <1>f, Zenon DEF Given
      <4> HIDE DEF j
      <4>3. Rest[j] = new[i]
        BY <4>1, <1>1, Zenon
      <4>4. crid2grid'[Rest[j]] = popped'[j]
        BY <4>1, <1>11, Zenon
      <4> QED BY <4>2, <4>3, <4>4, Zenon
    <3> QED BY <3>1, <3>2, Zenon
  <2>3. Len(new)' = Len(victims)' + Len(popped)'
    <3>1. Len(new) = Len(victims) + r
      BY <1>1
    <3> QED BY <3>1, <1>4, <1>f, Zenon
  <2>4. /\ Cardinality(need) <= Cap /\ (insert # {} => bitmap = insert) /\ Len(victims) <= Len(new)
        /\ \A c \in need : crid2grid[c] # None \/ \E i \in DOMAIN new : new[i] = c
    BY <1>c, Zenon DEF CacheInv, Wanted
  <2> QED BY <2>1, <2>2, <2>3, <2>4, <1>6, <1>c, <1>f, ZenonT(40) DEF Wanted
<1>16. FlaggedAreDeleted'
  <2> SUFFICES ASSUME NEW g \in reclaim PROVE resident'[g] \in deleted
    BY <1>f, Zenon DEF FlaggedAreDeleted
  <2>1. g \in Slots /\ resident[g] \in deleted /\ resident[g] # None
    BY <1>0, Zenon DEF CacheInv, CacheTypes, FlaggedAreDeleted
  <2>2. \A i \in D : popped'[i] # g
    BY <2>1, <1>3, <1>9, Zenon
  <2> QED BY <2>1, <2>2, <1>11, Zenon
<1>17. VictimsDistinct' /\ TransfersMatchIndex'
  BY <1>c, <1>f, Zenon DEF CacheInv, VictimsDistinct, TransfersMatchIndex
<1>18. Replaces
  <2> SUFFICES ASSUME NEW g \in Slots, resident'[g] # resident[g]
               PROVE  resident[g] \notin need /\ \E c \in need : resident'[g] = c /\ crid2grid[c] = None
    BY Zenon DEF Replaces
  <2>1. PICK i \in D : popped'[i] = g
    BY <1>11, Zenon
  <2>2. resident[g] = None
    BY <2>1, <1>3, <1>9, Zenon
  <2>3. None \notin need
    BY <1>0, Zenon DEF CacheInv, CacheTypes
  <2>4. resident'[g] = Rest[i]
    BY <2>1, <1>11, Zenon
  <2> QED BY <2>2, <2>3, <2>4, <1>8, Zenon
<1> QED BY <1>12, <1>13, <1>14, <1>15, <1>16, <1>17, <1>18, <1>c, ZenonT(40) DEF CacheInv

(* The transfers name the missing records the epoch does not insert, with  *)
(* the slots they have been given.                                         *)
LEMMA TransferVersionsKeeps == CacheInv /\ TransferVersions => CacheInv'
<1> SUFFICES ASSUME CacheInv, TransferVersions PROVE CacheInv'
  BY Zenon
<1>f. /\ pc = "transfer" /\ pc' = "remap" /\ sent' = Transfers
      /\ UNCHANGED <<deleted, need, insert, crid2grid, resident, head, cursor, reclaim, bitmap, new,
                     count, maxOffset, victims, offset, checked, popped, admitted, evicted>>
  BY Zenon DEF TransferVersions, work, maps, scan, totals
<1>c. /\ pc \notin Collecting /\ pc \notin Before /\ pc \in After /\ pc # "ring"
      /\ pc' \notin Collecting /\ pc' \notin Before /\ pc' \in After
      /\ pc' # "mark" /\ pc' # "ring"
  BY <1>f, Zenon DEF Collecting, Before, After
<1>1. CacheTypes'
  BY <1>c, <1>f, Zenon DEF CacheInv, CacheTypes
<1>2. Indexed' /\ VictimsDistinct' /\ FlaggedAreDeleted'
  BY <1>f, Zenon DEF CacheInv, Indexed, VictimsDistinct, FlaggedAreDeleted
<1>3. Totals'
  BY <1>c, <1>f, Zenon DEF CacheInv, Totals
<1>4. Wanted'
  <2>1. \A i : Given(i)' = Given(i)
    BY <1>c, <1>f, Zenon DEF Given
  <2>2. /\ Cardinality(need) <= Cap /\ (insert # {} => bitmap = insert)
        /\ \A c \in need : crid2grid[c] # None \/ \E i \in DOMAIN new : new[i] = c
        /\ \A i, j \in DOMAIN new : new[i] = new[j] => i = j
        /\ \A i \in DOMAIN new : new[i] \in need /\ crid2grid[new[i]] = Given(i)
        /\ Len(victims) <= Len(new) /\ Len(new) = Len(victims) + Len(popped)
    BY <1>c, Zenon DEF CacheInv, Wanted
  <2> QED BY <2>1, <2>2, <1>c, <1>f, Zenon DEF Wanted
<1>5. TransfersMatchIndex'
  <2>1. /\ DOMAIN new = 1 .. Len(new) /\ Len(new) \in Nat
        /\ DOMAIN victims = 1 .. Len(victims) /\ Len(victims) \in Nat
        /\ DOMAIN popped = 1 .. Len(popped) /\ Len(popped) \in Nat
        /\ Len(new) = Len(victims) + Len(popped)
    <3>1. /\ new \in Seq(Records) /\ victims \in Seq(Slots) /\ popped \in Seq(Slots)
          /\ Len(new) = Len(victims) + Len(popped)
      BY <1>c, Zenon DEF CacheInv, CacheTypes, Wanted
    <3> QED BY <3>1
  <2>2. \A i \in DOMAIN new : crid2grid[new[i]] = Given(i)
    BY Zenon DEF CacheInv, Wanted
  <2>3. \A i \in DOMAIN new : IsInsert(i) <=> new[i] \in insert
    <3>1. insert # {} => bitmap = insert
      BY <1>c, Zenon DEF CacheInv, Wanted
    <3> QED BY <3>1, Zenon DEF IsInsert
  <2>4. \A i \in DOMAIN victims : i \in DOMAIN new /\ crid2grid[new[i]] = victims[i]
    <3> SUFFICES ASSUME NEW i \in DOMAIN victims
                 PROVE  i \in DOMAIN new /\ crid2grid[new[i]] = victims[i]
      BY Zenon
    <3>1. i \in DOMAIN new /\ i <= Len(victims)
      BY <2>1
    <3> QED BY <3>1, <2>2, <1>c, Zenon DEF Given
  <2> DEFINE n == Len(victims)
  <2>5. \A i \in DOMAIN popped : /\ n + i \in DOMAIN new /\ Rest[i] = new[n + i]
                                 /\ crid2grid[new[n + i]] = popped[i]
    <3> SUFFICES ASSUME NEW i \in DOMAIN popped
                 PROVE  /\ n + i \in DOMAIN new /\ Rest[i] = new[n + i]
                        /\ crid2grid[new[n + i]] = popped[i]
      BY Zenon
    <3>1. n + i \in DOMAIN new /\ ~(n + i <= n) /\ (n + i) - n = i
      BY <2>1
    <3>2. i \in DOMAIN Rest
      <4>1. DOMAIN Rest = 1 .. Len(new) - Len(victims)
        BY RestElements, Zenon
      <4> QED BY <4>1, <2>1
    <3>3. Rest[i] = new[n + i]
      BY <3>2, RestElements, Zenon
    <3>4. Given(n + i) = popped[i]
      BY <3>1, <1>c, Zenon DEF Given
    <3> QED BY <3>1, <3>3, <3>4, <2>2, Zenon
  <2>6. ASSUME NEW i \in DOMAIN new, i \notin DOMAIN victims
        PROVE  \E j \in DOMAIN popped : i = n + j
    <3>1. i - n \in DOMAIN popped /\ i = n + (i - n)
      BY <2>1, <2>6
    <3> QED BY <3>1, Zenon
  <2> DEFINE X == {<<new[i], victims[i]>> : i \in {j \in DOMAIN victims : ~IsInsert(j)}}
             Y == {<<Rest[i], popped[i]>> : i \in {j \in DOMAIN popped : ~IsInsert(n + j)}}
             W == {<<c, crid2grid[c]>> : c \in Range(new) \ insert}
  <2>7. X \subseteq W
    BY <2>3, <2>4, Zenon DEF Range
  <2>8. Y \subseteq W
    BY <2>3, <2>5, Zenon DEF Range
  <2>9. ASSUME NEW c \in Range(new) \ insert PROVE <<c, crid2grid[c]>> \in X \cup Y
    <3>1. PICK i \in DOMAIN new : new[i] = c
      BY Zenon DEF Range
    <3>2. ~IsInsert(i)
      BY <3>1, <2>3, Zenon
    <3>3. CASE i \in DOMAIN victims
      <4>1. <<c, crid2grid[c]>> = <<new[i], victims[i]>>
        BY <3>1, <3>3, <2>4, Zenon
      <4> QED BY <4>1, <3>2, <3>3, Zenon
    <3>4. CASE i \notin DOMAIN victims
      <4>1. PICK j \in DOMAIN popped : i = n + j
        BY <3>4, <2>6, Zenon
      <4>2. <<c, crid2grid[c]>> = <<Rest[j], popped[j]>>
        BY <4>1, <3>1, <2>5, Zenon
      <4>3. ~IsInsert(n + j)
        BY <4>1, <3>2, Zenon
      <4> QED BY <4>2, <4>3, Zenon
    <3> QED BY <3>3, <3>4, Zenon
  <2>10. Transfers = X \cup Y
    BY Zenon DEF Transfers
  <2> HIDE DEF X, Y
  <2>11. X \cup Y = W
    BY <2>7, <2>8, <2>9, Zenon
  <2>12. sent' = W'
    BY <2>10, <2>11, <1>f, Zenon
  <2> QED BY <2>12, Zenon DEF TransfersMatchIndex
<1> QED BY <1>1, <1>2, <1>3, <1>4, <1>5, <1>c, Zenon DEF CacheInv

(* The epoch runs and its list of missing records is dropped.              *)
LEMMA ExecuteKeeps == CacheInv /\ Execute => CacheInv'
<1> SUFFICES ASSUME CacheInv, Execute PROVE CacheInv'
  BY Zenon
<1>f. /\ pc = "remap" /\ pc' = "mark" /\ need' = {} /\ new' = <<>> /\ victims' = <<>> /\ popped' = <<>>
      /\ count' = 0 /\ maxOffset' = 0 /\ offset' = [t \in Threads |-> Cap] /\ checked' = checked
      /\ UNCHANGED <<deleted, crid2grid, resident, head, cursor, reclaim, admitted, evicted>>
  BY Zenon DEF Execute, maps, totals
<1>0. Cap \in Nat \ {0}
  BY CacheAssumption, Zenon DEF CacheAssumption
<1>1. CacheTypes'
  <2>1. /\ new' \in Seq(Records) /\ victims' \in Seq(Slots) /\ popped' \in Seq(Slots)
        /\ count' \in Nat /\ maxOffset' \in Nat /\ offset' \in [Threads -> 0 .. Cap]
        /\ need' \subseteq Records /\ pc' \in Before \cup Collecting \cup {"ring"} \cup After
    BY <1>0, <1>f DEF Before
  <2> QED BY <2>1, <1>f, Zenon DEF CacheInv, CacheTypes
<1>2. Indexed' /\ FlaggedAreDeleted'
  BY <1>f, Zenon DEF CacheInv, Indexed, FlaggedAreDeleted
<1>3. Totals'
  BY <1>f, Zenon DEF CacheInv, Totals, Collecting
<1>4. Wanted'
  BY <1>f DEF Wanted, Before, After
<1>5. pc' \notin Collecting
  BY <1>f, Zenon DEF Collecting
<1>6. VictimsDistinct' /\ TransfersMatchIndex'
  BY <1>f DEF VictimsDistinct, TransfersMatchIndex
<1> QED BY <1>1, <1>2, <1>3, <1>4, <1>5, <1>6, Zenon DEF CacheInv

--------------------------------------------------------------------------------
(* The results.                                                            *)

(* Every step keeps the invariant.                                         *)
LEMMA CacheInvNext == CacheInv /\ [Next]_vars => CacheInv'
<1> SUFFICES ASSUME CacheInv, [Next]_vars PROVE CacheInv'
  BY Zenon
<1>1. ASSUME UNCHANGED vars PROVE CacheInv'
  <2>f. UNCHANGED <<pc, deleted, need, insert, crid2grid, resident, head, cursor, reclaim, needed, bitmap,
                    new, count, maxOffset, victims, offset, checked, popped, sent, admitted, evicted>>
    BY <1>1, Zenon DEF vars, work, maps, scan, totals
  <2>1. CacheTypes' /\ Indexed' /\ Totals' /\ VictimsDistinct' /\ FlaggedAreDeleted'
        /\ TransfersMatchIndex'
    <3>1. CacheTypes'
      BY <2>f, Zenon DEF CacheInv, CacheTypes
    <3>2. Indexed' /\ Totals'
      BY <2>f, Zenon DEF CacheInv, Indexed, Totals
    <3>3. VictimsDistinct' /\ FlaggedAreDeleted' /\ TransfersMatchIndex'
      BY <2>f, Zenon DEF CacheInv, VictimsDistinct, FlaggedAreDeleted, TransfersMatchIndex
    <3> QED BY <3>1, <3>2, <3>3, Zenon
  <2>2. Wanted'
    <3>1. (\A i : Given(i)' = Given(i)) /\ Free' = Free
      BY <2>f, Zenon DEF Given, Free
    <3> QED BY <3>1, <2>f, Zenon DEF CacheInv, Wanted
  <2>3. ASSUME pc' \in Collecting PROVE Collected'
    <3>1. /\ Deficit' = Deficit /\ Free' = Free /\ GridsOf(need)' = GridsOf(need)
          /\ \A o : SlotAt(o)' = SlotAt(o) /\ (Scanned(o)' <=> Scanned(o))
      BY <2>f, Zenon DEF Deficit, Free, GridsOf, SlotAt, Scanned
    <3>2. Collected
      BY <2>3, <2>f, Zenon DEF CacheInv
    <3> QED BY <3>1, <3>2, <2>f, Zenon DEF Collected
  <2> QED BY <2>1, <2>2, <2>3, Zenon DEF CacheInv
<1>2. ASSUME NEW t \in Threads, CheckCount(t) \/ CollectReclaim(t) \/ CollectFifo(t) PROVE CacheInv'
  BY <1>2, CheckCountKeeps, CollectReclaimKeeps, CollectFifoKeeps, Zenon
<1>3. Done => CacheInv'
  BY <1>1, Zenon DEF Done
<1> QED BY <1>1, <1>2, <1>3, MarkReclaimableKeeps, OverCapacityKeeps, LookupNeededKeeps, TopUpKeeps,
           RenameKeeps, RingPopKeeps, TransferVersionsKeeps, ExecuteKeeps, ZenonT(40) DEF Next

(* The invariant holds throughout.                                         *)
LEMMA CacheInvHolds == Spec => []CacheInv
BY InitKeeps, CacheInvNext, PTL DEF Spec

(* For any capacity and any epochs the flat index and the resident list    *)
(* name the same bindings, the ring holds exactly the empty slots, and the *)
(* totals the stager reports agree with the ring.                          *)
THEOREM IndexAgreesWithSlots == Spec => []IndexMatchesSlots
<1>1. CacheInv => IndexMatchesSlots
  <2> SUFFICES ASSUME CacheInv PROVE IndexMatchesSlots
    BY Zenon
  <2>1. pc \in {"mark", "remap"} => head = admitted - evicted
    <3> SUFFICES ASSUME pc \in {"mark", "remap"} PROVE head = admitted - evicted
      BY Zenon
    <3>1. pc \notin Collecting /\ pc # "ring"
      BY Zenon DEF Collecting
    <3> QED BY <3>1, Zenon DEF CacheInv, Totals
  <2> QED BY <2>1, Zenon DEF CacheInv, Indexed, IndexMatchesSlots
<1> QED BY <1>1, CacheInvHolds, PTL

(* For any number of threads and any order of their steps, the two passes  *)
(* never put one slot on the eviction list twice.                          *)
THEOREM EvictionListDistinct == Spec => []VictimsDistinct
<1>1. CacheInv => VictimsDistinct
  BY Zenon DEF CacheInv
<1> QED BY <1>1, CacheInvHolds, PTL

(* In an epoch that fits the collection always ends with as many victims   *)
(* as the deficit asks for, and the ring has a slot for each of the other  *)
(* missing records: the exceptions of prepareEpoch cannot be thrown.       *)
THEOREM CollectionCoversDeficit == Spec => []EnoughVictims
<1>1. CacheInv => EnoughVictims
  <2> SUFFICES ASSUME CacheInv PROVE EnoughVictims
    BY Zenon
  <2>1. ASSUME pc = "fifo", KernelDone PROVE count >= Deficit /\ Len(victims) = Deficit
    <3>1. pc \in Collecting
      BY <2>1, Zenon DEF Collecting
    <3> QED BY <2>1, <3>1, CoversDeficit, Zenon DEF CacheInv
  <2>2. ASSUME pc = "ring" PROVE Len(Rest) <= Free
    <3>1. Len(Rest) = Len(new) - Len(victims)
      BY RestElements, Zenon
    <3> QED BY <2>2, <3>1, Zenon DEF CacheInv, Wanted
  <2> QED BY <2>1, <2>2, Zenon DEF CacheInv, Wanted, EnoughVictims
<1> QED BY <1>1, CacheInvHolds, PTL

(* A slot whose reclaim flag is set holds a deleted record, whatever has   *)
(* been evicted and bound since the flag was set.                          *)
THEOREM ReclaimFlagsSound == Spec => []FlaggedAreDeleted
<1>1. CacheInv => FlaggedAreDeleted
  BY Zenon DEF CacheInv
<1> QED BY <1>1, CacheInvHolds, PTL

(* Victims and ring slots together: every record fetched goes to the slot  *)
(* the index gives it, and exactly the missing records that the epoch does *)
(* not insert are fetched.                                                 *)
THEOREM TransfersGoWhereIndexed == Spec => []TransfersMatchIndex
<1>1. CacheInv => TransfersMatchIndex
  BY Zenon DEF CacheInv
<1> QED BY <1>1, CacheInvHolds, PTL

--------------------------------------------------------------------------------
(* Staging implements CacheBinding, step by step.                          *)

(* Binding slots, off the ring or from victims, is a step Bind.            *)
LEMMA ReplacesBinds ==
    ASSUME CacheInv, CacheInv', Replaces, need' = need
    PROVE  Binding!Bind
<1>0. None \notin Slots /\ None \notin Records
  BY CacheAssumption, Zenon DEF CacheAssumption
<1>1. /\ resident' \in [Slots -> Records \cup {None}]
      /\ resident \in [Slots -> Records \cup {None}] /\ need \subseteq Records
  BY Zenon DEF CacheInv, CacheTypes
<1>2. ASSUME NEW g \in Slots, resident'[g] # resident[g]
      PROVE  resident[g] \notin need /\ resident'[g] \in need \ Binding!Held
  <2>1. resident[g] \notin need
    BY <1>2, Zenon DEF Replaces
  <2>2. PICK c \in need : resident'[g] = c /\ crid2grid[c] = None
    BY <1>2, Zenon DEF Replaces
  <2>3. c \notin Binding!Held
    <3> SUFFICES ASSUME NEW h \in Slots, resident[h] = c PROVE FALSE
      BY Zenon DEF Binding!Held
    <3>1. crid2grid[c] = h
      BY <1>1, Zenon DEF CacheInv, Indexed
    <3> QED BY <3>1, <2>2, <1>0, Zenon
  <2> QED BY <2>1, <2>2, <2>3, Zenon
<1>3. ASSUME NEW g \in Slots, NEW h \in Slots, resident'[g] = resident'[h], g # h
      PROVE  resident'[g] = None
  <2>1. SUFFICES ASSUME resident'[g] \in Records PROVE FALSE
    BY <1>1, Zenon
  <2>a. \A c \in Records, k \in Slots : crid2grid'[c] = k <=> resident'[k] = c
    BY Zenon DEF CacheInv, Indexed
  <2>2. crid2grid'[resident'[g]] = g /\ crid2grid'[resident'[g]] = h
    BY <2>a, <2>1, <1>3, Zenon
  <2> QED BY <2>2, <1>3, Zenon
<1> QED BY <1>1, <1>2, <1>3, Zenon DEF Binding!Bind

(* When the epoch executes everything it needs is held.                    *)
LEMMA ExecuteServes == CacheInv /\ Execute => Binding!Serve
<1> SUFFICES ASSUME CacheInv, Execute PROVE Binding!Serve
  BY Zenon
<1>f. pc = "remap" /\ need' = {} /\ resident' = resident
  BY Zenon DEF Execute, maps
<1>c. pc \notin Before /\ pc \in After /\ pc \notin Collecting
  BY <1>f, Zenon DEF Before, After, Collecting
<1>0. None \notin Slots /\ None \notin Records
  BY CacheAssumption, Zenon DEF CacheAssumption
<1>1. \A i \in DOMAIN new : Given(i) \in Slots
  <2> SUFFICES ASSUME NEW i \in DOMAIN new PROVE Given(i) \in Slots
    BY Zenon
  <2>1. /\ new \in Seq(Records) /\ victims \in Seq(Slots) /\ popped \in Seq(Slots)
        /\ Len(new) = Len(victims) + Len(popped)
    BY <1>c, Zenon DEF CacheInv, CacheTypes, Wanted
  <2>2. i \in 1 .. Len(new) /\ Len(victims) \in Nat /\ Len(popped) \in Nat
    BY <2>1
  <2>3. CASE i <= Len(victims)
    <3>1. victims[i] \in Slots
      BY <2>1, <2>2, <2>3
    <3> QED BY <2>3, <3>1, <1>c, Zenon DEF Given
  <2>4. CASE ~(i <= Len(victims))
    <3>1. i - Len(victims) \in 1 .. Len(popped)
      BY <2>1, <2>2, <2>4
    <3>2. popped[i - Len(victims)] \in Slots
      BY <3>1, <2>1
    <3> QED BY <2>4, <3>2, <1>c, Zenon DEF Given
  <2> QED BY <2>3, <2>4, Zenon
<1>2. ASSUME NEW c \in need PROVE c \in Binding!Held
  <2>1. c \in Records /\ crid2grid[c] \in Slots \cup {None}
    BY Zenon DEF CacheInv, CacheTypes
  <2>2. crid2grid[c] # None \/ \E i \in DOMAIN new : new[i] = c
    BY <1>c, Zenon DEF CacheInv, Wanted
  <2>3. \A i \in DOMAIN new : crid2grid[new[i]] = Given(i)
    BY Zenon DEF CacheInv, Wanted
  <2>4. crid2grid[c] \in Slots
    BY <2>1, <2>2, <2>3, <1>0, <1>1, Zenon
  <2>5. resident[crid2grid[c]] = c
    BY <2>1, <2>4, Zenon DEF CacheInv, Indexed
  <2>6. c # None
    BY <2>1, <1>0, Zenon
  <2> QED BY <2>4, <2>5, <2>6, Zenon DEF Binding!Held
<1> QED BY <1>2, <1>f, Zenon DEF Binding!Serve

(* What an epoch may rely on: a record it needs is never taken out of its  *)
(* slot before the epoch has run, each slot goes to a missing record of    *)
(* the epoch, and the epoch runs only with all of its records in place.    *)
THEOREM StagingBinds == Spec => ImplementsBinding
<1>1. Init => Binding!Init
  BY Zenon DEF Init, Binding!Init
<1>2. CacheInv /\ CacheInv' /\ [Next]_vars => [Binding!Next]_<<resident, need>>
  <2> SUFFICES ASSUME CacheInv, CacheInv', [Next]_vars
               PROVE  Binding!Next \/ UNCHANGED <<resident, need>>
    BY Zenon
  <2>1. ASSUME MarkReclaimable PROVE Binding!Next
    <3>1. need = {} /\ resident' = resident
      BY <2>1, Zenon DEF MarkReclaimable, CacheInv, Wanted
    <3>2. need' \in SUBSET Records
      BY Zenon DEF CacheInv, CacheTypes
    <3> QED BY <3>1, <3>2, Zenon DEF Binding!Next, Binding!Request
  <2>2. ASSUME Rename \/ RingPop PROVE Binding!Next
    <3>1. Replaces /\ need' = need
      BY <2>2, RenameKeeps, RingPopKeeps, Zenon DEF Rename, RingPop, work
    <3> QED BY <3>1, ReplacesBinds, Zenon DEF Binding!Next
  <2>3. ASSUME Execute PROVE Binding!Next
    BY <2>3, ExecuteServes, Zenon DEF Binding!Next
  <2>4. ASSUME OverCapacity \/ LookupNeeded \/ TopUp \/ TransferVersions
        PROVE  UNCHANGED <<resident, need>>
    BY <2>4, Zenon DEF OverCapacity, LookupNeeded, TopUp, TransferVersions, work, maps
  <2>5. ASSUME NEW t \in Threads, CheckCount(t) \/ CollectReclaim(t) \/ CollectFifo(t)
        PROVE  UNCHANGED <<resident, need>>
    BY <2>5, Zenon DEF CheckCount, CollectReclaim, CollectFifo, work, maps
  <2>6. ASSUME Done \/ UNCHANGED vars PROVE UNCHANGED <<resident, need>>
    BY <2>6, Zenon DEF Done, vars, work, maps
  <2> QED BY <2>1, <2>2, <2>3, <2>4, <2>5, <2>6, ZenonT(40) DEF Next
<1> QED BY <1>1, <1>2, CacheInvHolds, PTL DEF Spec, Binding!Spec, ImplementsBinding
================================================================================
