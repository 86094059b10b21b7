--------------------------- MODULE GaccoLocksProofs ---------------------------
(***************************************************************************)
(* For any records, batches, blocks and number of epochs: a piece that is  *)
(* past acquireLock has its record to itself and in its turn, and an epoch *)
(* under the locks is the serial run of its transactions.                  *)
(*                                                                         *)
(* The idea.  The pieces of one record pass through the lock in the order  *)
(* of their places in access.  Offset is always the place of the first     *)
(* piece that has not released, and lock its transaction, except between   *)
(* the two halves of a release, when lock still names the one that leaves. *)
(***************************************************************************)
EXTENDS GaccoLocks, FiniteSetTheorems, TLAPS

Steps == {"unclaimed", "spin", "read", "write", "release", "hand", "done"}

Passed(p) == pc[p] \notin {"unclaimed", "spin"}
Wrote(p) == pc[p] \in {"release", "hand", "done"}
Drew(p) == pc[p] \in {"hand", "done"}

(* The first piece of its record that has not drawn the next offset.       *)
Turn(p) == ~Drew(p) /\ \A q \in Pieces : q < p /\ Rec(q) = Rec(p) => Drew(q)

Types ==
    /\ batch \in [1 .. NEpochs -> {b \in Batches : Distinct(b)}]
    /\ epoch \in 1 .. NEpochs + 1 /\ phase \in {"plan", "run"}
    /\ phase = "run" => epoch <= NEpochs
    /\ pc \in [Pieces -> Steps] /\ next \in [Pieces -> Nat]
    /\ offset \in [Records -> Nat]
    /\ DOMAIN lock = Records /\ DOMAIN value = Records /\ DOMAIN got = Pieces

(* Blocks claim pieces that nobody has.                                    *)
Claimed == counter \in Nat /\ \A p \in Pieces : p >= counter => pc[p] = "unclaimed"

(* access gives every piece's place to its transaction; who has passed the *)
(* lock has seen all before it done.                                       *)
Ordered ==
    /\ \A p \in Pieces : access[SortedPlace(p)] = TxnOf(p)
    /\ \A p, q \in Pieces : Rec(p) = Rec(q) /\ p < q /\ Passed(q) => pc[p] = "done"

(* Offset and lock follow the turn.                                        *)
TurnKept ==
    /\ \A p \in Pieces : Turn(p) => offset[Rec(p)] = SortedPlace(p)
    /\ \A p \in Pieces : pc[p] = "hand" => next[p] = SortedPlace(p) + 1
    /\ \A p \in Pieces : Passed(p) /\ pc[p] # "done" => lock[Rec(p)] = TxnOf(p)
    /\ \A p \in Pieces :
          Turn(p) /\ (\A q \in Pieces : Rec(q) = Rec(p) => pc[q] # "hand")
             => lock[Rec(p)] = TxnOf(p)

(* A record's value is what the serial run up to its last writer leaves.   *)
ValueSerial ==
    \A r \in Records, k \in 0 .. NumOps :
        (\A q \in Pieces : Rec(q) = r => (q < k <=> Wrote(q))) => value[r] = Serial(epoch, k, r)

GaccoInv ==
    /\ Types
    /\ phase = "run" => Claimed /\ Ordered /\ TurnKept /\ ValueSerial
    /\ ReadsSerial /\ EpochSerial

--------------------------------------------------------------------------------

(* The pieces of an epoch are finitely many naturals.                      *)
LEMMA PiecesFinite ==
    /\ NumOps \in Nat /\ IsFiniteSet(Pieces)
    /\ \A p \in Pieces : p \in Nat /\ p < NumOps
<1>1. NumOps \in Nat
  BY GaccoAssumption DEF GaccoAssumption, NumOps
<1>2. IsFiniteSet(Pieces)
  BY <1>1, FS_Interval DEF Pieces
<1>3. \A p \in Pieces : p \in Nat /\ p < NumOps
  BY <1>1 DEF Pieces
<1> QED BY <1>1, <1>2, <1>3, Zenon

(* A set of pieces has a first one.                                        *)
LEMMA FirstPiece ==
    ASSUME NEW S, S \subseteq Pieces, S # {}
    PROVE  \E p \in S : \A q \in S : p <= q
<1> DEFINE Below(p) == {q \in S : q < p}
           T == {Below(p) : p \in S}
<1>1. \A p \in S : p \in Nat
  BY PiecesFinite, Zenon
<1>2. IsWellFoundedOn(StrictSubsetOrdering(S), SUBSET S)
  <2>1. IsFiniteSet(S)
    BY PiecesFinite, FS_Subset, Zenon
  <2> QED BY <2>1, FS_FiniteSubsetsOfFinite, FS_StrictSubsetOrderingWellFounded, Zenon
<1>3. T \subseteq SUBSET S /\ T # {}
  BY Zenon
<1>4. PICK x \in T : \A y \in T : ~(<<y, x>> \in StrictSubsetOrdering(S))
  BY <1>2, <1>3, WFMin, Zenon
<1>5. PICK p \in S : x = Below(p)
  BY <1>4, Zenon
<1>6. ASSUME NEW q \in S, q < p PROVE FALSE
  <2>1. \A z \in S : z < q => z < p
    BY <1>6, <1>1
  <2>2. q \in Below(p) /\ ~(q < q)
    BY <1>6, <1>1
  <2>3. Below(q) \subseteq Below(p) /\ Below(q) # Below(p)
    BY <2>1, <2>2, Zenon
  <2>4. Below(q) \in T /\ <<Below(q), Below(p)>> \in (SUBSET S) \X (SUBSET S)
    BY Zenon
  <2>5. <<Below(q), Below(p)>> \in StrictSubsetOrdering(S)
    BY <2>3, <2>4, Zenon DEF StrictSubsetOrdering
  <2> QED BY <2>4, <2>5, <1>4, <1>5, Zenon
<1> QED BY <1>1, <1>6

(* What the batch of the epoch says of its pieces: a transaction has one   *)
(* operation on a record.                                                  *)
LEMMA BatchPieces ==
    ASSUME Types, epoch <= NEpochs
    PROVE  /\ \A p \in Pieces : Rec(p) \in Records /\ Rec(p) \in Nat
           /\ \A p, q \in Pieces : TxnOf(p) = TxnOf(q) /\ Rec(p) = Rec(q) => p = q
<1>1. epoch \in 1 .. NEpochs
  BY GaccoAssumption DEF GaccoAssumption, Types
<1>2. batch[epoch] \in Batches /\ Distinct(batch[epoch])
  BY <1>1, Zenon DEF Types
<1>3. batch[epoch] \in [Pieces -> [record : Records, op : OpTypes]] /\ Records \subseteq Nat
  BY <1>2, GaccoAssumption, Zenon DEF GaccoAssumption
<1>4. \A p \in Pieces : Rec(p) \in Records /\ Rec(p) \in Nat
  BY <1>3, Zenon DEF Rec
<1> QED BY <1>2, <1>4, Zenon DEF Distinct, Rec

--------------------------------------------------------------------------------
(* Places in the sorted order.                                             *)

Before(p) == {q \in Pieces : Rec(q) < Rec(p) \/ (Rec(q) = Rec(p) /\ q < p)}

(* The pieces before p are finitely many, and p is not one of them.        *)
LEMMA BeforeFinite ==
    ASSUME Types, epoch <= NEpochs, NEW p \in Pieces
    PROVE  /\ Before(p) \subseteq Pieces /\ p \notin Before(p)
           /\ IsFiniteSet(Before(p)) /\ Cardinality(Before(p)) \in Nat
           /\ SortedPlace(p) = Cardinality(Before(p))
<1>1. Before(p) \subseteq Pieces
  BY Zenon DEF Before
<1>2. IsFiniteSet(Before(p))
  BY <1>1, PiecesFinite, FS_Subset, Zenon
<1>3. ~(Rec(p) < Rec(p)) /\ ~(p < p)
  BY BatchPieces, PiecesFinite
<1>4. p \notin Before(p)
  BY <1>3, Zenon DEF Before
<1>5. Cardinality(Before(p)) \in Nat
  BY <1>2, FS_CardinalityType, Zenon
<1> QED BY <1>1, <1>2, <1>4, <1>5, Zenon DEF SortedPlace, Before

(* Who comes earlier has the smaller place.                                *)
LEMMA EarlierPlace ==
    ASSUME Types, epoch <= NEpochs, NEW p \in Pieces, NEW q \in Pieces, p \in Before(q)
    PROVE  SortedPlace(p) < SortedPlace(q)
<1>1. /\ \A z \in Pieces : Rec(z) \in Nat /\ z \in Nat
  BY BatchPieces, PiecesFinite, Zenon
<1>2. ASSUME NEW z \in Before(p) PROVE z \in Before(q)
  BY <1>1, <1>2 DEF Before
<1>3. Before(p) \in SUBSET Before(q) /\ Before(p) # Before(q)
  BY <1>2, BeforeFinite, Zenon
<1>4. /\ Cardinality(Before(p)) <= Cardinality(Before(q))
      /\ Cardinality(Before(p)) # Cardinality(Before(q))
  <2>1. /\ Cardinality(Before(p)) <= Cardinality(Before(q))
        /\ Cardinality(Before(q)) = Cardinality(Before(p)) => Before(q) = Before(p)
    BY <1>3, BeforeFinite, FS_Subset, Zenon
  <2> QED BY <2>1, <1>3, Zenon
<1>5. Cardinality(Before(p)) \in Nat /\ Cardinality(Before(q)) \in Nat
  BY BeforeFinite, Zenon
<1>6. SortedPlace(p) = Cardinality(Before(p)) /\ SortedPlace(q) = Cardinality(Before(q))
  BY BeforeFinite, Zenon
<1> QED BY <1>4, <1>5, <1>6

(* No two pieces share a place of access.                                  *)
LEMMA PlacesDiffer ==
    ASSUME Types, epoch <= NEpochs
    PROVE  \A p, q \in Pieces : SortedPlace(p) = SortedPlace(q) => p = q
<1> SUFFICES ASSUME NEW p \in Pieces, NEW q \in Pieces, p # q
             PROVE  SortedPlace(p) # SortedPlace(q)
  BY Zenon
<1>1. Rec(p) \in Nat /\ Rec(q) \in Nat /\ p \in Nat /\ q \in Nat
  BY BatchPieces, PiecesFinite, Zenon
<1>2. p \in Before(q) \/ q \in Before(p)
  BY <1>1 DEF Before
<1>3. SortedPlace(p) \in Nat /\ SortedPlace(q) \in Nat
  BY BeforeFinite, Zenon
<1>4. SortedPlace(p) < SortedPlace(q) \/ SortedPlace(q) < SortedPlace(p)
  BY <1>2, EarlierPlace, Zenon
<1> QED BY <1>3, <1>4

(* The place of a piece is inside the access table.                        *)
LEMMA PlaceInTable ==
    ASSUME Types, epoch <= NEpochs, NEW p \in Pieces
    PROVE  SortedPlace(p) \in Pieces
<1>1. NumOps \in Nat /\ NumOps > 0 /\ Cardinality(Pieces) = NumOps
  <2>1. NumOps \in Nat /\ p \in Nat /\ p < NumOps
    BY PiecesFinite, Zenon
  <2>2. Cardinality(0 .. NumOps - 1) = IF 0 > NumOps - 1 THEN 0 ELSE NumOps - 1 - 0 + 1
    BY <2>1, FS_Interval
  <2> QED BY <2>1, <2>2 DEF Pieces
<1>2. /\ IsFiniteSet(Pieces \ {p})
      /\ Cardinality(Pieces \ {p}) = Cardinality(Pieces) - 1
  <2>1. /\ IsFiniteSet(Pieces \ {p})
        /\ Cardinality(Pieces \ {p}) = IF p \in Pieces THEN Cardinality(Pieces) - 1
                                       ELSE Cardinality(Pieces)
    BY PiecesFinite, FS_RemoveElement, Zenon
  <2> QED BY <2>1, Zenon
<1>3. Before(p) \in SUBSET (Pieces \ {p})
  BY BeforeFinite, Zenon
<1>4. Cardinality(Before(p)) <= Cardinality(Pieces \ {p})
  BY <1>2, <1>3, FS_Subset, Zenon
<1>5. SortedPlace(p) = Cardinality(Before(p)) /\ Cardinality(Before(p)) \in Nat
  BY BeforeFinite, Zenon
<1> QED BY <1>1, <1>2, <1>4, <1>5 DEF Pieces

(* The first piece of a record is where the exclusive sum says.            *)
LEMMA FirstPlace ==
    ASSUME Types, epoch <= NEpochs, NEW p \in Pieces,
           \A q \in Pieces : Rec(q) = Rec(p) => ~(q < p)
    PROVE  SortedPlace(p) = UniqueOffset(Rec(p))
<1>1. Before(p) = {q \in Pieces : Rec(q) < Rec(p)}
  BY Zenon DEF Before
<1> QED BY <1>1, BeforeFinite, Zenon DEF UniqueOffset

(* The next piece of the record has the next place.                        *)
LEMMA NextPlace ==
    ASSUME Types, epoch <= NEpochs, NEW p \in Pieces, NEW q \in Pieces,
           Rec(p) = Rec(q), p < q,
           \A z \in Pieces : Rec(z) = Rec(p) => ~(p < z /\ z < q)
    PROVE  SortedPlace(q) = SortedPlace(p) + 1
<1>1. \A z \in Pieces : Rec(z) \in Nat /\ z \in Nat
  BY BatchPieces, PiecesFinite, Zenon
<1>2. \A z \in Pieces : z \in Before(q) <=> z \in Before(p) \/ z = p
  BY <1>1 DEF Before
<1>3. Before(q) = Before(p) \cup {p}
  BY <1>2, BeforeFinite, Zenon
<1>4. Cardinality(Before(p) \cup {p}) = Cardinality(Before(p)) + 1
  <2>1. Cardinality(Before(p) \cup {p}) = IF p \in Before(p) THEN Cardinality(Before(p))
                                          ELSE Cardinality(Before(p)) + 1
    BY BeforeFinite, FS_AddElement, Zenon
  <2> QED BY <2>1, BeforeFinite, Zenon
<1> QED BY <1>3, <1>4, BeforeFinite, Zenon

--------------------------------------------------------------------------------
(* The serial run.                                                         *)

(* Serial depends on the writers only.                                     *)
LEMMA SameWriters ==
    ASSUME NEW d, NEW j, NEW e, NEW k, NEW r, WritersBefore(d, j, r) = WritersBefore(e, k, r)
    PROVE  Serial(d, j, r) = Serial(e, k, r)
BY DEF Serial

(* Before an epoch's first operation on r the serial run is where the      *)
(* epoch before left it.                                                   *)
LEMMA EpochBegins ==
    ASSUME Types, epoch <= NEpochs, NEW r, NEW k,
           \A q \in Pieces : Rec(q) = r => ~(q < k)
    PROVE  Serial(epoch, k, r) = Serial(epoch - 1, NumOps, r)
<1>1. epoch \in Nat
  BY GaccoAssumption DEF GaccoAssumption, Types
<1>2. ASSUME NEW d \in Int, NEW q \in Pieces,
             batch[d][q].record = r
      PROVE  (d \in 1 .. epoch /\ (d < epoch \/ q < k))
                <=> (d \in 1 .. epoch - 1 /\ (d < epoch - 1 \/ q < NumOps))
  <2>1. q < NumOps
    BY PiecesFinite, Zenon
  <2>2. d = epoch => ~(q < k)
    BY <1>2, Zenon DEF Rec
  <2> QED BY <2>1, <2>2, <1>1
<1>3. WritersBefore(epoch, k, r) = WritersBefore(epoch - 1, NumOps, r)
  <2>1. ASSUME NEW w PROVE w \in WritersBefore(epoch, k, r) <=> w \in WritersBefore(epoch - 1, NumOps, r)
    <3>1. CASE \E d \in Int, q \in Pieces : w = <<d, q>>
      <4>1. PICK d \in Int, q \in Pieces : w = <<d, q>>
        BY <3>1, Zenon
      <4> QED BY <4>1, <1>2, Zenon DEF WritersBefore
    <3>2. CASE ~\E d \in Int, q \in Pieces : w = <<d, q>>
      BY <3>2, <1>1 DEF WritersBefore
    <3> QED BY <3>1, <3>2, Zenon
  <2> QED BY <2>1, Zenon
<1> QED BY <1>3, SameWriters

(* One more operation on r: its write is the last one, or it does not      *)
(* write.                                                                  *)
LEMMA NextOperation ==
    ASSUME Types, epoch <= NEpochs, NEW p \in Pieces, NEW k,
           \A q \in Pieces : Rec(q) = Rec(p) => (q < k <=> q < p \/ q = p)
    PROVE  Serial(epoch, k, Rec(p)) =
              IF Writes(p) THEN <<epoch, TxnOf(p)>> ELSE Serial(epoch, p, Rec(p))
<1> DEFINE old == WritersBefore(epoch, p, Rec(p))
           new == WritersBefore(epoch, k, Rec(p))
           me == <<epoch, p>>
<1>1. epoch \in Nat /\ epoch \in 1 .. epoch /\ p \in Nat /\ ~(p < p)
  BY GaccoAssumption, PiecesFinite DEF GaccoAssumption, Types
<1>2. ASSUME NEW d \in 1 .. epoch, NEW q \in Pieces
      PROVE  <<d, q>> \in new <=> <<d, q>> \in old \/ (Writes(p) /\ d = epoch /\ q = p)
  <2>1. <<d, q>> \in new <=> /\ d < epoch \/ q < k
                             /\ batch[d][q].record = Rec(p)
                             /\ batch[d][q].op \in {"UPDATE", "READ_MODIFY_WRITE", "INSERT"}
    BY Zenon DEF WritersBefore
  <2>2. <<d, q>> \in old <=> /\ d < epoch \/ q < p
                             /\ batch[d][q].record = Rec(p)
                             /\ batch[d][q].op \in {"UPDATE", "READ_MODIFY_WRITE", "INSERT"}
    BY Zenon DEF WritersBefore
  <2>3. CASE d < epoch
    BY <2>1, <2>2, <2>3, <1>1
  <2>4. CASE d = epoch /\ Rec(q) = Rec(p)
    <3>1. batch[d][q].record = Rec(p)
      BY <2>4, Zenon DEF Rec
    <3>2. Writes(p) <=> batch[epoch][p].op \in {"UPDATE", "READ_MODIFY_WRITE", "INSERT"}
      BY Zenon DEF Writes
    <3>3. ~(epoch < epoch)
      BY <1>1
    <3> QED BY <3>1, <3>2, <3>3, <2>1, <2>2, <2>4, <1>1, Zenon
  <2>5. CASE d = epoch /\ Rec(q) # Rec(p)
    BY <2>1, <2>2, <2>5, Zenon DEF Rec
  <2> QED BY <2>3, <2>4, <2>5, <1>1
<1>3. \A w \in new \cup old : \E d \in 1 .. epoch, q \in Pieces : w = <<d, q>>
  BY DEF WritersBefore
<1>4. CASE ~Writes(p)
  <2> HIDE DEF new, old
  <2>1. ASSUME NEW w PROVE w \in new <=> w \in old
    BY <1>2, <1>3, <1>4
  <2>2. new = old
    BY <2>1, Zenon
  <2>3. Serial(epoch, k, Rec(p)) = Serial(epoch, p, Rec(p))
    BY <2>2, SameWriters DEF new, old
  <2> QED BY <2>3, <1>4, Zenon
<1>5. CASE Writes(p)
  <2>1. me \in new
    BY <1>1, <1>2, <1>5, Zenon
  <2>2. ASSUME NEW v \in new PROVE NotAfter(v, me)
    <3>1. PICK d \in 1 .. epoch, q \in Pieces : v = <<d, q>>
      BY <1>3, Zenon
    <3>2. d < epoch \/ q < k
      BY <3>1, <2>2, Zenon DEF WritersBefore
    <3>3. d = epoch => Rec(q) = Rec(p)
      BY <3>1, <2>2, Zenon DEF WritersBefore, Rec
    <3>4. d < epoch \/ (d = epoch /\ (q < p \/ q = p))
      BY <3>2, <3>3, <1>1
    <3>5. q \in Nat
      BY PiecesFinite, Zenon
    <3> QED BY <3>1, <3>4, <3>5, <1>1 DEF NotAfter
  <2>3. ASSUME NEW w \in new, \A v \in new : NotAfter(v, w) PROVE w = me
    <3>1. PICK d \in 1 .. epoch, q \in Pieces : w = <<d, q>>
      BY <1>3, Zenon
    <3>2. NotAfter(me, w) /\ NotAfter(w, me)
      BY <2>1, <2>2, <2>3, Zenon
    <3>3. q \in Nat
      BY PiecesFinite, Zenon
    <3> QED BY <3>1, <3>2, <3>3, <1>1 DEF NotAfter
  <2>4. (CHOOSE w \in new : \A v \in new : NotAfter(v, w)) = me
    BY <2>1, <2>2, <2>3, Zenon
  <2>5. Serial(epoch, k, Rec(p)) = <<me[1], TxnOf(me[2])>>
    BY <2>1, <2>4, Zenon DEF Serial
  <2> QED BY <2>5, <1>5, Zenon
<1> QED BY <1>4, <1>5, Zenon

--------------------------------------------------------------------------------
(* The steps.                                                              *)

(* Within an epoch the operations, their places and the serial run are     *)
(* fixed.                                                                  *)
LEMMA SameBatch ==
    ASSUME batch' = batch, epoch' = epoch
    PROVE  /\ \A p : Rec(p)' = Rec(p) /\ (Reads(p)' <=> Reads(p)) /\ SortedPlace(p)' = SortedPlace(p)
           /\ \A e, k, r : Serial(e, k, r)' = Serial(e, k, r)
<1>1. \A p : Rec(p)' = Rec(p) /\ (Reads(p)' <=> Reads(p))
  BY Zenon DEF Rec, Reads
<1>2. \A p : SortedPlace(p)' = SortedPlace(p)
  BY <1>1, Zenon DEF SortedPlace
<1>3. \A e, k, r : WritersBefore(e, k, r)' = WritersBefore(e, k, r)
  BY ZenonT(40) DEF WritersBefore
<1>4. ASSUME NEW e, NEW k, NEW r PROVE Serial(e, k, r)' = Serial(e, k, r)
  <2>1. WritersBefore(e, k, r)' = WritersBefore(e, k, r)
    BY <1>3, Zenon
  <2> QED BY <2>1 DEF Serial
<1> QED BY <1>1, <1>2, <1>4, Zenon

(* The invariant holds before the first epoch.                             *)
LEMMA GaccoInvInit == Init => GaccoInv
<1> SUFFICES ASSUME Init PROVE GaccoInv
  BY Zenon
<1> USE GaccoAssumption DEF GaccoAssumption
<1>1. Types
  <2>1. batch \in [1 .. NEpochs -> {b \in Batches : Distinct(b)}] /\ phase = "plan"
    BY Zenon DEF Init
  <2>2. epoch \in 1 .. NEpochs + 1
    BY DEF Init
  <2>3. pc \in [Pieces -> Steps] /\ next \in [Pieces -> Nat] /\ offset \in [Records -> Nat]
    BY Zenon DEF Init, Steps
  <2>4. DOMAIN lock = Records /\ DOMAIN value = Records /\ DOMAIN got = Pieces
    BY Zenon DEF Init
  <2> QED BY <2>1, <2>2, <2>3, <2>4, Zenon DEF Types
<1>2. phase = "plan" /\ phase # "run"
  BY Zenon DEF Init
<1>3. ASSUME NEW r \in Records PROVE value[r] = Serial(epoch - 1, NumOps, r)
  <2>1. \A d \in 1 .. epoch - 1 : FALSE
    BY DEF Init
  <2>2. WritersBefore(epoch - 1, NumOps, r) = {}
    BY <2>1, Zenon DEF WritersBefore
  <2> QED BY <2>2, Zenon DEF Serial, Init
<1> QED BY <1>1, <1>2, <1>3, Zenon DEF GaccoInv, ReadsSerial, EpochSerial

(* The plan: every touched record is handed to its first piece, whatever   *)
(* the epoch before left in the rows of the lock table.                    *)
LEMMA PlanKeeps == ASSUME GaccoInv, InitializeExecutionPlan PROVE GaccoInv'
<1> DEFINE sorted == [i \in Pieces |-> CHOOSE p \in Pieces : SortedPlace(p) = i]
<1>f. /\ phase = "plan" /\ epoch <= NEpochs /\ phase' = "run" /\ counter' = 0
      /\ UNCHANGED <<batch, epoch, next, value, got>>
      /\ pc' = [p \in Pieces |-> "unclaimed"]
      /\ access' = [i \in 0 .. NumOps |-> IF i = NumOps THEN access[i] ELSE TxnOf(sorted[i])]
      /\ offset' = [r \in Records |-> IF r \in Touched THEN UniqueOffset(r) ELSE offset[r]]
      /\ lock' = [r \in Records |-> IF r \in Touched THEN access'[UniqueOffset(r)] ELSE lock[r]]
  BY Zenon DEF InitializeExecutionPlan
<1>t. Types
  BY Zenon DEF GaccoInv
<1>s. /\ \A p : Rec(p)' = Rec(p) /\ SortedPlace(p)' = SortedPlace(p)
      /\ \A e, k, r : Serial(e, k, r)' = Serial(e, k, r)
  BY <1>f, SameBatch, Zenon
<1>p. \A p \in Pieces : /\ pc'[p] = "unclaimed" /\ ~Passed(p)' /\ ~Drew(p)' /\ ~Wrote(p)'
                        /\ Rec(p) \in Records /\ Rec(p) \in Touched
  BY <1>f, <1>t, BatchPieces, Zenon DEF Passed, Drew, Wrote, Touched
<1>a. ASSUME NEW p \in Pieces PROVE access'[SortedPlace(p)] = TxnOf(p)
  <2>1. SortedPlace(p) \in Pieces /\ \A q \in Pieces : SortedPlace(q) = SortedPlace(p) => q = p
    BY <1>f, <1>t, PlaceInTable, PlacesDiffer, Zenon
  <2>2. sorted[SortedPlace(p)] = p
    BY <2>1, Zenon
  <2>3. SortedPlace(p) \in 0 .. NumOps /\ SortedPlace(p) # NumOps
    BY <2>1, PiecesFinite DEF Pieces
  <2> HIDE DEF sorted
  <2> QED BY <2>2, <2>3, <1>f, Zenon
<1>1. Types'
  <2>1. \A r \in Records : UniqueOffset(r) \in Nat
    <3>1. \A r : IsFiniteSet({q \in Pieces : Rec(q) < r})
      BY PiecesFinite, FS_Subset, Zenon
    <3> QED BY <3>1, FS_CardinalityType, Zenon DEF UniqueOffset
  <2>2. offset' \in [Records -> Nat]
    BY <2>1, <1>f, <1>t, Zenon DEF Types
  <2>3. pc' \in [Pieces -> Steps]
    BY <1>f, Zenon DEF Steps
  <2>4. DOMAIN lock' = Records
    BY <1>f, Zenon
  <2> QED BY <2>2, <2>3, <2>4, <1>f, <1>t, Zenon DEF Types
<1>2. Claimed' /\ Ordered'
  BY <1>a, <1>f, <1>p, <1>s, Zenon DEF Claimed, Ordered
<1>3. TurnKept'
  <2>1. ASSUME NEW p \in Pieces, Turn(p)'
        PROVE  offset'[Rec(p)] = SortedPlace(p) /\ lock'[Rec(p)] = TxnOf(p)
    <3>1. \A q \in Pieces : Rec(q) = Rec(p) => ~(q < p)
      BY <2>1, <1>p, <1>s, Zenon DEF Turn
    <3>2. SortedPlace(p) = UniqueOffset(Rec(p))
      BY <3>1, <1>f, <1>t, FirstPlace, Zenon
    <3> QED BY <3>2, <1>a, <1>f, <1>p, Zenon
  <2> QED BY <2>1, <1>p, <1>s, Zenon DEF TurnKept
<1>4. ValueSerial'
  <2> SUFFICES ASSUME NEW r \in Records, NEW k \in 0 .. NumOps,
                      \A q \in Pieces : Rec(q) = r => (q < k <=> Wrote(q)')
               PROVE  value[r] = Serial(epoch, k, r)
    BY <1>f, <1>s, Zenon DEF ValueSerial
  <2>1. \A q \in Pieces : Rec(q) = r => ~(q < k)
    BY <1>p, Zenon
  <2>2. Serial(epoch, k, r) = Serial(epoch - 1, NumOps, r)
    BY <2>1, <1>f, <1>t, EpochBegins, Zenon
  <2> QED BY <2>2, <1>f, Zenon DEF GaccoInv, EpochSerial
<1>5. ReadsSerial' /\ EpochSerial'
  BY <1>f, <1>p, Zenon DEF ReadsSerial, EpochSerial
<1> QED BY <1>1, <1>2, <1>3, <1>4, <1>5, Zenon DEF GaccoInv

(* What a step of one piece leaves alone.                                  *)
LEMMA PieceSteps ==
    ASSUME GaccoInv, NEW p \in Pieces, NEW s \in Steps, At(p, pc[p]), pc[p] # "unclaimed", Goto(p, s),
           UNCHANGED <<batch, epoch, phase, counter>>
    PROVE  /\ Types /\ Claimed' /\ Ordered /\ TurnKept /\ ValueSerial /\ ReadsSerial
           /\ epoch <= NEpochs /\ phase' = "run" /\ EpochSerial'
           /\ pc' \in [Pieces -> Steps] /\ pc'[p] = s
           /\ \A q \in Pieces : q # p => pc'[q] = pc[q]
           /\ \A q \in Pieces : Rec(q) \in Records /\ q \in Nat
           /\ \A q : Rec(q)' = Rec(q) /\ (Reads(q)' <=> Reads(q)) /\ SortedPlace(q)' = SortedPlace(q)
           /\ \A e, k, r : Serial(e, k, r)' = Serial(e, k, r)
<1>1. /\ phase = "run" /\ phase' = "run" /\ Types /\ Claimed /\ Ordered /\ TurnKept /\ ValueSerial
      /\ ReadsSerial /\ epoch <= NEpochs
  BY Zenon DEF GaccoInv, At, Types
<1>2. /\ pc' \in [Pieces -> Steps] /\ pc'[p] = s
      /\ \A q \in Pieces : q # p => pc'[q] = pc[q]
  BY <1>1, Zenon DEF Types, Goto
<1>3. EpochSerial'
  BY <1>1, Zenon DEF EpochSerial
<1>4. Claimed'
  BY <1>1, <1>2, Zenon DEF Claimed
<1>5. /\ \A q : Rec(q)' = Rec(q) /\ (Reads(q)' <=> Reads(q)) /\ SortedPlace(q)' = SortedPlace(q)
      /\ \A e, k, r : Serial(e, k, r)' = Serial(e, k, r)
  BY SameBatch, Zenon
<1>6. \A q \in Pieces : Rec(q) \in Records /\ q \in Nat
  BY <1>1, BatchPieces, PiecesFinite, Zenon
<1> QED BY <1>1, <1>2, <1>3, <1>4, <1>5, <1>6, Zenon

(* While a piece holds its record, those before it are done and those      *)
(* after it wait.                                                          *)
LEMMA Holder ==
    ASSUME Ordered, NEW p \in Pieces, pc[p] \in {"read", "write", "release", "hand"}
    PROVE  \A q \in Pieces : Rec(q) = Rec(p) =>
              /\ q < p => pc[q] = "done"
              /\ p < q => ~Passed(q)
<1>1. Passed(p) /\ pc[p] # "done"
  BY Zenon DEF Passed
<1> QED BY <1>1, Zenon DEF Ordered

(* A block claims pieces that wait for nobody yet.                         *)
LEMMA ClaimKeeps == ASSUME GaccoInv, Claim PROVE GaccoInv'
<1>f. /\ phase = "run" /\ counter' = counter + BlockSize
      /\ pc' = [p \in Pieces |-> IF p \in counter .. counter + BlockSize - 1 THEN "spin" ELSE pc[p]]
      /\ UNCHANGED <<batch, epoch, phase, access, offset, lock, next, value, got>>
  BY Zenon DEF Claim
<1>t. /\ Types /\ Claimed /\ Ordered /\ TurnKept /\ ValueSerial /\ ReadsSerial
      /\ BlockSize \in Nat /\ counter \in Nat
  BY <1>f, GaccoAssumption, Zenon DEF GaccoInv, GaccoAssumption, Claimed
<1>s. /\ \A p : Rec(p)' = Rec(p) /\ (Reads(p)' <=> Reads(p)) /\ SortedPlace(p)' = SortedPlace(p)
      /\ \A e, k, r : Serial(e, k, r)' = Serial(e, k, r)
  BY <1>f, SameBatch, Zenon
<1>p. ASSUME NEW p \in Pieces
      PROVE  /\ pc'[p] \in Steps
             /\ p >= counter' => pc'[p] = "unclaimed"
             /\ pc'[p] = pc[p] \/ (pc[p] = "unclaimed" /\ pc'[p] = "spin")
  <2>1. pc[p] \in Steps /\ p \in Nat /\ "spin" \in Steps
    BY <1>t, PiecesFinite, Zenon DEF Types, Steps
  <2>2. CASE p \in counter .. counter + BlockSize - 1
    BY <2>1, <2>2, <1>f, <1>t DEF Claimed
  <2>3. CASE p \notin counter .. counter + BlockSize - 1
    BY <2>1, <2>3, <1>f, <1>t DEF Claimed
  <2> QED BY <2>2, <2>3, Zenon
<1>q. \A p \in Pieces : /\ Passed(p)' <=> Passed(p)
                        /\ Wrote(p)' <=> Wrote(p)
                        /\ Drew(p)' <=> Drew(p)
                        /\ pc'[p] = "done" <=> pc[p] = "done"
                        /\ pc'[p] = "hand" <=> pc[p] = "hand"
                        /\ pc'[p] \notin {"unclaimed", "spin", "read"}
                              <=> pc[p] \notin {"unclaimed", "spin", "read"}
  BY <1>p, Zenon DEF Passed, Wrote, Drew
<1>1. Types'
  <2>1. pc' \in [Pieces -> Steps]
    BY <1>f, <1>p, Zenon
  <2> QED BY <2>1, <1>f, <1>t, Zenon DEF Types
<1>2. Claimed'
  BY <1>f, <1>p, <1>t DEF Claimed
<1>3. Ordered'
  BY <1>f, <1>q, <1>s, <1>t, Zenon DEF Ordered
<1>4. TurnKept'
  <2>1. \A p \in Pieces : Turn(p)' <=> Turn(p)
    BY <1>q, <1>s, Zenon DEF Turn
  <2> QED BY <2>1, <1>f, <1>q, <1>s, <1>t, Zenon DEF TurnKept
<1>5. ValueSerial'
  BY <1>f, <1>q, <1>s, <1>t, Zenon DEF ValueSerial
<1>6. ReadsSerial' /\ EpochSerial'
  BY <1>f, <1>q, <1>s, <1>t, Zenon DEF ReadsSerial, EpochSerial
<1> QED BY <1>1, <1>2, <1>3, <1>4, <1>5, <1>6, Zenon DEF GaccoInv

(* When the lock names a piece that spins, all before it on the record are *)
(* done.                                                                   *)
LEMMA LockNamesTurn ==
    ASSUME Types, epoch <= NEpochs, Ordered, TurnKept, NEW p \in Pieces,
           pc[p] = "spin", lock[Rec(p)] = TxnOf(p)
    PROVE  \A q \in Pieces : Rec(q) = Rec(p) /\ q < p => pc[q] = "done"
<1> DEFINE S == {q \in Pieces : Rec(q) = Rec(p) /\ ~Drew(q)}
<1>1. \A q \in Pieces : q \in Nat /\ (pc[q] = "hand" => Passed(q) /\ pc[q] # "done")
  BY PiecesFinite, Zenon DEF Passed
<1>2. ASSUME NEW q \in Pieces, Rec(q) = Rec(p) PROVE pc[q] # "hand"
  <2> SUFFICES ASSUME pc[q] = "hand" PROVE FALSE
    BY Zenon
  <2>1. lock[Rec(q)] = TxnOf(q)
    BY <1>1, Zenon DEF TurnKept
  <2>2. TxnOf(q) = TxnOf(p)
    BY <2>1, <1>2, Zenon
  <2>3. q = p
    BY <2>2, <1>2, BatchPieces, Zenon
  <2> QED BY <2>3, Zenon
<1>3. p \in S
  BY Zenon DEF Drew
<1>4. PICK m \in S : \A q \in S : m <= q
  <2>1. S \subseteq Pieces /\ S # {}
    BY <1>3, Zenon
  <2> HIDE DEF S
  <2> QED BY <2>1, FirstPiece, Zenon
<1>5. m \in Pieces /\ Rec(m) = Rec(p) /\ Turn(m)
  <2>1. m \in Pieces /\ Rec(m) = Rec(p) /\ ~Drew(m)
    BY <1>4, Zenon
  <2>2. ASSUME NEW q \in Pieces, q < m, Rec(q) = Rec(m) PROVE Drew(q)
    <3>1. ~(m <= q)
      BY <2>1, <2>2, <1>1
    <3> QED BY <3>1, <2>1, <2>2, <1>4, Zenon
  <2> QED BY <2>1, <2>2, Zenon DEF Turn
<1>6. m = p
  <2>1. lock[Rec(m)] = TxnOf(m)
    BY <1>2, <1>5, Zenon DEF TurnKept
  <2>2. TxnOf(m) = TxnOf(p)
    BY <2>1, <1>5, Zenon
  <2> QED BY <2>2, <1>5, BatchPieces, Zenon
<1> QED BY <1>2, <1>5, <1>6, Zenon DEF Turn, Drew

(* A piece passes acquireLock only in its turn.                            *)
LEMMA AcquireLockKeeps ==
    ASSUME GaccoInv, NEW p \in Pieces, AcquireLock(p) PROVE GaccoInv'
<1>f. /\ At(p, "spin") /\ pc[p] = "spin" /\ lock[Rec(p)] = TxnOf(p) /\ Goto(p, "read")
      /\ UNCHANGED <<batch, epoch, phase, access, offset, lock, counter, next, value, got>>
  BY Zenon DEF AcquireLock, At
<1>t. /\ Types /\ Claimed' /\ Ordered /\ TurnKept /\ ValueSerial /\ ReadsSerial
      /\ epoch <= NEpochs /\ phase' = "run" /\ EpochSerial'
      /\ pc' \in [Pieces -> Steps] /\ pc'[p] = "read"
      /\ \A q \in Pieces : q # p => pc'[q] = pc[q]
      /\ \A q \in Pieces : Rec(q) \in Records /\ q \in Nat
      /\ \A q : Rec(q)' = Rec(q) /\ (Reads(q)' <=> Reads(q)) /\ SortedPlace(q)' = SortedPlace(q)
      /\ \A e, k, r : Serial(e, k, r)' = Serial(e, k, r)
  <2>1. "read" \in Steps /\ pc[p] # "unclaimed" /\ At(p, pc[p])
    BY <1>f, Zenon DEF Steps
  <2> QED BY <2>1, <1>f, PieceSteps, Zenon
<1>p. \A q \in Pieces : Rec(q) = Rec(p) /\ q < p => pc[q] = "done"
  BY <1>f, <1>t, LockNamesTurn, Zenon
<1>q. \A q \in Pieces : /\ q # p => (Passed(q)' <=> Passed(q))
                        /\ Wrote(q)' <=> Wrote(q)
                        /\ Drew(q)' <=> Drew(q)
                        /\ pc'[q] = "done" <=> pc[q] = "done"
                        /\ pc'[q] = "hand" <=> pc[q] = "hand"
                        /\ pc'[q] \notin {"unclaimed", "spin", "read"}
                              <=> pc[q] \notin {"unclaimed", "spin", "read"}
  BY <1>f, <1>t, Zenon DEF Passed, Wrote, Drew
<1>1. Types'
  BY <1>f, <1>t, Zenon DEF Types
<1>2. Ordered'
  <2>1. \A q \in Pieces : access'[SortedPlace(q)'] = TxnOf(q)
    BY <1>f, <1>t, Zenon DEF Ordered
  <2>2. ASSUME NEW z \in Pieces, NEW q \in Pieces, Rec(z) = Rec(q), z < q, Passed(q)'
        PROVE  pc'[z] = "done"
    <3>1. CASE q = p
      BY <3>1, <2>2, <1>p, <1>q, Zenon
    <3>2. CASE q # p
      BY <3>2, <2>2, <1>q, <1>t, Zenon DEF Ordered
    <3> QED BY <3>1, <3>2, Zenon
  <2> QED BY <2>1, <2>2, <1>t, Zenon DEF Ordered
<1>3. TurnKept'
  <2>1. \A q \in Pieces : Turn(q)' <=> Turn(q)
    BY <1>q, <1>t, Zenon DEF Turn
  <2>2. \A q \in Pieces : Passed(q)' /\ pc'[q] # "done" => lock'[Rec(q)] = TxnOf(q)
    BY <1>f, <1>q, <1>t, Zenon DEF TurnKept
  <2> QED BY <2>1, <2>2, <1>f, <1>q, <1>t, Zenon DEF TurnKept
<1>4. ValueSerial'
  BY <1>f, <1>q, <1>t, Zenon DEF ValueSerial
<1>5. ReadsSerial'
  BY <1>f, <1>q, <1>t, Zenon DEF ReadsSerial
<1> QED BY <1>1, <1>2, <1>3, <1>4, <1>5, <1>t, Zenon DEF GaccoInv

(* The holder finds what the operations before it left.                    *)
LEMMA HolderSeesSerial ==
    ASSUME Types, epoch <= NEpochs, Ordered, ValueSerial, NEW p \in Pieces, pc[p] \in {"read", "write"}
    PROVE  /\ \A q \in Pieces : Rec(q) = Rec(p) => (q < p <=> Wrote(q))
           /\ value[Rec(p)] = Serial(epoch, p, Rec(p))
<1>1. ASSUME NEW q \in Pieces, Rec(q) = Rec(p) PROVE q < p <=> Wrote(q)
  <2>1. /\ q < p => pc[q] = "done"
        /\ p < q => ~Passed(q)
    BY <1>1, Holder, Zenon
  <2>2. q \in Nat /\ p \in Nat
    BY PiecesFinite, Zenon
  <2>3. CASE q < p
    BY <2>1, <2>3, Zenon DEF Wrote
  <2>4. CASE q = p
    BY <2>2, <2>4 DEF Wrote
  <2>5. CASE p < q
    BY <2>1, <2>2, <2>5, Zenon DEF Wrote, Passed
  <2> QED BY <2>2, <2>3, <2>4, <2>5
<1>2. p \in 0 .. NumOps /\ Rec(p) \in Records
  BY PiecesFinite, BatchPieces
<1> QED BY <1>1, <1>2, Zenon DEF ValueSerial

(* A read returns what the serial run would.                               *)
LEMMA ReadDataKeeps ==
    ASSUME GaccoInv, NEW p \in Pieces, ReadData(p) PROVE GaccoInv'
<1>f. /\ At(p, "read") /\ pc[p] = "read" /\ Goto(p, "write")
      /\ got' = IF Reads(p) THEN [got EXCEPT ![p] = value[Rec(p)]] ELSE got
      /\ UNCHANGED <<batch, epoch, phase, access, offset, lock, counter, next, value>>
  BY Zenon DEF ReadData, At
<1>t. /\ Types /\ Claimed' /\ Ordered /\ TurnKept /\ ValueSerial /\ ReadsSerial
      /\ epoch <= NEpochs /\ phase' = "run" /\ EpochSerial'
      /\ pc' \in [Pieces -> Steps] /\ pc'[p] = "write"
      /\ \A q \in Pieces : q # p => pc'[q] = pc[q]
      /\ \A q \in Pieces : Rec(q) \in Records /\ q \in Nat
      /\ \A q : Rec(q)' = Rec(q) /\ (Reads(q)' <=> Reads(q)) /\ SortedPlace(q)' = SortedPlace(q)
      /\ \A e, k, r : Serial(e, k, r)' = Serial(e, k, r)
  <2>1. "write" \in Steps /\ pc[p] # "unclaimed" /\ At(p, pc[p])
    BY <1>f, Zenon DEF Steps
  <2> QED BY <2>1, <1>f, PieceSteps, Zenon
<1>q. \A q \in Pieces : /\ Passed(q)' <=> Passed(q)
                        /\ Wrote(q)' <=> Wrote(q)
                        /\ Drew(q)' <=> Drew(q)
                        /\ pc'[q] = "done" <=> pc[q] = "done"
                        /\ pc'[q] = "hand" <=> pc[q] = "hand"
  BY <1>f, <1>t, Zenon DEF Passed, Wrote, Drew
<1>g. /\ DOMAIN got' = Pieces /\ (Reads(p) => got'[p] = value[Rec(p)])
      /\ \A q \in Pieces : q # p => got'[q] = got[q]
  BY <1>f, <1>t, Zenon DEF Types
<1>1. Types'
  BY <1>f, <1>g, <1>t, Zenon DEF Types
<1>2. Ordered'
  BY <1>f, <1>q, <1>t, Zenon DEF Ordered
<1>3. TurnKept'
  <2>1. \A q \in Pieces : Turn(q)' <=> Turn(q)
    BY <1>q, <1>t, Zenon DEF Turn
  <2> QED BY <2>1, <1>f, <1>q, <1>t, Zenon DEF TurnKept
<1>4. ValueSerial'
  BY <1>f, <1>q, <1>t, Zenon DEF ValueSerial
<1>5. ReadsSerial'
  <2>1. value[Rec(p)] = Serial(epoch, p, Rec(p))
    BY <1>f, <1>t, HolderSeesSerial, Zenon
  <2>2. phase = "run"
    BY <1>f, Zenon DEF At
  <2>3. ASSUME NEW q \in Pieces, pc'[q] \notin {"unclaimed", "spin", "read"}, Reads(q)
        PROVE  got'[q] = Serial(epoch, q, Rec(q))
    <3>1. CASE q = p
      BY <3>1, <2>1, <2>3, <1>g, Zenon
    <3>2. CASE q # p
      BY <3>2, <2>2, <2>3, <1>g, <1>t, Zenon DEF ReadsSerial
    <3> QED BY <3>1, <3>2, Zenon
  <2> QED BY <2>3, <1>f, <1>t, Zenon DEF ReadsSerial
<1> QED BY <1>1, <1>2, <1>3, <1>4, <1>5, <1>t, Zenon DEF GaccoInv

(* A write takes the record to where the serial run has it next.           *)
LEMMA WriteDataKeeps ==
    ASSUME GaccoInv, NEW p \in Pieces, WriteData(p) PROVE GaccoInv'
<1>f. /\ At(p, "write") /\ pc[p] = "write" /\ Goto(p, "release")
      /\ value' = IF Writes(p) THEN [value EXCEPT ![Rec(p)] = <<epoch, TxnOf(p)>>] ELSE value
      /\ UNCHANGED <<batch, epoch, phase, access, offset, lock, counter, next, got>>
  BY Zenon DEF WriteData, At
<1>t. /\ Types /\ Claimed' /\ Ordered /\ TurnKept /\ ValueSerial /\ ReadsSerial
      /\ epoch <= NEpochs /\ phase' = "run" /\ EpochSerial'
      /\ pc' \in [Pieces -> Steps] /\ pc'[p] = "release"
      /\ \A q \in Pieces : q # p => pc'[q] = pc[q]
      /\ \A q \in Pieces : Rec(q) \in Records /\ q \in Nat
      /\ \A q : Rec(q)' = Rec(q) /\ (Reads(q)' <=> Reads(q)) /\ SortedPlace(q)' = SortedPlace(q)
      /\ \A e, k, r : Serial(e, k, r)' = Serial(e, k, r)
  <2>1. "release" \in Steps /\ pc[p] # "unclaimed" /\ At(p, pc[p])
    BY <1>f, Zenon DEF Steps
  <2> QED BY <2>1, <1>f, PieceSteps, Zenon
<1>q. \A q \in Pieces : /\ Passed(q)' <=> Passed(q)
                        /\ Wrote(q)' <=> Wrote(q) \/ q = p
                        /\ Drew(q)' <=> Drew(q)
                        /\ pc'[q] = "done" <=> pc[q] = "done"
                        /\ pc'[q] = "hand" <=> pc[q] = "hand"
                        /\ pc'[q] \notin {"unclaimed", "spin", "read"}
                              <=> pc[q] \notin {"unclaimed", "spin", "read"}
  BY <1>f, <1>t, Zenon DEF Passed, Wrote, Drew
<1>v. /\ DOMAIN value' = Records
      /\ value'[Rec(p)] = IF Writes(p) THEN <<epoch, TxnOf(p)>> ELSE value[Rec(p)]
      /\ \A r \in Records : r # Rec(p) => value'[r] = value[r]
  BY <1>f, <1>t, Zenon DEF Types
<1>1. Types'
  BY <1>f, <1>v, <1>t, Zenon DEF Types
<1>2. Ordered'
  BY <1>f, <1>q, <1>t, Zenon DEF Ordered
<1>3. TurnKept'
  <2>1. \A q \in Pieces : Turn(q)' <=> Turn(q)
    BY <1>q, <1>t, Zenon DEF Turn
  <2> QED BY <2>1, <1>f, <1>q, <1>t, Zenon DEF TurnKept
<1>4. ValueSerial'
  <2> SUFFICES ASSUME NEW r \in Records, NEW k \in 0 .. NumOps,
                      \A q \in Pieces : Rec(q) = r => (q < k <=> Wrote(q)')
               PROVE  value'[r] = Serial(epoch, k, r)
    BY <1>f, <1>t, ZenonT(40) DEF ValueSerial
  <2>1. CASE r = Rec(p)
    <3>1. /\ \A q \in Pieces : Rec(q) = Rec(p) => (q < p <=> Wrote(q))
          /\ value[Rec(p)] = Serial(epoch, p, Rec(p))
      BY <1>f, <1>t, HolderSeesSerial, Zenon
    <3>2. \A q \in Pieces : Rec(q) = Rec(p) => (q < k <=> q < p \/ q = p)
      BY <3>1, <2>1, <1>q, Zenon
    <3>3. Serial(epoch, k, Rec(p)) =
              IF Writes(p) THEN <<epoch, TxnOf(p)>> ELSE Serial(epoch, p, Rec(p))
      BY <3>2, <1>t, NextOperation, Zenon
    <3> QED BY <3>1, <3>3, <2>1, <1>v, Zenon
  <2>2. CASE r # Rec(p)
    <3>1. \A q \in Pieces : Rec(q) = r => (q < k <=> Wrote(q))
      BY <2>2, <1>q, Zenon
    <3> QED BY <3>1, <2>2, <1>t, <1>v, Zenon DEF ValueSerial
  <2> QED BY <2>1, <2>2, Zenon
<1>5. ReadsSerial'
  BY <1>f, <1>q, <1>t, Zenon DEF ReadsSerial
<1> QED BY <1>1, <1>2, <1>3, <1>4, <1>5, <1>t, Zenon DEF GaccoInv

(* The first piece that has not drawn, the leaving one aside, comes next   *)
(* in access.                                                              *)
LEMMA Successor ==
    ASSUME Types, epoch <= NEpochs, Ordered, NEW p \in Pieces, pc[p] \in {"release", "hand"},
           NEW q \in Pieces, Rec(q) = Rec(p), q # p, ~Drew(q),
           \A z \in Pieces : z < q /\ Rec(z) = Rec(q) => Drew(z) \/ z = p
    PROVE  SortedPlace(q) = SortedPlace(p) + 1
<1>1. \A z \in Pieces : Rec(z) = Rec(p) =>
         /\ z < p => pc[z] = "done"
         /\ p < z => ~Passed(z)
  BY Holder, Zenon
<1>2. p \in Nat /\ q \in Nat /\ ~(p < p)
  BY PiecesFinite
<1>3. ~(q < p)
  BY <1>1, Zenon DEF Drew
<1>4. p < q
  BY <1>2, <1>3
<1>5. ASSUME NEW z \in Pieces, Rec(z) = Rec(p), p < z, z < q PROVE FALSE
  <2>1. Drew(z)
    BY <1>2, <1>5, Zenon
  <2>2. Passed(z)
    BY <2>1, Zenon DEF Drew, Passed
  <2> QED BY <2>2, <1>1, <1>5, Zenon
<1> QED BY <1>4, <1>5, NextPlace, Zenon

(* The first half of a release: the offset moves to the next piece of the  *)
(* record, if it has one.                                                  *)
LEMMA ReleaseDrawKeeps ==
    ASSUME GaccoInv, NEW p \in Pieces, ReleaseDraw(p) PROVE GaccoInv'
<1>f. /\ At(p, "release") /\ pc[p] = "release" /\ Goto(p, "hand")
      /\ next' = [next EXCEPT ![p] = offset[Rec(p)] + 1]
      /\ offset' = [offset EXCEPT ![Rec(p)] = @ + 1]
      /\ UNCHANGED <<batch, epoch, phase, access, lock, counter, value, got>>
  BY Zenon DEF ReleaseDraw, At
<1>t. /\ Types /\ Claimed' /\ Ordered /\ TurnKept /\ ValueSerial /\ ReadsSerial
      /\ epoch <= NEpochs /\ phase' = "run" /\ EpochSerial'
      /\ pc' \in [Pieces -> Steps] /\ pc'[p] = "hand"
      /\ \A q \in Pieces : q # p => pc'[q] = pc[q]
      /\ \A q \in Pieces : Rec(q) \in Records /\ q \in Nat
      /\ \A q : Rec(q)' = Rec(q) /\ (Reads(q)' <=> Reads(q)) /\ SortedPlace(q)' = SortedPlace(q)
      /\ \A e, k, r : Serial(e, k, r)' = Serial(e, k, r)
  <2>1. "hand" \in Steps /\ pc[p] # "unclaimed" /\ At(p, pc[p])
    BY <1>f, Zenon DEF Steps
  <2> QED BY <2>1, <1>f, PieceSteps, Zenon
<1>q. \A q \in Pieces : /\ Passed(q)' <=> Passed(q)
                        /\ Wrote(q)' <=> Wrote(q)
                        /\ Drew(q)' <=> Drew(q) \/ q = p
                        /\ pc'[q] = "done" <=> pc[q] = "done"
                        /\ pc'[q] = "hand" <=> pc[q] = "hand" \/ q = p
                        /\ pc'[q] \notin {"unclaimed", "spin", "read"}
                              <=> pc[q] \notin {"unclaimed", "spin", "read"}
  BY <1>f, <1>t, Zenon DEF Passed, Wrote, Drew
<1>o. offset[Rec(p)] = SortedPlace(p)
  <2>1. \A q \in Pieces : Rec(q) = Rec(p) /\ q < p => pc[q] = "done"
    BY <1>f, <1>t, Holder, Zenon
  <2>2. Turn(p)
    BY <2>1, <1>f, Zenon DEF Turn, Drew
  <2> QED BY <2>2, <1>t, Zenon DEF TurnKept
<1>n. /\ next' \in [Pieces -> Nat] /\ next'[p] = SortedPlace(p) + 1
      /\ \A q \in Pieces : q # p => next'[q] = next[q]
  BY <1>f, <1>o, <1>t DEF Types
<1>w. /\ offset' \in [Records -> Nat] /\ offset'[Rec(p)] = SortedPlace(p) + 1
      /\ \A r \in Records : r # Rec(p) => offset'[r] = offset[r]
  BY <1>f, <1>o, <1>t DEF Types
<1>1. Types'
  BY <1>f, <1>n, <1>w, <1>t, Zenon DEF Types
<1>2. Ordered'
  BY <1>f, <1>q, <1>t, Zenon DEF Ordered
<1>u. ASSUME NEW q \in Pieces, Turn(q)', Rec(q) # Rec(p) PROVE Turn(q)
  BY <1>q, <1>t, <1>u, Zenon DEF Turn
<1>3. TurnKept'
  <2>1. ASSUME NEW q \in Pieces, Turn(q)' PROVE offset'[Rec(q)] = SortedPlace(q)
    <3>1. CASE Rec(q) = Rec(p)
      <4>1. q # p /\ ~Drew(q)
        BY <2>1, <1>q, Zenon DEF Turn
      <4>2. \A z \in Pieces : z < q /\ Rec(z) = Rec(q) => Drew(z) \/ z = p
        BY <2>1, <1>q, <1>t, Zenon DEF Turn
      <4>3. SortedPlace(q) = SortedPlace(p) + 1
        BY <4>1, <4>2, <3>1, <1>f, <1>t, Successor, Zenon
      <4> QED BY <4>3, <3>1, <1>w, Zenon
    <3>2. CASE Rec(q) # Rec(p)
      BY <3>2, <2>1, <1>u, <1>w, <1>t, Zenon DEF TurnKept
    <3> QED BY <3>1, <3>2, Zenon
  <2>2. ASSUME NEW q \in Pieces, pc'[q] = "hand" PROVE next'[q] = SortedPlace(q) + 1
    BY <2>2, <1>n, <1>q, <1>t, Zenon DEF TurnKept
  <2>3. ASSUME NEW q \in Pieces, Passed(q)', pc'[q] # "done" PROVE lock'[Rec(q)] = TxnOf(q)
    BY <2>3, <1>f, <1>q, <1>t, Zenon DEF TurnKept
  <2>4. ASSUME NEW q \in Pieces, Turn(q)', \A z \in Pieces : Rec(z) = Rec(q) => pc'[z] # "hand"
        PROVE  lock'[Rec(q)] = TxnOf(q)
    <3>1. Rec(q) # Rec(p)
      BY <2>4, <1>t, Zenon
    <3> QED BY <3>1, <2>4, <1>u, <1>f, <1>q, <1>t, Zenon DEF TurnKept
  <2> QED BY <2>1, <2>2, <2>3, <2>4, <1>t, Zenon DEF TurnKept
<1>4. ValueSerial'
  BY <1>f, <1>q, <1>t, Zenon DEF ValueSerial
<1>5. ReadsSerial'
  BY <1>f, <1>q, <1>t, Zenon DEF ReadsSerial
<1> QED BY <1>1, <1>2, <1>3, <1>4, <1>5, <1>t, Zenon DEF GaccoInv

(* The second half: the lock goes to the transaction found there, and who  *)
(* has work on the record finds its own name.                              *)
LEMMA ReleaseHandKeeps ==
    ASSUME GaccoInv, NEW p \in Pieces, ReleaseHand(p) PROVE GaccoInv'
<1>f. /\ At(p, "hand") /\ pc[p] = "hand" /\ Goto(p, "done")
      /\ lock' = [lock EXCEPT ![Rec(p)] = access[next[p]]]
      /\ UNCHANGED <<batch, epoch, phase, access, offset, counter, next, value, got>>
  BY Zenon DEF ReleaseHand, At
<1>t. /\ Types /\ Claimed' /\ Ordered /\ TurnKept /\ ValueSerial /\ ReadsSerial
      /\ epoch <= NEpochs /\ phase' = "run" /\ EpochSerial'
      /\ pc' \in [Pieces -> Steps] /\ pc'[p] = "done"
      /\ \A q \in Pieces : q # p => pc'[q] = pc[q]
      /\ \A q \in Pieces : Rec(q) \in Records /\ q \in Nat
      /\ \A q : Rec(q)' = Rec(q) /\ (Reads(q)' <=> Reads(q)) /\ SortedPlace(q)' = SortedPlace(q)
      /\ \A e, k, r : Serial(e, k, r)' = Serial(e, k, r)
  <2>1. "done" \in Steps /\ pc[p] # "unclaimed" /\ At(p, pc[p])
    BY <1>f, Zenon DEF Steps
  <2> QED BY <2>1, <1>f, PieceSteps, Zenon
<1>q. \A q \in Pieces : /\ Passed(q)' <=> Passed(q)
                        /\ Wrote(q)' <=> Wrote(q)
                        /\ Drew(q)' <=> Drew(q)
                        /\ pc'[q] = "done" <=> pc[q] = "done" \/ q = p
                        /\ pc'[q] = "hand" <=> pc[q] = "hand" /\ q # p
                        /\ pc'[q] \notin {"unclaimed", "spin", "read"}
                              <=> pc[q] \notin {"unclaimed", "spin", "read"}
  BY <1>f, <1>t, Zenon DEF Passed, Wrote, Drew
<1>n. next[p] = SortedPlace(p) + 1
  BY <1>f, <1>t, Zenon DEF TurnKept
<1>k. /\ DOMAIN lock' = Records /\ lock'[Rec(p)] = access[SortedPlace(p) + 1]
      /\ \A r \in Records : r # Rec(p) => lock'[r] = lock[r]
  BY <1>f, <1>n, <1>t, Zenon DEF Types
<1>1. Types'
  BY <1>f, <1>k, <1>t, Zenon DEF Types
<1>2. Ordered'
  BY <1>f, <1>q, <1>t, Zenon DEF Ordered
<1>u. \A q \in Pieces : Turn(q)' <=> Turn(q)
  BY <1>q, <1>t, Zenon DEF Turn
<1>3. TurnKept'
  <2>1. ASSUME NEW q \in Pieces, Passed(q)', pc'[q] # "done" PROVE lock'[Rec(q)] = TxnOf(q)
    <3>1. q # p /\ Passed(q) /\ pc[q] # "done" /\ q \in Nat /\ p \in Nat
      BY <2>1, <1>q, <1>t, Zenon
    <3>2. Rec(q) # Rec(p)
      <4>1. Rec(q) = Rec(p) => ~(q < p) /\ ~(p < q)
        BY <3>1, <1>f, <1>t, Holder, Zenon
      <4> QED BY <4>1, <3>1
    <3> QED BY <3>1, <3>2, <1>k, <1>t, Zenon DEF TurnKept
  <2>2. ASSUME NEW q \in Pieces, Turn(q), \A z \in Pieces : Rec(z) = Rec(q) => pc'[z] # "hand"
        PROVE  lock'[Rec(q)] = TxnOf(q)
    <3>1. CASE Rec(q) = Rec(p)
      <4>1. q # p /\ ~Drew(q)
        BY <2>2, <1>f, Zenon DEF Turn, Drew
      <4>2. \A z \in Pieces : z < q /\ Rec(z) = Rec(q) => Drew(z) \/ z = p
        BY <2>2, Zenon DEF Turn
      <4>3. SortedPlace(q) = SortedPlace(p) + 1
        BY <4>1, <4>2, <3>1, <1>f, <1>t, Successor, Zenon
      <4> QED BY <4>3, <3>1, <1>k, <1>t, Zenon DEF Ordered
    <3>2. CASE Rec(q) # Rec(p)
      <4>1. \A z \in Pieces : Rec(z) = Rec(q) => pc[z] # "hand"
        BY <3>2, <2>2, <1>q, Zenon
      <4> QED BY <4>1, <3>2, <2>2, <1>k, <1>t, Zenon DEF TurnKept
    <3> QED BY <3>1, <3>2, Zenon
  <2>3. \A q \in Pieces : Turn(q)' => offset'[Rec(q)] = SortedPlace(q)
    BY <1>f, <1>t, <1>u, Zenon DEF TurnKept
  <2>4. \A q \in Pieces : pc'[q] = "hand" => next'[q] = SortedPlace(q) + 1
    BY <1>f, <1>t, <1>q, Zenon DEF TurnKept
  <2> QED BY <2>1, <2>2, <2>3, <2>4, <1>t, <1>u, Zenon DEF TurnKept
<1>4. ValueSerial'
  BY <1>f, <1>q, <1>t, Zenon DEF ValueSerial
<1>5. ReadsSerial'
  BY <1>f, <1>q, <1>t, Zenon DEF ReadsSerial
<1> QED BY <1>1, <1>2, <1>3, <1>4, <1>5, <1>t, Zenon DEF GaccoInv

(* When every piece is done the records are as the serial run of the epoch *)
(* leaves them.                                                            *)
LEMMA EndKernelKeeps == ASSUME GaccoInv, EndKernel PROVE GaccoInv'
<1>f. /\ phase = "run" /\ phase' = "plan" /\ epoch' = epoch + 1
      /\ \A p \in Pieces : pc[p] = "done"
      /\ UNCHANGED <<batch, access, offset, lock, counter, pc, next, value, got>>
  BY Zenon DEF EndKernel
<1>t. Types /\ ValueSerial /\ epoch <= NEpochs
  BY <1>f, Zenon DEF GaccoInv, Types
<1>e. epoch' \in 1 .. NEpochs + 1 /\ epoch' - 1 = epoch
  BY <1>f, <1>t, GaccoAssumption DEF Types, GaccoAssumption
<1>1. Types'
  BY <1>e, <1>f, <1>t, Zenon DEF Types
<1>2. ASSUME NEW r \in Records PROVE value[r] = Serial(epoch, NumOps, r)
  <2>1. \A q \in Pieces : Rec(q) = r => (q < NumOps <=> Wrote(q))
    BY <1>f, PiecesFinite, Zenon DEF Wrote
  <2>2. NumOps \in 0 .. NumOps
    BY PiecesFinite
  <2> QED BY <2>1, <2>2, <1>t, Zenon DEF ValueSerial
<1>3. ASSUME NEW e, NEW k, NEW r PROVE Serial(e, k, r)' = Serial(e, k, r)
  <2>1. WritersBefore(e, k, r)' = WritersBefore(e, k, r)
    BY <1>f, Zenon DEF WritersBefore
  <2> QED BY <2>1 DEF Serial
<1>4. EpochSerial'
  BY <1>2, <1>3, <1>e, <1>f, Zenon DEF EpochSerial
<1>5. ReadsSerial' /\ phase' # "run"
  BY <1>f, Zenon DEF ReadsSerial
<1> QED BY <1>1, <1>4, <1>5, Zenon DEF GaccoInv

(* Every step keeps the invariant.                                         *)
LEMMA GaccoInvNext == GaccoInv /\ [Next]_vars => GaccoInv'
<1> SUFFICES ASSUME GaccoInv, [Next]_vars PROVE GaccoInv'
  BY Zenon
<1>1. CASE InitializeExecutionPlan
  BY <1>1, PlanKeeps, Zenon
<1>2. CASE Claim
  BY <1>2, ClaimKeeps, Zenon
<1>3. ASSUME NEW p \in Pieces, Thread(p) PROVE GaccoInv'
  BY <1>3, AcquireLockKeeps, ReadDataKeeps, WriteDataKeeps, ReleaseDrawKeeps, ReleaseHandKeeps,
     Zenon DEF Thread
<1>4. CASE EndKernel
  BY <1>4, EndKernelKeeps, Zenon
<1>5. CASE UNCHANGED vars
  <2>1. UNCHANGED <<batch, epoch, phase, access, offset, lock, counter, pc, next, value, got>>
    BY <1>5, Zenon DEF vars
  <2>2. /\ \A p : Rec(p)' = Rec(p) /\ (Reads(p)' <=> Reads(p)) /\ SortedPlace(p)' = SortedPlace(p)
        /\ \A e, k, r : Serial(e, k, r)' = Serial(e, k, r)
    BY <2>1, SameBatch, Zenon
  <2>3. \A p : /\ Passed(p)' <=> Passed(p)
               /\ Wrote(p)' <=> Wrote(p)
               /\ Drew(p)' <=> Drew(p)
    BY <2>1, Zenon DEF Passed, Wrote, Drew
  <2>4. \A p : Turn(p)' <=> Turn(p)
    BY <2>2, <2>3, Zenon DEF Turn
  <2>5. Types' /\ EpochSerial' /\ ReadsSerial'
    BY <2>1, <2>2, Zenon DEF GaccoInv, Types, EpochSerial, ReadsSerial
  <2>6. phase = "run" => Claimed' /\ Ordered' /\ ValueSerial'
    BY <2>1, <2>2, <2>3, Zenon DEF GaccoInv, Claimed, Ordered, ValueSerial
  <2>7. phase = "run" => TurnKept'
    BY <2>1, <2>2, <2>3, <2>4, Zenon DEF GaccoInv, TurnKept
  <2> QED BY <2>1, <2>5, <2>6, <2>7, Zenon DEF GaccoInv
<1> QED BY <1>1, <1>2, <1>3, <1>4, <1>5, Zenon DEF Next, Kernel, Spin, Finished

(* The invariant holds throughout.                                         *)
LEMMA GaccoInvHolds == Spec => []GaccoInv
BY GaccoInvInit, GaccoInvNext, PTL DEF Spec

--------------------------------------------------------------------------------
(* The theorems.                                                           *)

(* Whatever the records, the batches and the schedule of the blocks: a     *)
(* piece past acquireLock has its record to itself, every operation before *)
(* it on the record is done and none after it has passed.                  *)
THEOREM LocksHeldInTurn == Spec => []HeldInTurn
<1>1. GaccoInv => HeldInTurn
  BY Zenon DEF GaccoInv, Ordered, HeldInTurn, Passed
<1> QED BY <1>1, GaccoInvHolds, PTL

(* Every read returns, and every epoch leaves, what the transactions run   *)
(* one after the other in the order of their ids would have read and left. *)
THEOREM LocksRunSerially == Spec => []RunsSerially
<1>1. GaccoInv => RunsSerially
  BY Zenon DEF GaccoInv, RunsSerially
<1> QED BY <1>1, GaccoInvHolds, PTL
================================================================================
