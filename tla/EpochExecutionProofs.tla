------------------------- MODULE EpochExecutionProofs --------------------------
(***************************************************************************)
(* Every epoch that is executed by its plan reads and leaves what the      *)
(* serial order does, for every batch, number of records, warps, blocks    *)
(* and threads: first what the planner's counts make of a batch, then the  *)
(* inductive invariant of the execution.                                   *)
(***************************************************************************)
EXTENDS EpochExecution, FiniteSetTheorems, WellFoundedInduction, TLAPS

--------------------------------------------------------------------------------
(* The batch.                                                              *)

IsBatch(b) == b \in Seq([op : STRING, rec : Records])

(* Piece q of batch b writes record r, and no later piece does.            *)
WritesTo(b, q, r) == q \in DOMAIN b /\ r \in WriteSet(b[q])
LastWriter(b, q, r) == WritesTo(b, q, r) /\ \A x \in DOMAIN b : WritesTo(b, x, r) => x <= q

(* The last piece before p that writes r.                                  *)
LastBefore(b, q, p, r) ==
    /\ WritesTo(b, q, r) /\ q < p
    /\ \A x \in DOMAIN b : WritesTo(b, x, r) /\ x < p => x <= q

(* What a plan has to be: a piece reads record A when nobody writes the    *)
(* record before it, record B when the last writer before it is the last   *)
(* of all, and else the element its last writer before it has for itself.  *)
ReadPlanned(b, pl, p, r) ==
    LET i == pl[p].read[r]
    IN  \/ i = LocA /\ \A x \in DOMAIN b : WritesTo(b, x, r) => p <= x
        \/ i = LocB /\ \E q \in DOMAIN b : LastBefore(b, q, p, r) /\ LastWriter(b, q, r)
        \/ /\ i \in Nat
           /\ \E q \in DOMAIN b : /\ LastBefore(b, q, p, r) /\ ~LastWriter(b, q, r)
                                  /\ i = pl[q].write[r]
WritePlanned(b, pl, p, r) ==
    IF LastWriter(b, p, r) THEN pl[p].write[r] = LocB
    ELSE pl[p].write[r] \in 0 .. Cardinality(Submitted(b)) - 1
OwnElement(b, pl) ==
    \A p, q \in DOMAIN b, r, s \in Records :
        /\ WritesTo(b, p, r) /\ ~LastWriter(b, p, r)
        /\ WritesTo(b, q, s) /\ ~LastWriter(b, q, s)
        /\ pl[p].write[r] = pl[q].write[s]
        => p = q /\ r = s
PlanRight(b, pl) ==
    /\ \A p \in DOMAIN b : \A r \in ReadSet(b[p]) : ReadPlanned(b, pl, p, r)
    /\ \A p \in DOMAIN b : \A r \in WriteSet(b[p]) : WritePlanned(b, pl, p, r)
    /\ OwnElement(b, pl)

--------------------------------------------------------------------------------
(* What an operation touches is a record.                                  *)
LEMMA SetsOfRecords ==
    ASSUME NEW b, IsBatch(b), NEW p \in DOMAIN b
    PROVE  p \in Nat /\ ReadSet(b[p]) \subseteq Records /\ WriteSet(b[p]) \subseteq Records
<1> DEFINE R == [op : STRING, rec : Records]
<1>1. b \in Seq(R)
  BY Zenon DEF IsBatch
<1>2. p \in 1 .. Len(b) /\ b[p] \in R
  <2> HIDE DEF R
  <2> QED BY <1>1
<1>3. p \in Nat /\ b[p].rec \in Records
  BY <1>2
<1> QED BY <1>3, Zenon DEF ReadSet, WriteSet

(* Finitely many pieces have a last one.                                   *)
LEMMA LastPiece ==
    ASSUME NEW S, NEW n \in Nat, S \subseteq 1 .. n, S # {}
    PROVE  \E p \in S : \A q \in S : q <= p
<1> DEFINE Above(p) == {q \in S : p < q}
           T == {Above(p) : p \in S}
<1>1. \A p \in S : p \in Nat
  OBVIOUS
<1>2. IsWellFoundedOn(StrictSubsetOrdering(S), SUBSET S)
  <2>1. IsFiniteSet(1 .. n)
    BY FS_Interval
  <2>2. IsFiniteSet(S)
    BY <2>1, FS_Subset, Zenon
  <2> QED BY <2>2, FS_FiniteSubsetsOfFinite, FS_StrictSubsetOrderingWellFounded, Zenon
<1>3. T \subseteq SUBSET S /\ T # {}
  BY Zenon
<1>4. PICK x \in T : \A y \in T : ~(<<y, x>> \in StrictSubsetOrdering(S))
  BY <1>2, <1>3, WFMin, Zenon
<1>5. PICK p \in S : x = Above(p)
  BY <1>4, Zenon
<1>6. ASSUME NEW q \in S, p < q PROVE FALSE
  <2>1. \A z \in S : q < z => p < z
    BY <1>6, <1>1
  <2>2. q \in Above(p) /\ ~(q < q)
    BY <1>6, <1>1
  <2>3. Above(q) \subseteq Above(p) /\ Above(q) # Above(p)
    BY <2>1, <2>2, Zenon
  <2>4. Above(q) \in T /\ <<Above(q), Above(p)>> \in (SUBSET S) \X (SUBSET S)
    BY Zenon
  <2>5. <<Above(q), Above(p)>> \in StrictSubsetOrdering(S)
    BY <2>3, <2>4, Zenon DEF StrictSubsetOrdering
  <2> QED BY <2>4, <2>5, <1>4, <1>5, Zenon
<1> QED BY <1>1, <1>6

(* A record that is written has a last writer, and one before each piece   *)
(* that a writer comes before.                                             *)
LEMMA LastWriterExists ==
    ASSUME NEW b, IsBatch(b), NEW r, NEW x \in DOMAIN b, WritesTo(b, x, r)
    PROVE  /\ \E q \in DOMAIN b : LastWriter(b, q, r)
           /\ \A p \in DOMAIN b : x < p => \E q \in DOMAIN b : LastBefore(b, q, p, r)
<1>1. Len(b) \in Nat /\ DOMAIN b = 1 .. Len(b)
  BY DEF IsBatch
<1>2. \E q \in DOMAIN b : LastWriter(b, q, r)
  <2> DEFINE S == {q \in DOMAIN b : WritesTo(b, q, r)}
  <2>1. \E q \in S : \A y \in S : y <= q
    <3>1. S \subseteq 1 .. Len(b) /\ S # {}
      BY <1>1, Zenon
    <3> QED BY <1>1, <3>1, LastPiece, Zenon
  <2> QED BY <2>1, Zenon DEF LastWriter
<1>3. ASSUME NEW p \in DOMAIN b, x < p PROVE \E q \in DOMAIN b : LastBefore(b, q, p, r)
  <2> DEFINE S == {q \in DOMAIN b : WritesTo(b, q, r) /\ q < p}
  <2>1. \E q \in S : \A y \in S : y <= q
    <3>1. S \subseteq 1 .. Len(b) /\ S # {}
      BY <1>1, <1>3, Zenon
    <3> QED BY <1>1, <3>1, LastPiece, Zenon
  <2> QED BY <2>1, Zenon DEF LastBefore
<1> QED BY <1>2, <1>3, Zenon

--------------------------------------------------------------------------------
(* The operations.                                                         *)

Op(p, rw, r) == [rec |-> r, rw |-> rw, piece |-> p]

(* An operation is that of a piece on a record it reads or writes.         *)
IsOp(b, j) ==
    /\ j.piece \in DOMAIN b /\ j.piece \in Nat /\ j.rec \in Records /\ j.rec \in Nat
    /\ j.rw \in {"read", "write"} /\ j = Op(j.piece, j.rw, j.rec)
    /\ j.rw = "write" => WritesTo(b, j.piece, j.rec)

(* The submitter's operations are those of the pieces.                     *)
LEMMA SubmittedOps ==
    ASSUME NEW b, IsBatch(b)
    PROVE  /\ \A j \in Submitted(b) : IsOp(b, j)
           /\ \A p \in DOMAIN b : \A r \in ReadSet(b[p]) : Op(p, "read", r) \in Submitted(b)
           /\ \A p \in DOMAIN b : \A r \in WriteSet(b[p]) : Op(p, "write", r) \in Submitted(b)
<1>1. ASSUME NEW j \in Submitted(b) PROVE IsOp(b, j)
  <2>1. PICK p \in DOMAIN b : j \in Expand(p, b[p])
    BY <1>1, Zenon DEF Submitted
  <2>2. p \in Nat /\ ReadSet(b[p]) \subseteq Records /\ WriteSet(b[p]) \subseteq Records /\ Records \subseteq Nat
    BY SetsOfRecords, ExecutionAssumption, Zenon DEF ExecutionAssumption
  <2>3. CASE j \in [rec : ReadSet(b[p]), rw : {"read"}, piece : {p}]
    BY <2>2, <2>3, Zenon DEF IsOp, Op
  <2>4. CASE j \in [rec : WriteSet(b[p]), rw : {"write"}, piece : {p}]
    BY <2>2, <2>4, Zenon DEF IsOp, Op, WritesTo
  <2> QED BY <2>1, <2>3, <2>4, Zenon DEF Expand
<1>2. ASSUME NEW p \in DOMAIN b, NEW r \in ReadSet(b[p]) PROVE Op(p, "read", r) \in Submitted(b)
  <2>1. Op(p, "read", r) \in Expand(p, b[p])
    BY Zenon DEF Op, Expand
  <2> QED BY <2>1, Zenon DEF Submitted
<1>3. ASSUME NEW p \in DOMAIN b, NEW r \in WriteSet(b[p]) PROVE Op(p, "write", r) \in Submitted(b)
  <2>1. Op(p, "write", r) \in Expand(p, b[p])
    BY Zenon DEF Op, Expand
  <2> QED BY <2>1, Zenon DEF Submitted
<1> QED BY <1>1, <1>2, <1>3, Zenon

(* There are finitely many of them.                                        *)
LEMMA SubmittedFinite ==
    ASSUME NEW b, IsBatch(b)
    PROVE  IsFiniteSet(Submitted(b)) /\ Cardinality(Submitted(b)) \in Nat
<1> DEFINE K == {"read", "write"}
           D == DOMAIN b
           f == [j \in Submitted(b) |-> <<<<j.piece, j.rw>>, j.rec>>]
           T == (D \X K) \X Records
<1>1. IsFiniteSet(D)
  <2>1. Len(b) \in Nat /\ D = 1 .. Len(b)
    BY DEF IsBatch
  <2> QED BY <2>1, FS_Interval
<1>2. IsFiniteSet(K)
  <2>1. IsFiniteSet({"read"} \cup {"write"})
    BY FS_Singleton, FS_Union, Zenon
  <2>2. K = {"read"} \cup {"write"}
    BY Zenon
  <2> QED BY <2>1, <2>2, Zenon
<1>3. IsFiniteSet(D \X K)
  <2> HIDE DEF D, K
  <2> QED BY <1>1, <1>2, FS_Product, Zenon
<1>4. IsFiniteSet(T)
  <2>1. IsFiniteSet(Records)
    BY ExecutionAssumption, Zenon DEF ExecutionAssumption
  <2> QED BY <2>1, <1>3, FS_Product, Zenon
<1>5. f \in Injection(Submitted(b), T)
  <2>1. ASSUME NEW j \in Submitted(b) PROVE f[j] \in T
    BY SubmittedOps, Zenon DEF IsOp
  <2>2. ASSUME NEW i \in Submitted(b), NEW j \in Submitted(b), f[i] = f[j] PROVE i = j
    <3>1. i.piece = j.piece /\ i.rw = j.rw /\ i.rec = j.rec
      BY <2>2, Zenon
    <3>2. i = Op(i.piece, i.rw, i.rec) /\ j = Op(j.piece, j.rw, j.rec)
      BY SubmittedOps, Zenon DEF IsOp
    <3> QED BY <3>1, <3>2, Zenon
  <2>3. f \in [Submitted(b) -> T]
    BY <2>1, Zenon
  <2> HIDE DEF f, T
  <2> QED BY <2>2, <2>3, Zenon DEF Injection, IsInjective
<1>6. IsFiniteSet(Submitted(b))
  <2> HIDE DEF f, T
  <2> QED BY <1>4, <1>5, FS_Injection, Zenon
<1> QED BY <1>6, FS_CardinalityType, Zenon

(* A scan by record is zero when no write of the record comes before, or   *)
(* after, the operation.                                                   *)
LEMMA ScansSay ==
    ASSUME NEW b, IsBatch(b), NEW i \in Submitted(b)
    PROVE  /\ WBefore(Submitted(b), i) = 0 <=>
                \A x \in DOMAIN b : WritesTo(b, x, i.rec) => ~SortedBefore(Op(x, "write", i.rec), i)
           /\ WAfter(Submitted(b), i) = 0 <=>
                \A x \in DOMAIN b : WritesTo(b, x, i.rec) => ~SortedBefore(i, Op(x, "write", i.rec))
<1> DEFINE W == Writes(Submitted(b), i)
           B == {j \in W : SortedBefore(j, i)}
           A == {j \in W : SortedBefore(i, j)}
<1>1. \A j : j \in W <=> \E x \in DOMAIN b : WritesTo(b, x, i.rec) /\ j = Op(x, "write", i.rec)
  <2>1. ASSUME NEW j \in W PROVE \E x \in DOMAIN b : WritesTo(b, x, i.rec) /\ j = Op(x, "write", i.rec)
    <3>1. j \in Submitted(b) /\ j.rec = i.rec /\ j.rw = "write"
      BY <2>1, Zenon DEF Writes
    <3>2. j.piece \in DOMAIN b /\ WritesTo(b, j.piece, j.rec) /\ j = Op(j.piece, j.rw, j.rec)
      BY <3>1, SubmittedOps, Zenon DEF IsOp
    <3>3. WritesTo(b, j.piece, i.rec) /\ j = Op(j.piece, "write", i.rec)
      BY <3>1, <3>2, Zenon
    <3> QED BY <3>2, <3>3, Zenon
  <2>2. ASSUME NEW x \in DOMAIN b, WritesTo(b, x, i.rec) PROVE Op(x, "write", i.rec) \in W
    <3>1. Op(x, "write", i.rec) \in Submitted(b)
      BY <2>2, SubmittedOps, Zenon DEF WritesTo
    <3>2. Op(x, "write", i.rec).rec = i.rec /\ Op(x, "write", i.rec).rw = "write"
      BY Zenon DEF Op
    <3> QED BY <3>1, <3>2, Zenon DEF Writes
  <2> QED BY <2>1, <2>2, Zenon
<1>2. IsFiniteSet(A) /\ IsFiniteSet(B)
  <2>1. A \subseteq Submitted(b) /\ B \subseteq Submitted(b)
    BY Zenon DEF Writes
  <2> QED BY <2>1, SubmittedFinite, FS_Subset, Zenon
<1>3. (Cardinality(A) = 0 <=> A = {}) /\ (Cardinality(B) = 0 <=> B = {})
  BY <1>2, FS_EmptySet, Zenon
<1>4. B = {} <=> \A x \in DOMAIN b : WritesTo(b, x, i.rec) => ~SortedBefore(Op(x, "write", i.rec), i)
  <2> HIDE DEF W
  <2> QED BY <1>1, Zenon
<1>5. A = {} <=> \A x \in DOMAIN b : WritesTo(b, x, i.rec) => ~SortedBefore(i, Op(x, "write", i.rec))
  <2> HIDE DEF W
  <2> QED BY <1>1, Zenon
<1> QED BY <1>3, <1>4, <1>5, Zenon DEF WBefore, WAfter

(* How the sort orders the operations on one record.                       *)
LEMMA OrderOnRecord ==
    ASSUME NEW x \in Nat, NEW p \in Nat, NEW r \in Nat
    PROVE  /\ SortedBefore(Op(x, "write", r), Op(p, "write", r)) <=> x < p
           /\ SortedBefore(Op(x, "write", r), Op(p, "read", r)) <=> x < p
           /\ SortedBefore(Op(p, "read", r), Op(x, "write", r)) <=> p <= x
BY DEF SortedBefore, SubmittedBefore, Op

(* calcOperationType: the last write of a record goes to the record.       *)
LEMMA WriteTypes ==
    ASSUME NEW b, IsBatch(b), NEW p \in DOMAIN b, NEW r \in WriteSet(b[p])
    PROVE  OpType(Submitted(b), Op(p, "write", r)) =
               IF LastWriter(b, p, r) THEN "RECORD_B_WRITE" ELSE "VERSION_WRITE"
<1> DEFINE i == Op(p, "write", r)
<1>1. i \in Submitted(b) /\ i.rec = r /\ i.rw = "write"
  <2>1. i.rec = r /\ i.rw = "write"
    BY Zenon DEF Op
  <2> QED BY <2>1, SubmittedOps, Zenon
<1>2. p \in Nat /\ r \in Nat /\ \A x \in DOMAIN b : x \in Nat
  BY SetsOfRecords, ExecutionAssumption, Zenon DEF ExecutionAssumption
<1>3. WAfter(Submitted(b), i) = 0 <=>
          \A x \in DOMAIN b : WritesTo(b, x, r) => ~SortedBefore(i, Op(x, "write", r))
  <2> HIDE DEF i
  <2>1. WAfter(Submitted(b), i) = 0 <=>
          \A x \in DOMAIN b : WritesTo(b, x, i.rec) => ~SortedBefore(i, Op(x, "write", i.rec))
    BY <1>1, ScansSay, Zenon
  <2> QED BY <2>1, <1>1, Zenon
<1>4. \A x \in DOMAIN b : SortedBefore(i, Op(x, "write", r)) <=> p < x
  BY <1>2, OrderOnRecord, Zenon
<1>5. \A x \in DOMAIN b : ~(p < x) <=> x <= p
  BY <1>2
<1>6. WAfter(Submitted(b), i) = 0 <=> LastWriter(b, p, r)
  <2> HIDE DEF i
  <2> QED BY <1>3, <1>4, <1>5, Zenon DEF LastWriter, WritesTo
<1> HIDE DEF i
<1>7. OpType(Submitted(b), i) = IF LastWriter(b, p, r) THEN "RECORD_B_WRITE" ELSE "VERSION_WRITE"
  BY <1>1, <1>6, Zenon DEF OpType
<1> QED BY <1>7, Zenon DEF i

(* calcOperationType on a read.                                            *)
LEMMA ReadTypes ==
    ASSUME NEW b, IsBatch(b), NEW p \in DOMAIN b, NEW r \in ReadSet(b[p])
    PROVE  OpType(Submitted(b), Op(p, "read", r)) =
               IF \A x \in DOMAIN b : WritesTo(b, x, r) => ~(x < p) THEN "RECORD_A_READ"
               ELSE IF \A x \in DOMAIN b : WritesTo(b, x, r) => ~(p <= x) THEN "RECORD_B_READ"
               ELSE "VERSION_READ"
<1> DEFINE i == Op(p, "read", r)
<1>1. i \in Submitted(b) /\ i.rec = r /\ i.rw = "read"
  <2>1. i.rec = r /\ i.rw = "read"
    BY Zenon DEF Op
  <2> QED BY <2>1, SubmittedOps, Zenon
<1>2. p \in Nat /\ r \in Nat /\ \A x \in DOMAIN b : x \in Nat
  BY SetsOfRecords, ExecutionAssumption, Zenon DEF ExecutionAssumption
<1>3. /\ WAfter(Submitted(b), i) = 0 <=>
            \A x \in DOMAIN b : WritesTo(b, x, r) => ~SortedBefore(i, Op(x, "write", r))
      /\ WBefore(Submitted(b), i) = 0 <=>
            \A x \in DOMAIN b : WritesTo(b, x, r) => ~SortedBefore(Op(x, "write", r), i)
  <2> HIDE DEF i
  <2>1. /\ WAfter(Submitted(b), i) = 0 <=>
              \A x \in DOMAIN b : WritesTo(b, x, i.rec) => ~SortedBefore(i, Op(x, "write", i.rec))
        /\ WBefore(Submitted(b), i) = 0 <=>
              \A x \in DOMAIN b : WritesTo(b, x, i.rec) => ~SortedBefore(Op(x, "write", i.rec), i)
    BY <1>1, ScansSay, Zenon
  <2> QED BY <2>1, <1>1, Zenon
<1>4. \A x \in DOMAIN b : /\ SortedBefore(i, Op(x, "write", r)) <=> p <= x
                          /\ SortedBefore(Op(x, "write", r), i) <=> x < p
  BY <1>2, OrderOnRecord, Zenon
<1> HIDE DEF i
<1>5. /\ WAfter(Submitted(b), i) = 0 <=> \A x \in DOMAIN b : WritesTo(b, x, r) => ~(p <= x)
      /\ WBefore(Submitted(b), i) = 0 <=> \A x \in DOMAIN b : WritesTo(b, x, r) => ~(x < p)
  BY <1>3, <1>4, Zenon
<1>6. OpType(Submitted(b), i) =
          IF WBefore(Submitted(b), i) = 0 THEN "RECORD_A_READ"
          ELSE IF WAfter(Submitted(b), i) = 0 THEN "RECORD_B_READ" ELSE "VERSION_READ"
  <2>1. i.rw # "write"
    BY <1>1, Zenon
  <2> QED BY <2>1, Zenon DEF OpType
<1>7. OpType(Submitted(b), i) =
               IF \A x \in DOMAIN b : WritesTo(b, x, r) => ~(x < p) THEN "RECORD_A_READ"
               ELSE IF \A x \in DOMAIN b : WritesTo(b, x, r) => ~(p <= x) THEN "RECORD_B_READ"
               ELSE "VERSION_READ"
  BY <1>5, <1>6, Zenon
<1> QED BY <1>7, Zenon DEF i

--------------------------------------------------------------------------------
(* The version array.                                                      *)

VersionWrites(b) == {j \in Submitted(b) : j.rw = "write" /\ ~LastWriter(b, j.piece, j.rec)}
VersionWritesBefore(b, i) == {j \in VersionWrites(b) : SortedBefore(j, i)}

(* The third scan counts the version writes before an operation.           *)
LEMMA ScanCounts ==
    ASSUME NEW b, IsBatch(b), NEW i
    PROVE  /\ VerWritesBefore(Submitted(b), i) = Cardinality(VersionWritesBefore(b, i))
           /\ IsFiniteSet(VersionWritesBefore(b, i)) /\ VersionWritesBefore(b, i) \subseteq Submitted(b)
           /\ Cardinality(VersionWritesBefore(b, i)) \in Nat
<1>1. ASSUME NEW j \in Submitted(b)
      PROVE  OpType(Submitted(b), j) = "VERSION_WRITE" <=> j \in VersionWrites(b)
  <2>1. IsOp(b, j)
    BY SubmittedOps, Zenon
  <2>2. CASE j.rw = "write"
    <3>1. j.piece \in DOMAIN b /\ j.rec \in WriteSet(b[j.piece]) /\ j = Op(j.piece, "write", j.rec)
      BY <2>1, <2>2, Zenon DEF IsOp, WritesTo
    <3>2. OpType(Submitted(b), Op(j.piece, "write", j.rec)) =
              IF LastWriter(b, j.piece, j.rec) THEN "RECORD_B_WRITE" ELSE "VERSION_WRITE"
      BY <3>1, WriteTypes, Zenon
    <3>3. OpType(Submitted(b), j) =
              IF LastWriter(b, j.piece, j.rec) THEN "RECORD_B_WRITE" ELSE "VERSION_WRITE"
      BY <3>1, <3>2, Zenon
    <3> QED BY <3>3, <2>2, Zenon DEF VersionWrites
  <2>3. CASE j.rw # "write"
    BY <2>3, Zenon DEF VersionWrites, OpType
  <2> QED BY <2>2, <2>3, Zenon
<1>2. {j \in Submitted(b) : SortedBefore(j, i) /\ OpType(Submitted(b), j) = "VERSION_WRITE"}
          = VersionWritesBefore(b, i)
  <2>1. \A j \in VersionWrites(b) : j \in Submitted(b)
    BY Zenon DEF VersionWrites
  <2> QED BY <2>1, <1>1, Zenon DEF VersionWritesBefore
<1>3. VersionWritesBefore(b, i) \subseteq Submitted(b)
  BY Zenon DEF VersionWritesBefore, VersionWrites
<1>4. IsFiniteSet(VersionWritesBefore(b, i))
  BY <1>3, SubmittedFinite, FS_Subset, Zenon
<1>5. Cardinality(VersionWritesBefore(b, i)) \in Nat
  BY <1>4, FS_CardinalityType, Zenon
<1> QED BY <1>2, <1>3, <1>4, <1>5, Zenon DEF VerWritesBefore

(* The sort orders all operations but equals.                              *)
LEMMA SortIsOrder ==
    ASSUME NEW b, NEW i, NEW j, NEW k, IsOp(b, i), IsOp(b, j), IsOp(b, k)
    PROVE  /\ SortedBefore(i, j) \/ SortedBefore(j, i) \/ i = j
           /\ SortedBefore(i, j) /\ SortedBefore(j, k) => SortedBefore(i, k)
           /\ ~SortedBefore(i, i)
<1>1. /\ i.piece \in Nat /\ j.piece \in Nat /\ k.piece \in Nat
      /\ i.rec \in Nat /\ j.rec \in Nat /\ k.rec \in Nat
      /\ i.rw \in {"read", "write"} /\ j.rw \in {"read", "write"} /\ k.rw \in {"read", "write"}
  BY Zenon DEF IsOp
<1>2. i.piece = j.piece /\ i.rw = j.rw /\ i.rec = j.rec => i = j
  <2>1. i = Op(i.piece, i.rw, i.rec) /\ j = Op(j.piece, j.rw, j.rec)
    BY Zenon DEF IsOp
  <2> QED BY <2>1, Zenon
<1>3. SortedBefore(i, j) \/ SortedBefore(j, i) \/ i = j
  BY <1>1, <1>2 DEF SortedBefore, SubmittedBefore
<1>4. SortedBefore(i, j) /\ SortedBefore(j, k) => SortedBefore(i, k)
  BY <1>1 DEF SortedBefore, SubmittedBefore
<1>5. ~SortedBefore(i, i)
  BY <1>1 DEF SortedBefore, SubmittedBefore
<1> QED BY <1>3, <1>4, <1>5, Zenon

(* A version write counts fewer than each operation sorted after it.       *)
LEMMA CountsGrow ==
    ASSUME NEW b, IsBatch(b), NEW i \in VersionWrites(b), NEW k \in Submitted(b), SortedBefore(i, k)
    PROVE  Cardinality(VersionWritesBefore(b, i)) < Cardinality(VersionWritesBefore(b, k))
<1> DEFINE I == VersionWritesBefore(b, i)
           K == VersionWritesBefore(b, k)
<1>1. \A j \in VersionWrites(b) : IsOp(b, j)
  BY SubmittedOps, Zenon DEF VersionWrites
<1>2. IsOp(b, i) /\ IsOp(b, k)
  BY <1>1, SubmittedOps, Zenon
<1>3. I \cup {i} \subseteq K
  BY <1>1, <1>2, SortIsOrder, Zenon DEF VersionWritesBefore
<1>4. i \notin I
  BY <1>2, SortIsOrder, Zenon DEF VersionWritesBefore
<1>5. IsFiniteSet(I) /\ IsFiniteSet(K) /\ Cardinality(I) \in Nat /\ Cardinality(K) \in Nat
  BY ScanCounts, Zenon
<1> HIDE DEF I, K
<1>6. Cardinality(I \cup {i}) = Cardinality(I) + 1
  BY <1>4, <1>5, FS_AddElement, Zenon
<1>7. Cardinality(I \cup {i}) <= Cardinality(K)
  BY <1>3, <1>5, FS_Subset, Zenon
<1>8. Cardinality(I) < Cardinality(K)
  BY <1>5, <1>6, <1>7
<1> QED BY <1>8, Zenon DEF I, K

(* scatterRWLocation, by type of operation.                                *)
LEMMA LocationOf ==
    ASSUME NEW ops, NEW i
    PROVE  /\ OpType(ops, i) = "RECORD_A_READ" => RwLocation(ops, i) = LocA
           /\ OpType(ops, i) \in {"RECORD_B_READ", "RECORD_B_WRITE"} => RwLocation(ops, i) = LocB
           /\ OpType(ops, i) = "VERSION_READ" => RwLocation(ops, i) = VerWritesBefore(ops, i) - 1
           /\ OpType(ops, i) = "VERSION_WRITE" => RwLocation(ops, i) = VerWritesBefore(ops, i)
<1> DEFINE t == OpType(ops, i)
           v == VerWritesBefore(ops, i)
<1>1. RwLocation(ops, i) = CASE t = "RECORD_A_READ" -> LocA
                             [] t \in {"RECORD_B_READ", "RECORD_B_WRITE"} -> LocB
                             [] t = "VERSION_READ" -> v - 1
                             [] t = "VERSION_WRITE" -> v
  BY Zenon DEF RwLocation
<1> HIDE DEF t, v
<1>2. /\ t = "RECORD_A_READ" => RwLocation(ops, i) = LocA
      /\ t \in {"RECORD_B_READ", "RECORD_B_WRITE"} => RwLocation(ops, i) = LocB
      /\ t = "VERSION_READ" => RwLocation(ops, i) = v - 1
      /\ t = "VERSION_WRITE" => RwLocation(ops, i) = v
  BY <1>1, Zenon
<1> QED BY <1>2, Zenon DEF t, v

(* Where the plan puts a write: the last one in the record, another in the *)
(* element numbered by the version writes before it.                       *)
LEMMA PlannedWrite ==
    ASSUME NEW b, IsBatch(b), NEW p \in DOMAIN b, NEW r \in WriteSet(b[p])
    PROVE  Plan(b)[p].write[r] =
               IF LastWriter(b, p, r) THEN LocB
               ELSE Cardinality(VersionWritesBefore(b, Op(p, "write", r)))
<1> DEFINE i == Op(p, "write", r)
<1>1. Plan(b)[p].write[r] = RwLocation(Submitted(b), i)
  BY Zenon DEF Plan, Op
<1>2. OpType(Submitted(b), i) = IF LastWriter(b, p, r) THEN "RECORD_B_WRITE" ELSE "VERSION_WRITE"
  BY WriteTypes, Zenon
<1> HIDE DEF i
<1>3. CASE LastWriter(b, p, r)
  BY <1>1, <1>2, <1>3, LocationOf, Zenon
<1>4. CASE ~LastWriter(b, p, r)
  <2>1. RwLocation(Submitted(b), i) = VerWritesBefore(Submitted(b), i)
    BY <1>2, <1>4, LocationOf, Zenon
  <2>2. VerWritesBefore(Submitted(b), i) = Cardinality(VersionWritesBefore(b, i))
    BY ScanCounts, Zenon
  <2>3. Plan(b)[p].write[r] = Cardinality(VersionWritesBefore(b, i))
    BY <1>1, <2>1, <2>2, Zenon
  <2> QED BY <2>3, <1>4, Zenon DEF i
<1> QED BY <1>3, <1>4, Zenon

(* A write that is not the last of its record is a version write.          *)
LEMMA IsVersionWrite ==
    ASSUME NEW b, IsBatch(b), NEW p \in DOMAIN b, NEW r \in WriteSet(b[p]), ~LastWriter(b, p, r)
    PROVE  Op(p, "write", r) \in VersionWrites(b)
<1>1. Op(p, "write", r) \in Submitted(b)
  BY SubmittedOps, Zenon
<1>2. Op(p, "write", r).rw = "write" /\ Op(p, "write", r).rec = r /\ Op(p, "write", r).piece = p
  BY Zenon DEF Op
<1> DEFINE i == Op(p, "write", r)
<1>3. i \in Submitted(b) /\ i.rw = "write" /\ i.rec = r /\ i.piece = p
  BY <1>1, <1>2, Zenon
<1> HIDE DEF i
<1>4. i \in VersionWrites(b)
  BY <1>3, Zenon DEF VersionWrites
<1> QED BY <1>4, Zenon DEF i

(* The elements of the version array are as many as operations.            *)
LEMMA ElementExists ==
    ASSUME NEW b, IsBatch(b), NEW i \in VersionWrites(b)
    PROVE  Cardinality(VersionWritesBefore(b, i)) \in 0 .. Cardinality(Submitted(b)) - 1
<1> DEFINE I == VersionWritesBefore(b, i)
           S == Submitted(b)
<1>1. i \in S /\ IsOp(b, i)
  BY SubmittedOps, Zenon DEF VersionWrites
<1>2. i \notin I
  BY <1>1, SortIsOrder, Zenon DEF VersionWritesBefore
<1>3. I \subseteq S /\ Cardinality(I) \in Nat
  BY ScanCounts, Zenon
<1>4. IsFiniteSet(S) /\ Cardinality(S) \in Nat
  BY SubmittedFinite, Zenon
<1> HIDE DEF I, S
<1>5. IsFiniteSet(S \ {i}) /\ Cardinality(S \ {i}) = Cardinality(S) - 1
  BY <1>1, <1>4, FS_RemoveElement, Zenon
<1>6. I \subseteq S \ {i}
  BY <1>2, <1>3, Zenon
<1>7. Cardinality(I) <= Cardinality(S \ {i})
  BY <1>5, <1>6, FS_Subset, Zenon
<1>8. Cardinality(I) \in 0 .. Cardinality(S) - 1
  BY <1>3, <1>4, <1>5, <1>7
<1> QED BY <1>8, Zenon DEF I, S

(* Two version writes never share an element, not even of different        *)
(* records.                                                                *)
LEMMA PlanOwnElement == ASSUME NEW b, IsBatch(b) PROVE OwnElement(b, Plan(b))
<1> SUFFICES ASSUME NEW p \in DOMAIN b, NEW q \in DOMAIN b, NEW r \in Records, NEW s \in Records,
                    WritesTo(b, p, r), ~LastWriter(b, p, r), WritesTo(b, q, s), ~LastWriter(b, q, s),
                    Plan(b)[p].write[r] = Plan(b)[q].write[s]
             PROVE  p = q /\ r = s
  BY Zenon DEF OwnElement
<1> DEFINE i == Op(p, "write", r)
           k == Op(q, "write", s)
<1>1. r \in WriteSet(b[p]) /\ s \in WriteSet(b[q])
  BY Zenon DEF WritesTo
<1>2. i \in VersionWrites(b) /\ k \in VersionWrites(b)
  BY <1>1, IsVersionWrite, Zenon
<1>3. i \in Submitted(b) /\ k \in Submitted(b) /\ IsOp(b, i) /\ IsOp(b, k)
  <2> HIDE DEF i, k
  <2> QED BY <1>2, SubmittedOps, Zenon DEF VersionWrites
<1>4. Cardinality(VersionWritesBefore(b, i)) = Cardinality(VersionWritesBefore(b, k))
  BY <1>1, PlannedWrite, ZenonT(40)
<1>5. i = k
  <2> HIDE DEF i, k
  <2>1. SortedBefore(i, k) \/ SortedBefore(k, i) \/ i = k
    BY <1>3, SortIsOrder, Zenon
  <2>2. Cardinality(VersionWritesBefore(b, i)) \in Nat
    BY ScanCounts, Zenon
  <2>3. ~(Cardinality(VersionWritesBefore(b, i)) < Cardinality(VersionWritesBefore(b, k)))
        /\ ~(Cardinality(VersionWritesBefore(b, k)) < Cardinality(VersionWritesBefore(b, i)))
    BY <2>2, <1>4
  <2> QED BY <2>1, <2>3, <1>2, <1>3, CountsGrow, Zenon
<1> QED BY <1>5, Zenon DEF Op

(* A version read goes to the element of the last writer before it.        *)
LEMMA VersionReadOf ==
    ASSUME NEW b, IsBatch(b), NEW p \in DOMAIN b, NEW r \in ReadSet(b[p]),
           NEW q \in DOMAIN b, LastBefore(b, q, p, r), ~LastWriter(b, q, r)
    PROVE  VerWritesBefore(Submitted(b), Op(p, "read", r)) - 1
             = Cardinality(VersionWritesBefore(b, Op(q, "write", r)))
<1> DEFINE i == Op(p, "read", r)
           w == Op(q, "write", r)
           I == VersionWritesBefore(b, i)
           W == VersionWritesBefore(b, w)
<1>1. r \in WriteSet(b[q]) /\ q < p
  BY Zenon DEF LastBefore, WritesTo
<1>2. p \in Nat /\ q \in Nat /\ r \in Nat /\ \A x \in DOMAIN b : x \in Nat
  BY SetsOfRecords, ExecutionAssumption, Zenon DEF ExecutionAssumption
<1>3. w \in VersionWrites(b) /\ i \in Submitted(b) /\ w \in Submitted(b)
  BY <1>1, IsVersionWrite, SubmittedOps, Zenon
<1>4. IsOp(b, i) /\ IsOp(b, w)
  BY <1>3, SubmittedOps, Zenon
<1>5. SortedBefore(w, i)
  BY <1>1, <1>2, OrderOnRecord, Zenon
<1>6. ASSUME NEW j \in VersionWrites(b), SortedBefore(j, i), j # w PROVE SortedBefore(j, w)
  <2>1. j.rw = "write" /\ j \in Submitted(b)
    BY Zenon DEF VersionWrites
  <2>2. IsOp(b, j)
    BY <2>1, SubmittedOps, Zenon
  <2>3. j.piece \in DOMAIN b /\ j.piece \in Nat /\ j.rec \in Nat /\ WritesTo(b, j.piece, j.rec)
        /\ j = Op(j.piece, "write", j.rec)
    BY <2>1, <2>2, Zenon DEF IsOp
  <2>4. CASE j.rec < r
    <3>1. w.rec = r
      BY Zenon DEF Op
    <3> HIDE DEF w
    <3> QED BY <3>1, <2>4, Zenon DEF SortedBefore
  <2>5. CASE j.rec = r
    <3>1. j = Op(j.piece, "write", r) /\ WritesTo(b, j.piece, r)
      BY <2>3, <2>5, Zenon
    <3>2. j.piece < p
      <4> DEFINE x == j.piece
      <4>1. SortedBefore(Op(x, "write", r), i)
        BY <1>6, <3>1, Zenon
      <4>2. SortedBefore(Op(x, "write", r), Op(p, "read", r)) <=> x < p
        BY <2>3, <1>2, OrderOnRecord, Zenon
      <4> QED BY <4>1, <4>2, Zenon
    <3>3. j.piece <= q
      BY <3>1, <3>2, <2>3, Zenon DEF LastBefore
    <3>4. j.piece # q
      BY <3>1, <1>6, Zenon
    <3>5. j.piece < q
      BY <3>3, <3>4, <2>3, <1>2
    <3>6. SortedBefore(Op(j.piece, "write", r), w)
      BY <3>5, <2>3, <1>2, OrderOnRecord, Zenon
    <3> QED BY <3>6, <3>1, Zenon
  <2>6. ~(r < j.rec)
    <3>1. i.rec = r
      BY Zenon DEF Op
    <3>2. SortedBefore(j, i)
      BY <1>6, Zenon
    <3> HIDE DEF i
    <3> QED BY <3>1, <3>2, <2>3, <1>2 DEF SortedBefore
  <2> QED BY <2>3, <2>4, <2>5, <2>6, <1>2
<1>7. I \subseteq W \cup {w}
  <2> HIDE DEF i, w
  <2> QED BY <1>6, Zenon DEF VersionWritesBefore
<1>8. IsFiniteSet(W) /\ Cardinality(W) \in Nat /\ Cardinality(I) \in Nat
      /\ VerWritesBefore(Submitted(b), i) = Cardinality(I)
  BY ScanCounts, Zenon
<1>9. Cardinality(W) < Cardinality(I)
  BY <1>3, <1>5, CountsGrow, Zenon
<1>10. w \notin W
  BY <1>4, SortIsOrder, Zenon DEF VersionWritesBefore
<1> HIDE DEF I, W, i, w
<1>11. IsFiniteSet(W \cup {w}) /\ Cardinality(W \cup {w}) = Cardinality(W) + 1
  BY <1>8, <1>10, FS_AddElement, Zenon
<1>12. Cardinality(I) <= Cardinality(W \cup {w})
  BY <1>7, <1>11, FS_Subset, Zenon
<1>13. VerWritesBefore(Submitted(b), i) - 1 = Cardinality(W)
  BY <1>8, <1>9, <1>11, <1>12
<1> QED BY <1>13, Zenon DEF i, w, W

(* A planned read.                                                         *)
LEMMA PlannedRead ==
    ASSUME NEW b, IsBatch(b), NEW p \in DOMAIN b, NEW r \in ReadSet(b[p])
    PROVE  ReadPlanned(b, Plan(b), p, r)
<1> DEFINE i == Op(p, "read", r)
           n == Plan(b)[p].read[r]
           NoneBefore == \A x \in DOMAIN b : WritesTo(b, x, r) => ~(x < p)
           NoneAfter == \A x \in DOMAIN b : WritesTo(b, x, r) => ~(p <= x)
<1>1. n = RwLocation(Submitted(b), i)
  BY Zenon DEF Plan, Op
<1>2. OpType(Submitted(b), i) = IF NoneBefore THEN "RECORD_A_READ"
                                ELSE IF NoneAfter THEN "RECORD_B_READ" ELSE "VERSION_READ"
  BY ReadTypes, Zenon
<1>3. p \in Nat /\ \A x \in DOMAIN b : x \in Nat
  BY SetsOfRecords, Zenon
<1>4. CASE NoneBefore
  <2>1. n = LocA
    BY <1>1, <1>2, <1>4, LocationOf, Zenon
  <2>2. \A x \in DOMAIN b : WritesTo(b, x, r) => p <= x
    BY <1>3, <1>4
  <2> QED BY <2>1, <2>2, Zenon DEF ReadPlanned
<1>5. CASE ~NoneBefore
  <2>1. PICK q \in DOMAIN b : LastBefore(b, q, p, r)
    BY <1>5, LastWriterExists, Zenon
  <2>2. WritesTo(b, q, r) /\ q < p
    BY <2>1, Zenon DEF LastBefore
  <2>3. CASE NoneAfter
    <3>1. n = LocB
      BY <1>1, <1>2, <1>5, <2>3, LocationOf, Zenon
    <3>2. \A x \in DOMAIN b : WritesTo(b, x, r) => x < p
      BY <1>3, <2>3
    <3>3. LastWriter(b, q, r)
      BY <3>2, <2>1, <2>2, Zenon DEF LastBefore, LastWriter
    <3> QED BY <3>1, <3>3, <2>1, Zenon DEF ReadPlanned
  <2>4. CASE ~NoneAfter
    <3>1. OpType(Submitted(b), i) = "VERSION_READ"
      BY <1>2, <1>5, <2>4, Zenon
    <3>2. n = VerWritesBefore(Submitted(b), i) - 1
      BY <1>1, <3>1, LocationOf, Zenon
    <3>3. ~LastWriter(b, q, r)
      <4>1. PICK x \in DOMAIN b : WritesTo(b, x, r) /\ p <= x
        BY <2>4, Zenon
      <4>2. ~(x <= q)
        BY <4>1, <2>2, <1>3
      <4> QED BY <4>1, <4>2, Zenon DEF LastWriter
    <3>4. VerWritesBefore(Submitted(b), i) - 1 = Cardinality(VersionWritesBefore(b, Op(q, "write", r)))
      BY <2>1, <3>3, VersionReadOf, Zenon
    <3>5. r \in WriteSet(b[q])
      BY <2>2, Zenon DEF WritesTo
    <3>6. Plan(b)[q].write[r] = Cardinality(VersionWritesBefore(b, Op(q, "write", r)))
      BY <3>3, <3>5, PlannedWrite, Zenon
    <3>7. Cardinality(VersionWritesBefore(b, Op(q, "write", r))) \in Nat
      BY ScanCounts, Zenon
    <3>8. n \in Nat /\ n = Plan(b)[q].write[r]
      BY <3>2, <3>4, <3>6, <3>7, Zenon
    <3> QED BY <2>1, <3>3, <3>8, Zenon DEF ReadPlanned
  <2> QED BY <2>3, <2>4, Zenon
<1> QED BY <1>4, <1>5, Zenon

(* The plan of every batch is right.                                       *)
LEMMA PlanIsRight == ASSUME NEW b, IsBatch(b) PROVE PlanRight(b, Plan(b))
<1>1. ASSUME NEW p \in DOMAIN b, NEW r \in WriteSet(b[p]) PROVE WritePlanned(b, Plan(b), p, r)
  <2>1. CASE LastWriter(b, p, r)
    BY <2>1, PlannedWrite, Zenon DEF WritePlanned
  <2>2. CASE ~LastWriter(b, p, r)
    BY <2>2, PlannedWrite, IsVersionWrite, ElementExists, Zenon DEF WritePlanned
  <2> QED BY <2>1, <2>2, Zenon
<1> QED BY <1>1, PlannedRead, PlanOwnElement, Zenon DEF PlanRight

--------------------------------------------------------------------------------
(* The inductive invariant of the execution.                               *)

Reading == {"load1", "load2", "wait", "value"}
Stored == {"publish", "done"}
Writing == {"choose", "store", "storing", "publish"}
Chosen == {"store", "storing", "publish", "done"}
Steps == {"idle", "done"} \cup Reading \cup Writing

Shaped ==
    /\ DOMAIN ver = Records /\ DOMAIN val = Records
    /\ \A r \in Records : DOMAIN ver[r] = SlotIds /\ DOMAIN val[r] = SlotIds
    /\ DOMAIN scratch = 0 .. Cardinality(Submitted(batch)) - 1
    /\ \A i \in DOMAIN scratch : DOMAIN scratch[i] = {"ver", "val"}
ExecTypes ==
    /\ machine \in {"gpu", "cpu"} /\ IsBatch(batch) /\ PlanRight(batch, plan)
    /\ start \in Starts /\ counter \in Nat
    /\ at \in [Pieces -> [Records -> Steps]]
    /\ DOMAIN seen = Pieces /\ DOMAIN loc = Pieces /\ DOMAIN got = Pieces
    /\ \A p \in Pieces : /\ DOMAIN seen[p] = Records /\ DOMAIN loc[p] = Records
                         /\ DOMAIN got[p] = Records
    /\ \A p \in Pieces, r \in Records :
         /\ at[p][r] \in Reading => r \in ReadSet(batch[p])
         /\ at[p][r] \in Writing => r \in WriteSet(batch[p])
    /\ Shaped

(* Pieces that no block has claimed have not begun.                        *)
Unclaimed == machine = "gpu" => \A p \in Pieces, r \in Records : counter < p => at[p][r] = "idle"

(* The older slot of a record follows its last writer.                     *)
ValueOf(p, r, old) == IF at[p][r] = "storing" THEN Junk
                      ELSE IF at[p][r] \in Stored THEN NewValue(p) ELSE old
SlotFollows ==
    \A r \in Records :
        LET s == WriteSlot(start[r])
        IN  /\ \A p \in Pieces : LastWriter(batch, p, r) =>
                 /\ ver[r][s] = IF at[p][r] = "done" THEN Epoch ELSE start[r][s]
                 /\ val[r][s] = ValueOf(p, r, OldValue(start[r][s]))
            /\ (\A p \in Pieces : ~WritesTo(batch, p, r)) =>
                 ver[r][s] = start[r][s] /\ val[r][s] = OldValue(start[r][s])

(* The element of a version write follows its piece; the CPU never stores  *)
(* its value.                                                              *)
ElementFollows ==
    \A p \in Pieces, r \in Records : WritesTo(batch, p, r) /\ ~LastWriter(batch, p, r) =>
        LET e == scratch[plan[p].write[r]]
        IN  /\ e.ver = IF at[p][r] = "done" THEN Epoch ELSE Epoch - 1
            /\ e.val = IF machine = "cpu" THEN OldValue(Epoch - 1)
                       ELSE ValueOf(p, r, OldValue(Epoch - 1))

(* Where a read and a write go.                                            *)
ReadAt(p, r) ==
    LET i == plan[p].read[r]
    IN  IF i = LocA THEN InRecord(Newest(start[r]))
        ELSE IF i = LocB THEN InRecord(WriteSlot(start[r])) ELSE InScratch(i)
WriteAt(p, r) ==
    LET i == plan[p].write[r] IN IF i = LocB THEN InRecord(WriteSlot(start[r])) ELSE InScratch(i)

(* A reader past its wait finds the epoch's version at its location; a     *)
(* version1 it loaded is the old one or the published one.                 *)
LocatedAt(p, r) ==
    /\ at[p][r] \in {"wait", "value"} => loc[p][r] = ReadAt(p, r)
    /\ at[p][r] = "value" /\ plan[p].read[r] # LocA => VersionAt(p, r) = Epoch
    /\ at[p][r] = "load2" =>
         /\ plan[p].read[r] \in {LocA, LocB}
         /\ seen[p][r] = start[r][1] \/ (seen[p][r] = Epoch /\ ver[r][1] = Epoch)
    /\ at[p][r] \in {"store", "storing", "publish"} => loc[p][r] = WriteAt(p, r)
Located == \A p \in Pieces, r \in Records : LocatedAt(p, r)

(* A piece that has read a record has read the serial value.               *)
Expected(p, r) ==
    IF machine = "cpu" /\ plan[p].read[r] \notin {LocA, LocB} THEN OldValue(Epoch - 1)
    ELSE SerialValue(p, r)
GotAt(p, r) ==
    r \in ReadSet(batch[p]) /\ at[p][r] \in Writing \cup {"done"} => got[p][r] = Expected(p, r)
GotSerial == \A p \in Pieces, r \in Records : GotAt(p, r)

(* The dirty slots are those the last writers have chosen.                 *)
HasChosen(r) == \E p \in Pieces : LastWriter(batch, p, r) /\ at[p][r] \in Chosen
DirtyChosen ==
    dirty = {<<r, WriteSlot(start[r])>> : r \in {x \in Records : machine = "gpu" /\ HasChosen(x)}}

ExecInv ==
    /\ ExecTypes /\ Unclaimed /\ CommittedKept /\ SlotFollows /\ ElementFollows
    /\ Located /\ GotSerial /\ DirtyChosen

--------------------------------------------------------------------------------
(* The records' slots.                                                     *)

(* Changing one entry of a table.                                          *)
LEMMA OneEntry ==
    ASSUME NEW S, NEW T, NEW f, DOMAIN f = S, \A x \in S : DOMAIN f[x] = T,
           NEW p \in S, NEW r \in T, NEW c, NEW g, g = [f EXCEPT ![p][r] = c]
    PROVE  /\ DOMAIN g = S /\ \A x \in S : DOMAIN g[x] = T
           /\ g[p][r] = c
           /\ \A q \in S, s \in T : q # p \/ s # r => g[q][s] = f[q][s]
BY Zenon

(* The tags of the epoch's start are older than the epoch, and the slot    *)
(* written is not the one committed.                                       *)
LEMMA StartTags ==
    ASSUME start \in Starts, NEW r \in Records
    PROVE  /\ Epoch \in Nat
           /\ \A s \in SlotIds : start[r][s] \in Nat /\ start[r][s] < Epoch
           /\ WriteSlot(start[r]) \in SlotIds /\ Newest(start[r]) \in SlotIds
           /\ Newest(start[r]) # WriteSlot(start[r])
           /\ \A s \in SlotIds : s # WriteSlot(start[r]) => s = Newest(start[r])
<1>1. Epoch \in Nat /\ start \in [Records -> [SlotIds -> 0 .. Epoch - 1]]
  BY ExecutionAssumption, Zenon DEF ExecutionAssumption
<1>2. \A s \in SlotIds : start[r][s] \in Nat /\ start[r][s] < Epoch
  BY <1>1
<1> QED BY <1>1, <1>2 DEF SlotIds, WriteSlot, Newest

(* The slot written has its old tag or the epoch's.                        *)
LEMMA SlotTag ==
    ASSUME ExecTypes, SlotFollows, NEW r \in Records
    PROVE  LET s == WriteSlot(start[r])
           IN  \/ ver[r][s] = start[r][s]
               \/ /\ ver[r][s] = Epoch
                  /\ \E q \in Pieces : LastWriter(batch, q, r) /\ at[q][r] = "done"
<1> DEFINE s == WriteSlot(start[r])
<1>1. IsBatch(batch)
  BY Zenon DEF ExecTypes
<1>2. CASE \A p \in Pieces : ~WritesTo(batch, p, r)
  BY <1>2, Zenon DEF SlotFollows
<1>3. CASE \E x \in Pieces : WritesTo(batch, x, r)
  <2>1. PICK q \in Pieces : LastWriter(batch, q, r)
    BY <1>1, <1>3, LastWriterExists, Zenon DEF Pieces
  <2>2. ver[r][s] = IF at[q][r] = "done" THEN Epoch ELSE start[r][s]
    BY <2>1, Zenon DEF SlotFollows
  <2> QED BY <2>1, <2>2, Zenon
<1> QED BY <1>2, <1>3, Zenon

(* A reader of the record finds its slot from a version1 and a version2    *)
(* that were loaded one after the other.                                   *)
LEMMA TargetRight ==
    ASSUME ExecTypes, SlotFollows, CommittedKept, NEW p \in Pieces, NEW r \in ReadSet(batch[p]),
           r \in Records, plan[p].read[r] \in {LocA, LocB},
           NEW t, t[1] = start[r][1] \/ (t[1] = Epoch /\ ver[r][1] = Epoch), t[2] = ver[r][2]
    PROVE  /\ Target(p, r, t) = ReadAt(p, r)
           /\ plan[p].read[r] # LocA /\ ~MustWait(p, r, t) => ver[r][WriteSlot(start[r])] = Epoch
<1> DEFINE s == WriteSlot(start[r])
           z == Newest(start[r])
<1>1. start \in Starts
  BY Zenon DEF ExecTypes
<1>2. /\ Epoch \in Nat /\ start[r][1] \in Nat /\ start[r][2] \in Nat
      /\ start[r][1] < Epoch /\ start[r][2] < Epoch
  BY <1>1, StartTags, Zenon DEF SlotIds
<1>3. ver[r][s] = start[r][s] \/ ver[r][s] = Epoch
  BY SlotTag, Zenon
<1>4. ver[r][z] = start[r][z]
  BY Zenon DEF CommittedKept
<1>5. \/ s = 1 /\ z = 2 /\ start[r][1] < start[r][2]
      \/ s = 2 /\ z = 1 /\ ~(start[r][1] < start[r][2])
  BY Zenon DEF WriteSlot, Newest
<1>6. ReadSlot(t, Epoch) = z /\ RecordBSlot(t) = s
  <2> HIDE DEF s, z
  <2>1. CASE s = 1
    BY <2>1, <1>2, <1>3, <1>4, <1>5 DEF ReadSlot, RecordBSlot, Newest, WriteSlot
  <2>2. CASE s = 2
    BY <2>2, <1>2, <1>3, <1>4, <1>5 DEF ReadSlot, RecordBSlot, Newest, WriteSlot
  <2> QED BY <2>1, <2>2, <1>5, Zenon
<1>7. Target(p, r, t) = ReadAt(p, r)
  BY <1>6, Zenon DEF Target, ReadAt
<1>8. ASSUME ~MustWait(p, r, t), plan[p].read[r] # LocA PROVE ver[r][s] = Epoch
  <2> HIDE DEF s, z
  <2>1. t[1] = Epoch \/ t[2] = Epoch
    BY <1>8, Zenon DEF MustWait
  <2> QED BY <2>1, <1>2, <1>3, <1>4, <1>5
<1> QED BY <1>7, <1>8, Zenon

--------------------------------------------------------------------------------
(* Steps that write nothing.                                               *)

(* No writer moves to or from the steps that decide what its location      *)
(* holds, the steps of S.                                                  *)
Quiet(S) ==
    /\ UNCHANGED <<fixed, ver, val, scratch>>
    /\ \A q \in Pieces, s \in Records :
         at'[q][s] # at[q][s] /\ WritesTo(batch, q, s) => at[q][s] \notin S /\ at'[q][s] \notin S

(* Then the records and the version array still follow.                    *)
LEMMA QuietKeeps ==
    ASSUME ExecInv, Quiet({"storing", "publish", "done"})
    PROVE  CommittedKept' /\ SlotFollows' /\ ElementFollows'
<1>1. /\ machine' = machine /\ batch' = batch /\ plan' = plan /\ start' = start
      /\ ver' = ver /\ val' = val /\ scratch' = scratch /\ Pieces' = Pieces
  BY Zenon DEF Quiet, fixed, Pieces
<1>2. ASSUME NEW q \in Pieces, NEW s \in Records, WritesTo(batch, q, s)
      PROVE  /\ (at'[q][s] = "done") <=> (at[q][s] = "done")
             /\ at'[q][s] = "storing" <=> at[q][s] = "storing"
             /\ at'[q][s] \in Stored <=> at[q][s] \in Stored
  BY <1>2, Zenon DEF Quiet, Stored
<1>3. CommittedKept'
  BY <1>1, Zenon DEF ExecInv, CommittedKept
<1>4. SlotFollows'
  <2> SUFFICES ASSUME NEW r \in Records
               PROVE  LET s == WriteSlot(start[r])
                      IN  /\ \A p \in Pieces : LastWriter(batch, p, r) =>
                               /\ ver[r][s] = IF at'[p][r] = "done" THEN Epoch ELSE start[r][s]
                               /\ val[r][s] = ValueOf(p, r, OldValue(start[r][s]))'
                          /\ (\A p \in Pieces : ~WritesTo(batch, p, r)) =>
                               ver[r][s] = start[r][s] /\ val[r][s] = OldValue(start[r][s])
    BY <1>1, Zenon DEF SlotFollows
  <2> QED BY <1>1, <1>2, Zenon DEF ExecInv, SlotFollows, ValueOf, LastWriter
<1>5. ElementFollows'
  <2> SUFFICES ASSUME NEW p \in Pieces, NEW r \in Records, WritesTo(batch, p, r), ~LastWriter(batch, p, r)
               PROVE  LET e == scratch[plan[p].write[r]]
                      IN  /\ e.ver = IF at'[p][r] = "done" THEN Epoch ELSE Epoch - 1
                          /\ e.val = IF machine = "cpu" THEN OldValue(Epoch - 1)
                                     ELSE ValueOf(p, r, OldValue(Epoch - 1))'
    BY <1>1, Zenon DEF ElementFollows
  <2> QED BY <1>1, <1>2, Zenon DEF ExecInv, ElementFollows, ValueOf
<1> QED BY <1>3, <1>4, <1>5, Zenon

(* And so do the dirty slots.                                              *)
LEMMA QuietDirty ==
    ASSUME ExecInv, Quiet(Chosen), dirty' = dirty
    PROVE  CommittedKept' /\ SlotFollows' /\ ElementFollows' /\ DirtyChosen'
<1>1. machine' = machine /\ batch' = batch /\ start' = start /\ Pieces' = Pieces
  BY Zenon DEF Quiet, fixed, Pieces
<1>2. Quiet({"storing", "publish", "done"})
  BY Zenon DEF Quiet, Chosen
<1>3. \A r \in Records : HasChosen(r)' <=> HasChosen(r)
  BY <1>1, Zenon DEF HasChosen, LastWriter, Quiet
<1>4. DirtyChosen'
  BY <1>1, <1>3, Zenon DEF ExecInv, DirtyChosen
<1> QED BY <1>2, <1>4, QuietKeeps, Zenon

(* A table that changes at most in one entry.                              *)
Touches(g, f, p, r) ==
    /\ DOMAIN g = DOMAIN f /\ \A x \in Pieces : DOMAIN g[x] = DOMAIN f[x]
    /\ \A q \in Pieces, s \in Records : q # p \/ s # r => g[q][s] = f[q][s]

(* A step of piece p on record r, seen from the other pieces.              *)
Moves(p, r, c) ==
    /\ at[p][r] # "idle" /\ at' = [at EXCEPT ![p][r] = c] /\ c \in Steps
    /\ c \in Reading => r \in ReadSet(batch[p])
    /\ c \in Writing => r \in WriteSet(batch[p])
    /\ UNCHANGED <<fixed, counter>>
    /\ Touches(seen', seen, p, r) /\ Touches(loc', loc, p, r) /\ Touches(got', got, p, r)

(* Such a step keeps the types.                                            *)
LEMMA MovesTyped ==
    ASSUME ExecInv, NEW p \in Pieces, NEW r \in Records, NEW c, Moves(p, r, c),
           Shaped'
    PROVE  /\ ExecTypes' /\ Unclaimed' /\ Pieces' = Pieces
           /\ at'[p][r] = c
           /\ \A q \in Pieces, s \in Records : q # p \/ s # r => at'[q][s] = at[q][s]
<1>1. machine' = machine /\ batch' = batch /\ plan' = plan /\ start' = start /\ counter' = counter
      /\ Pieces' = Pieces
  BY Zenon DEF Moves, fixed, Pieces
<1>2. at \in [Pieces -> [Records -> Steps]] /\ c \in Steps /\ at' = [at EXCEPT ![p][r] = c]
  BY Zenon DEF ExecInv, ExecTypes, Moves
<1>3. at' \in [Pieces -> [Records -> Steps]] /\ at'[p][r] = c
      /\ \A q \in Pieces, s \in Records : q # p \/ s # r => at'[q][s] = at[q][s]
  BY <1>2, Zenon
<1>4. /\ DOMAIN seen' = Pieces /\ DOMAIN loc' = Pieces /\ DOMAIN got' = Pieces
      /\ \A x \in Pieces : /\ DOMAIN seen'[x] = Records /\ DOMAIN loc'[x] = Records
                           /\ DOMAIN got'[x] = Records
  BY Zenon DEF ExecInv, ExecTypes, Moves, Touches
<1>5. ASSUME NEW q \in Pieces, NEW s \in Records
      PROVE  /\ at'[q][s] \in Reading => s \in ReadSet(batch[q])
             /\ at'[q][s] \in Writing => s \in WriteSet(batch[q])
  <2>1. CASE q = p /\ s = r
    <3>1. /\ c \in Reading => r \in ReadSet(batch[p])
          /\ c \in Writing => r \in WriteSet(batch[p])
      BY Zenon DEF Moves
    <3> QED BY <2>1, <3>1, <1>3, Zenon
  <2>2. CASE q # p \/ s # r
    <3>1. at'[q][s] = at[q][s]
      BY <2>2, <1>3, Zenon
    <3> QED BY <3>1, Zenon DEF ExecInv, ExecTypes
  <2> QED BY <2>1, <2>2, Zenon
<1>6. ExecTypes'
  BY <1>1, <1>3, <1>4, <1>5, Zenon DEF ExecInv, ExecTypes
<1>7. Unclaimed'
  <2> SUFFICES ASSUME machine = "gpu", NEW q \in Pieces, NEW s \in Records, counter < q
               PROVE  at'[q][s] = "idle"
    BY <1>1, Zenon DEF Unclaimed
  <2>1. at[q][s] = "idle"
    BY Zenon DEF ExecInv, Unclaimed
  <2>2. q # p \/ s # r
    BY <2>1, Zenon DEF Moves
  <2> QED BY <2>1, <2>2, <1>3, Zenon
<1> QED BY <1>1, <1>3, <1>6, <1>7, Zenon

(* Versions only change to the epoch's.                                    *)
VersionsRise ==
    /\ \A x \in Records, n \in SlotIds : ver'[x][n] = ver[x][n] \/ ver'[x][n] = Epoch
    /\ \A i \in DOMAIN scratch : scratch'[i].ver = scratch[i].ver \/ scratch'[i].ver = Epoch

(* An element that is read exists.                                         *)
LEMMA ElementRead ==
    ASSUME ExecTypes, NEW q \in Pieces, NEW s \in ReadSet(batch[q]), plan[q].read[s] \notin {LocA, LocB}
    PROVE  plan[q].read[s] \in DOMAIN scratch
<1>1. PlanRight(batch, plan) /\ Pieces = DOMAIN batch
  BY Zenon DEF ExecTypes, Pieces
<1>2. ReadPlanned(batch, plan, q, s)
  BY <1>1, Zenon DEF PlanRight
<1>3. PICK x \in DOMAIN batch : /\ LastBefore(batch, x, q, s) /\ ~LastWriter(batch, x, s)
                                /\ plan[q].read[s] = plan[x].write[s]
  BY <1>2, Zenon DEF ReadPlanned
<1>4. s \in WriteSet(batch[x])
  BY <1>3, Zenon DEF LastBefore, WritesTo
<1>5. WritePlanned(batch, plan, x, s)
  BY <1>1, <1>4, Zenon DEF PlanRight
<1>6. plan[x].write[s] \in DOMAIN scratch
  BY <1>3, <1>5, Zenon DEF WritePlanned, ExecTypes, Shaped
<1> QED BY <1>3, <1>6, Zenon

(* The other accesses stay located, and keep what they got.                *)
LEMMA OthersKeep ==
    ASSUME ExecInv, NEW p \in Pieces, NEW r \in Records, NEW c, Moves(p, r, c), VersionsRise,
           NEW q \in Pieces, NEW s \in Records, q # p \/ s # r, at'[q][s] = at[q][s]
    PROVE  LocatedAt(q, s)' /\ GotAt(q, s)'
<1>1. machine' = machine /\ batch' = batch /\ plan' = plan /\ start' = start
  BY Zenon DEF Moves, fixed
<1>2. loc'[q][s] = loc[q][s] /\ seen'[q][s] = seen[q][s] /\ got'[q][s] = got[q][s]
  BY Zenon DEF Moves, Touches
<1>3. LocatedAt(q, s) /\ GotAt(q, s)
  BY Zenon DEF ExecInv, Located, GotSerial
<1>4. ASSUME at[q][s] = "value", plan[q].read[s] # LocA PROVE VersionAt(q, s)' = Epoch
  <2>1. loc[q][s] = ReadAt(q, s) /\ VersionAt(q, s) = Epoch
    BY <1>3, <1>4, Zenon DEF LocatedAt
  <2>2. CASE plan[q].read[s] = LocB
    <3>1. loc[q][s].kind = "slot" /\ loc[q][s].n = WriteSlot(start[s])
      BY <1>4, <2>1, <2>2 DEF ReadAt, InRecord
    <3>2. WriteSlot(start[s]) \in SlotIds
      BY Zenon DEF WriteSlot, SlotIds
    <3>3. ver[s][WriteSlot(start[s])] = Epoch
      BY <3>1, <2>1, Zenon DEF VersionAt
    <3>4. ver'[s][WriteSlot(start[s])] = Epoch
      BY <3>2, <3>3, Zenon DEF VersionsRise
    <3> QED BY <3>1, <3>4, <1>2, Zenon DEF VersionAt
  <2>3. CASE plan[q].read[s] # LocB
    <3>1. loc[q][s].kind = "version" /\ loc[q][s].n = plan[q].read[s]
      BY <1>4, <2>1, <2>3 DEF ReadAt, InScratch
    <3>2. s \in ReadSet(batch[q])
      BY <1>4, Zenon DEF ExecInv, ExecTypes, Reading
    <3>3. plan[q].read[s] \in DOMAIN scratch
      BY <3>2, <1>4, <2>3, ElementRead, ZenonT(40) DEF ExecInv
    <3>4. scratch[plan[q].read[s]].ver = Epoch
      BY <3>1, <2>1, Zenon DEF VersionAt
    <3>5. scratch'[plan[q].read[s]].ver = Epoch
      BY <3>3, <3>4, Zenon DEF VersionsRise
    <3> QED BY <3>1, <3>5, <1>2, Zenon DEF VersionAt
  <2> QED BY <2>2, <2>3, Zenon
<1>5. ver[s][1] = Epoch => ver'[s][1] = Epoch
  BY Zenon DEF VersionsRise, SlotIds
<1>6. ReadAt(q, s)' = ReadAt(q, s) /\ WriteAt(q, s)' = WriteAt(q, s)
  BY <1>1, Zenon DEF ReadAt, WriteAt
<1>7. LocatedAt(q, s)'
  BY <1>1, <1>2, <1>3, <1>4, <1>5, <1>6, ZenonT(40) DEF LocatedAt
<1>8. GotAt(q, s)'
  BY <1>1, <1>2, <1>3, Zenon DEF GotAt, Expected, SerialValue, WritersBefore, Committed
<1> QED BY <1>7, <1>8, Zenon

(* A step that writes nothing has only its own access to account for.      *)
LEMMA QuietMove ==
    ASSUME ExecInv, NEW p \in Pieces, NEW r \in Records, NEW c, Moves(p, r, c),
           UNCHANGED <<ver, val, scratch, dirty>>,
           WritesTo(batch, p, r) => at[p][r] \notin Chosen /\ c \notin Chosen,
           LocatedAt(p, r)', GotAt(p, r)'
    PROVE  ExecInv'
<1>1. /\ machine' = machine /\ batch' = batch /\ plan' = plan /\ start' = start
      /\ ver' = ver /\ val' = val /\ scratch' = scratch /\ dirty' = dirty
  BY Zenon DEF Moves, fixed
<1>2. /\ ExecTypes' /\ Unclaimed' /\ Pieces' = Pieces
      /\ at'[p][r] = c
      /\ \A q \in Pieces, s \in Records : q # p \/ s # r => at'[q][s] = at[q][s]
  <2>1. Shaped'
    BY <1>1, Zenon DEF ExecInv, ExecTypes, Shaped
  <2> QED BY <2>1, MovesTyped, Zenon
<1>3. CommittedKept' /\ SlotFollows' /\ ElementFollows' /\ DirtyChosen'
  <2>1. \A q \in Pieces, s \in Records :
          at'[q][s] # at[q][s] /\ WritesTo(batch, q, s) => at[q][s] \notin Chosen /\ at'[q][s] \notin Chosen
    BY <1>2, Zenon
  <2>2. UNCHANGED <<fixed, ver, val, scratch>>
    BY <1>1, Zenon DEF fixed
  <2> QED BY <1>1, <2>1, <2>2, QuietDirty, Zenon DEF Quiet
<1>4. ASSUME NEW q \in Pieces, NEW s \in Records PROVE LocatedAt(q, s)' /\ GotAt(q, s)'
  <2>1. CASE q = p /\ s = r
    BY <2>1, Zenon
  <2>2. CASE q # p \/ s # r
    <3>1. at'[q][s] = at[q][s]
      BY <1>2, <2>2, Zenon
    <3>2. VersionsRise
      BY <1>1, Zenon DEF VersionsRise
    <3> QED BY <2>2, <3>1, <3>2, OthersKeep, Zenon
  <2> QED BY <2>1, <2>2, Zenon
<1> QED BY <1>2, <1>3, <1>4, Zenon DEF ExecInv, Located, GotSerial

(* What the actions of a read have in common.                              *)
LEMMA ReadMoves ==
    ASSUME ExecInv, NEW p \in Pieces, NEW r \in Records, NEW c, at' = [at EXCEPT ![p][r] = c],
           at[p][r] \in Reading, c \in Steps, c \in Reading \/ (c = "choose" /\ r \in WriteSet(batch[p]))
                                              \/ (c = "done" /\ r \notin WriteSet(batch[p])),
           UNCHANGED <<fixed, counter>>,
           seen' = seen \/ \E x : seen' = [seen EXCEPT ![p][r] = x],
           loc' = loc \/ \E x : loc' = [loc EXCEPT ![p][r] = x],
           got' = got \/ \E x : got' = [got EXCEPT ![p][r] = x]
    PROVE  /\ r \in ReadSet(batch[p]) /\ Moves(p, r, c) /\ at'[p][r] = c
           /\ WritesTo(batch, p, r) => at[p][r] \notin Chosen /\ c \notin Chosen
<1>1. r \in ReadSet(batch[p])
  BY Zenon DEF ExecInv, ExecTypes
<1>2. /\ DOMAIN seen = Pieces /\ DOMAIN loc = Pieces /\ DOMAIN got = Pieces
      /\ \A x \in Pieces : /\ DOMAIN seen[x] = Records /\ DOMAIN loc[x] = Records
                           /\ DOMAIN got[x] = Records
      /\ at \in [Pieces -> [Records -> Steps]]
  BY Zenon DEF ExecInv, ExecTypes
<1>3. Touches(seen', seen, p, r) /\ Touches(loc', loc, p, r) /\ Touches(got', got, p, r)
  <2>1. Touches(seen', seen, p, r)
    BY <1>2 DEF Touches
  <2>2. Touches(loc', loc, p, r)
    BY <1>2 DEF Touches
  <2>3. Touches(got', got, p, r)
    BY <1>2 DEF Touches
  <2> QED BY <2>1, <2>2, <2>3, Zenon
<1>4. at[p][r] # "idle" /\ (c \in Writing => r \in WriteSet(batch[p]))
      /\ (WritesTo(batch, p, r) => at[p][r] \notin Chosen /\ c \notin Chosen)
  BY Zenon DEF Reading, Writing, Chosen, WritesTo
<1>5. at'[p][r] = c
  BY <1>2, Zenon
<1> QED BY <1>1, <1>3, <1>4, <1>5, Zenon DEF Moves

(* gpuLoadVersions, the first word.                                        *)
LEMMA LoadVersion1Keeps ==
    ASSUME ExecInv, NEW p \in Pieces, NEW r \in Records, LoadVersion1(p, r) PROVE ExecInv'
<1>1. /\ at[p][r] = "load1" /\ plan[p].read[r] \in {LocA, LocB}
      /\ at' = [at EXCEPT ![p][r] = "load2"] /\ seen' = [seen EXCEPT ![p][r] = ver[r][1]]
      /\ UNCHANGED <<fixed, ver, val, scratch, dirty, counter, loc, got>>
  BY Zenon DEF LoadVersion1, MayLoad
<1>2. /\ machine' = machine /\ batch' = batch /\ plan' = plan /\ start' = start
      /\ UNCHANGED <<ver, val, scratch, dirty>> /\ ver' = ver /\ loc' = loc /\ got' = got
      /\ UNCHANGED <<fixed, counter>>
  BY <1>1, Zenon DEF fixed
<1>3. /\ r \in ReadSet(batch[p]) /\ Moves(p, r, "load2") /\ at'[p][r] = "load2"
      /\ WritesTo(batch, p, r) => at[p][r] \notin Chosen /\ "load2" \notin Chosen
  <2>1. at[p][r] \in Reading /\ "load2" \in Reading /\ "load2" \in Steps
    BY <1>1, Zenon DEF Reading, Steps
  <2> QED BY <1>1, <1>2, <2>1, ReadMoves, Zenon
<1>4. seen'[p][r] = ver[r][1]
  BY <1>1, Zenon DEF ExecInv, ExecTypes
<1>5. ver[r][1] = start[r][1] \/ ver[r][1] = Epoch
  <2>1. start \in Starts
    BY Zenon DEF ExecInv, ExecTypes
  <2>2. 1 = WriteSlot(start[r]) \/ 1 = Newest(start[r])
    BY Zenon DEF WriteSlot, Newest
  <2>3. ver[r][WriteSlot(start[r])] = start[r][WriteSlot(start[r])] \/ ver[r][WriteSlot(start[r])] = Epoch
    BY SlotTag, Zenon DEF ExecInv
  <2>4. ver[r][Newest(start[r])] = start[r][Newest(start[r])]
    BY Zenon DEF ExecInv, CommittedKept
  <2> QED BY <2>2, <2>3, <2>4, Zenon
<1>6. LocatedAt(p, r)'
  BY <1>1, <1>2, <1>3, <1>4, <1>5, Zenon DEF LocatedAt
<1>7. GotAt(p, r)'
  BY <1>3, Zenon DEF GotAt, Writing
<1> QED BY <1>2, <1>3, <1>6, <1>7, QuietMove, ZenonT(40)

(* Resolving the versions loaded leaves a reader at its location.          *)
LEMMA ResolveKeeps ==
    ASSUME ExecInv, NEW p \in Pieces, NEW r \in Records, at[p][r] \in {"load1", "load2"},
           plan[p].read[r] \in {LocA, LocB},
           NEW t, t[1] = start[r][1] \/ (t[1] = Epoch /\ ver[r][1] = Epoch), t[2] = ver[r][2],
           Resolve(p, r, t), UNCHANGED <<fixed, ver, val, scratch, dirty, counter, seen, got>>
    PROVE  ExecInv'
<1> DEFINE c == IF MustWait(p, r, t) THEN "wait" ELSE "value"
<1>1. /\ machine' = machine /\ batch' = batch /\ plan' = plan /\ start' = start
      /\ UNCHANGED <<ver, val, scratch, dirty>> /\ ver' = ver /\ scratch' = scratch
      /\ seen' = seen /\ got' = got /\ UNCHANGED <<fixed, counter>>
  BY Zenon DEF fixed
<1>2. at' = [at EXCEPT ![p][r] = c] /\ loc' = [loc EXCEPT ![p][r] = Target(p, r, t)]
  BY Zenon DEF Resolve
<1>3. at[p][r] \in Reading /\ c \in Reading /\ c \in Steps /\ c \in {"wait", "value"}
  BY Zenon DEF Reading, Steps
<1>4. /\ r \in ReadSet(batch[p]) /\ Moves(p, r, c) /\ at'[p][r] = c
      /\ WritesTo(batch, p, r) => at[p][r] \notin Chosen /\ c \notin Chosen
  <2> HIDE DEF c
  <2> QED BY <1>1, <1>2, <1>3, ReadMoves, Zenon
<1>5. /\ Target(p, r, t) = ReadAt(p, r)
      /\ plan[p].read[r] # LocA /\ ~MustWait(p, r, t) => ver[r][WriteSlot(start[r])] = Epoch
  BY <1>4, TargetRight, Zenon DEF ExecInv
<1>6. loc'[p][r] = ReadAt(p, r)
  <2>1. DOMAIN loc = Pieces /\ DOMAIN loc[p] = Records
    BY Zenon DEF ExecInv, ExecTypes
  <2> QED BY <2>1, <1>2, <1>5, Zenon
<1>7. c = "value" => ~MustWait(p, r, t)
  BY Zenon
<1> HIDE DEF c
<1>8. ReadAt(p, r)' = ReadAt(p, r)
  BY <1>1, Zenon DEF ReadAt
<1>9. ASSUME c = "value", plan[p].read[r] # LocA PROVE VersionAt(p, r)' = Epoch
  <2>1. loc'[p][r] = InRecord(WriteSlot(start[r]))
    BY <1>6, <1>9, Zenon DEF ReadAt, LocA, LocB
  <2>2. loc'[p][r].kind = "slot" /\ loc'[p][r].n = WriteSlot(start[r])
    BY <2>1 DEF InRecord
  <2> QED BY <2>2, <1>1, <1>5, <1>7, <1>9, Zenon DEF VersionAt
<1>10. LocatedAt(p, r)'
  <2>1. c # "load2" /\ c \notin {"store", "storing", "publish"}
    BY <1>3, Zenon
  <2> QED BY <1>1, <1>4, <1>6, <1>8, <1>9, <2>1, ZenonT(40) DEF LocatedAt
<1>11. GotAt(p, r)'
  BY <1>3, <1>4, Zenon DEF GotAt, Writing
<1> QED BY <1>1, <1>4, <1>10, <1>11, QuietMove, Zenon

(* The second word.                                                        *)
LEMMA LoadVersion2Keeps ==
    ASSUME ExecInv, NEW p \in Pieces, NEW r \in Records, LoadVersion2(p, r) PROVE ExecInv'
<1> DEFINE t == <<seen[p][r], ver[r][2]>>
<1>1. /\ at[p][r] = "load2" /\ Resolve(p, r, t)
      /\ UNCHANGED <<fixed, ver, val, scratch, dirty, counter, seen, got>>
  BY Zenon DEF LoadVersion2
<1>2. LocatedAt(p, r)
  BY Zenon DEF ExecInv, Located
<1>3. /\ plan[p].read[r] \in {LocA, LocB}
      /\ seen[p][r] = start[r][1] \/ (seen[p][r] = Epoch /\ ver[r][1] = Epoch)
  BY <1>1, <1>2, Zenon DEF LocatedAt
<1>4. t[1] = seen[p][r] /\ t[2] = ver[r][2]
  BY Zenon
<1>5. at[p][r] \in {"load1", "load2"} /\ (t[1] = start[r][1] \/ (t[1] = Epoch /\ ver[r][1] = Epoch))
  BY <1>1, <1>3, <1>4, Zenon
<1> HIDE DEF t
<1> QED BY <1>1, <1>3, <1>4, <1>5, ResolveKeeps, ZenonT(40)

(* readFromTable loads both at once.                                       *)
LEMMA LoadVersionsKeeps ==
    ASSUME ExecInv, NEW p \in Pieces, NEW r \in Records, LoadVersions(p, r) PROVE ExecInv'
<1>1. /\ at[p][r] = "load1" /\ plan[p].read[r] \in {LocA, LocB} /\ Resolve(p, r, ver[r])
      /\ UNCHANGED <<fixed, ver, val, scratch, dirty, counter, seen, got>>
  BY ZenonT(40) DEF LoadVersions, MayLoad
<1>2. ver[r][1] = start[r][1] \/ ver[r][1] = Epoch
  <2>1. 1 = WriteSlot(start[r]) \/ 1 = Newest(start[r])
    BY Zenon DEF WriteSlot, Newest
  <2>2. ver[r][WriteSlot(start[r])] = start[r][WriteSlot(start[r])] \/ ver[r][WriteSlot(start[r])] = Epoch
    BY SlotTag, Zenon DEF ExecInv
  <2>3. ver[r][Newest(start[r])] = start[r][Newest(start[r])]
    BY Zenon DEF ExecInv, CommittedKept
  <2> QED BY <2>1, <2>2, <2>3, Zenon
<1>3. at[p][r] \in {"load1", "load2"}
  BY <1>1, Zenon
<1> QED BY <1>1, <1>2, <1>3, ResolveKeeps, Zenon

(* A version read takes its element.                                       *)
LEMMA TakeElementKeeps ==
    ASSUME ExecInv, NEW p \in Pieces, NEW r \in Records, TakeElement(p, r) PROVE ExecInv'
<1>1. /\ at[p][r] = "load1" /\ plan[p].read[r] \notin {LocA, LocB}
      /\ at' = [at EXCEPT ![p][r] = "wait"] /\ loc' = [loc EXCEPT ![p][r] = InScratch(plan[p].read[r])]
      /\ UNCHANGED <<fixed, ver, val, scratch, dirty, counter, seen, got>>
  BY Zenon DEF TakeElement, MayLoad
<1>2. /\ machine' = machine /\ batch' = batch /\ plan' = plan /\ start' = start
      /\ UNCHANGED <<ver, val, scratch, dirty>> /\ seen' = seen /\ got' = got
      /\ UNCHANGED <<fixed, counter>>
  BY <1>1, Zenon DEF fixed
<1>3. /\ Moves(p, r, "wait") /\ at'[p][r] = "wait"
      /\ WritesTo(batch, p, r) => at[p][r] \notin Chosen /\ "wait" \notin Chosen
  <2>1. at[p][r] \in Reading /\ "wait" \in Reading /\ "wait" \in Steps
    BY <1>1, Zenon DEF Reading, Steps
  <2> QED BY <1>1, <1>2, <2>1, ReadMoves, Zenon
<1>4. loc'[p][r] = ReadAt(p, r)'
  <2>1. DOMAIN loc = Pieces /\ DOMAIN loc[p] = Records
    BY Zenon DEF ExecInv, ExecTypes
  <2>2. loc'[p][r] = InScratch(plan[p].read[r])
    BY <2>1, <1>1, Zenon
  <2> QED BY <2>2, <1>1, <1>2, Zenon DEF ReadAt
<1>5. LocatedAt(p, r)'
  BY <1>3, <1>4, Zenon DEF LocatedAt
<1>6. GotAt(p, r)'
  BY <1>3, Zenon DEF GotAt, Writing
<1> QED BY <1>2, <1>3, <1>5, <1>6, QuietMove, ZenonT(40)

(* The spin loop ends when the version is the epoch's.                     *)
LEMMA WaitKeeps ==
    ASSUME ExecInv, NEW p \in Pieces, NEW r \in Records, Wait(p, r) PROVE ExecInv'
<1>1. /\ at[p][r] = "wait" /\ VersionAt(p, r) = Epoch /\ at' = [at EXCEPT ![p][r] = "value"]
      /\ UNCHANGED <<fixed, ver, val, scratch, dirty, counter, seen, loc, got>>
  BY Zenon DEF Wait
<1>2. /\ machine' = machine /\ batch' = batch /\ plan' = plan /\ start' = start
      /\ UNCHANGED <<ver, val, scratch, dirty>> /\ seen' = seen /\ got' = got /\ loc' = loc
      /\ ver' = ver /\ scratch' = scratch /\ UNCHANGED <<fixed, counter>>
  BY <1>1, Zenon DEF fixed
<1>3. /\ Moves(p, r, "value") /\ at'[p][r] = "value"
      /\ WritesTo(batch, p, r) => at[p][r] \notin Chosen /\ "value" \notin Chosen
  <2>1. at[p][r] \in Reading /\ "value" \in Reading /\ "value" \in Steps
    BY <1>1, Zenon DEF Reading, Steps
  <2> QED BY <1>1, <1>2, <2>1, ReadMoves, Zenon
<1>4. LocatedAt(p, r)
  BY Zenon DEF ExecInv, Located
<1>5. loc[p][r] = ReadAt(p, r)
  BY <1>1, <1>4, Zenon DEF LocatedAt
<1>6. loc'[p][r] = ReadAt(p, r)' /\ VersionAt(p, r)' = Epoch
  BY <1>1, <1>2, <1>5, Zenon DEF ReadAt, VersionAt
<1>7. LocatedAt(p, r)'
  BY <1>3, <1>6, Zenon DEF LocatedAt
<1>8. GotAt(p, r)'
  BY <1>3, Zenon DEF GotAt, Writing
<1> QED BY <1>2, <1>3, <1>7, <1>8, QuietMove, Zenon

(* The last writer before a piece is the one the serial order reads.       *)
LEMMA SerialFrom ==
    ASSUME IsBatch(batch), NEW p \in Pieces, NEW r, NEW q \in Pieces, LastBefore(batch, q, p, r)
    PROVE  SerialValue(p, r) = NewValue(q)
<1> DEFINE W == WritersBefore(p, r)
<1>1. \A x \in Pieces : x \in Nat
  BY SetsOfRecords, Zenon DEF Pieces
<1>2. Len(batch) \in Nat /\ Pieces = 1 .. Len(batch)
  BY DEF IsBatch, Pieces
<1>3. \A x : x \in W <=> x \in Pieces /\ WritesTo(batch, x, r) /\ x < p
  <2>1. \A x : x \in 1 .. p - 1 <=> x \in Pieces /\ x < p
    BY <1>1, <1>2
  <2> QED BY <2>1, Zenon DEF WritersBefore, WritesTo, Pieces
<1>4. q \in W /\ \A x \in W : x <= q
  BY <1>3, Zenon DEF LastBefore, Pieces
<1>5. W \subseteq Nat
  BY <1>1, <1>3, Zenon
<1> HIDE DEF W
<1>6. Max(W) = q
  <2>1. \A x \in W : (\A y \in W : x >= y) => x = q
    BY <1>4, <1>5
  <2>2. q \in W /\ \A y \in W : q >= y
    BY <1>4, <1>5, Zenon
  <2> QED BY <2>1, <2>2, Zenon DEF Max
<1>7. W # {}
  BY <1>4, Zenon
<1> QED BY <1>6, <1>7, Zenon DEF SerialValue, W

(* A reader past its wait finds the serial value at its location.          *)
LEMMA ValueRight ==
    ASSUME ExecInv, NEW p \in Pieces, NEW r \in Records, r \in ReadSet(batch[p]), at[p][r] = "value"
    PROVE  ValueAt(p, r) = Expected(p, r)
<1> DEFINE i == plan[p].read[r]
           s == WriteSlot(start[r])
<1>1. /\ IsBatch(batch) /\ PlanRight(batch, plan) /\ start \in Starts /\ Pieces = DOMAIN batch
      /\ machine \in {"gpu", "cpu"}
  BY Zenon DEF ExecInv, ExecTypes, Pieces
<1>2. ReadPlanned(batch, plan, p, r)
  BY <1>1, Zenon DEF PlanRight
<1>3. LocatedAt(p, r)
  BY Zenon DEF ExecInv, Located
<1>4. loc[p][r] = ReadAt(p, r) /\ (i # LocA => VersionAt(p, r) = Epoch)
  BY <1>3, Zenon DEF LocatedAt
<1>5. /\ Epoch \in Nat /\ start[r][s] \in Nat /\ start[r][s] < Epoch
  BY <1>1, StartTags, Zenon
<1>6. CASE i = LocA /\ \A x \in DOMAIN batch : WritesTo(batch, x, r) => p <= x
  <2>1. loc[p][r].kind = "slot" /\ loc[p][r].n = Newest(start[r])
    BY <1>4, <1>6 DEF ReadAt, InRecord
  <2>2. val[r][Newest(start[r])] = OldValue(start[r][Newest(start[r])])
    BY Zenon DEF ExecInv, CommittedKept
  <2>3. WritersBefore(p, r) = {}
    <3>1. \A x \in 1 .. p - 1 : x \in DOMAIN batch /\ ~(p <= x)
      BY <1>1 DEF IsBatch
    <3> QED BY <3>1, <1>6, Zenon DEF WritersBefore, WritesTo
  <2>4. Expected(p, r) = OldValue(start[r][Newest(start[r])])
    BY <2>3, <1>6, Zenon DEF Expected, SerialValue, Committed
  <2> QED BY <2>1, <2>2, <2>4, Zenon DEF ValueAt
<1>7. CASE i = LocB /\ \E q \in DOMAIN batch : LastBefore(batch, q, p, r) /\ LastWriter(batch, q, r)
  <2>1. PICK q \in Pieces : LastBefore(batch, q, p, r) /\ LastWriter(batch, q, r)
    BY <1>1, <1>7, Zenon
  <2>2. loc[p][r].kind = "slot" /\ loc[p][r].n = s
    BY <1>4, <1>7 DEF ReadAt, InRecord, LocA, LocB
  <2>3. ver[r][s] = Epoch
    BY <2>2, <1>4, <1>7 DEF VersionAt, LocA, LocB
  <2>4. /\ ver[r][s] = IF at[q][r] = "done" THEN Epoch ELSE start[r][s]
        /\ val[r][s] = ValueOf(q, r, OldValue(start[r][s]))
    BY <2>1, Zenon DEF ExecInv, SlotFollows
  <2>5. at[q][r] = "done"
    BY <2>3, <2>4, <1>5
  <2>6. val[r][s] = NewValue(q)
    BY <2>4, <2>5, Zenon DEF ValueOf, Stored
  <2>7. Expected(p, r) = NewValue(q)
    <3>1. SerialValue(p, r) = NewValue(q)
      BY <1>1, <2>1, SerialFrom, Zenon
    <3> QED BY <3>1, <1>7, Zenon DEF Expected
  <2> QED BY <2>2, <2>6, <2>7, Zenon DEF ValueAt
<1>8. CASE /\ i \in Nat
           /\ \E q \in DOMAIN batch : /\ LastBefore(batch, q, p, r) /\ ~LastWriter(batch, q, r)
                                      /\ i = plan[q].write[r]
  <2>1. PICK q \in Pieces : /\ LastBefore(batch, q, p, r) /\ ~LastWriter(batch, q, r)
                            /\ i = plan[q].write[r]
    BY <1>1, <1>8, Zenon
  <2>2. i # LocA /\ i # LocB
    BY <1>8 DEF LocA, LocB
  <2> HIDE DEF i
  <2>3. loc[p][r].kind = "version" /\ loc[p][r].n = i
    BY <1>4, <2>2 DEF ReadAt, InScratch, i
  <2>4. WritesTo(batch, q, r)
    BY <2>1, Zenon DEF LastBefore
  <2>5. /\ scratch[i].ver = IF at[q][r] = "done" THEN Epoch ELSE Epoch - 1
        /\ scratch[i].val = IF machine = "cpu" THEN OldValue(Epoch - 1)
                            ELSE ValueOf(q, r, OldValue(Epoch - 1))
    <3>1. LET e == scratch[plan[q].write[r]]
          IN  /\ e.ver = IF at[q][r] = "done" THEN Epoch ELSE Epoch - 1
              /\ e.val = IF machine = "cpu" THEN OldValue(Epoch - 1)
                         ELSE ValueOf(q, r, OldValue(Epoch - 1))
      BY <2>1, <2>4, ZenonT(40) DEF ExecInv, ElementFollows
    <3> QED BY <3>1, <2>1, Zenon
  <2>6. at[q][r] = "done"
    <3>1. scratch[i].ver = Epoch
      BY <2>3, <2>2, <1>4, Zenon DEF VersionAt
    <3> QED BY <3>1, <2>5, <1>5
  <2>7. scratch[i].val = IF machine = "cpu" THEN OldValue(Epoch - 1) ELSE NewValue(q)
    BY <2>5, <2>6, Zenon DEF ValueOf, Stored
  <2>8. Expected(p, r) = IF machine = "cpu" THEN OldValue(Epoch - 1) ELSE NewValue(q)
    <3>1. SerialValue(p, r) = NewValue(q)
      BY <1>1, <2>1, SerialFrom, Zenon
    <3>2. plan[p].read[r] \notin {LocA, LocB}
      BY <2>2, Zenon DEF i
    <3> QED BY <3>1, <3>2, Zenon DEF Expected
  <2>9. ValueAt(p, r) = scratch[i].val
    BY <2>3, Zenon DEF ValueAt
  <2> QED BY <2>7, <2>8, <2>9, Zenon
<1> QED BY <1>2, <1>6, <1>7, <1>8, Zenon DEF ReadPlanned

(* The value is read.                                                      *)
LEMMA ReadValueKeeps ==
    ASSUME ExecInv, NEW p \in Pieces, NEW r \in Records, ReadValue(p, r) PROVE ExecInv'
<1> DEFINE c == IF r \in WriteSet(batch[p]) THEN "choose" ELSE "done"
<1>1. /\ at[p][r] = "value" /\ got' = [got EXCEPT ![p][r] = ValueAt(p, r)]
      /\ at' = [at EXCEPT ![p][r] = c]
      /\ UNCHANGED <<fixed, ver, val, scratch, dirty, counter, seen, loc>>
  BY Zenon DEF ReadValue
<1>2. /\ machine' = machine /\ batch' = batch /\ plan' = plan /\ start' = start
      /\ UNCHANGED <<ver, val, scratch, dirty>> /\ seen' = seen /\ loc' = loc
      /\ UNCHANGED <<fixed, counter>>
  BY <1>1, Zenon DEF fixed
<1>3. /\ at[p][r] \in Reading /\ c \in Steps
      /\ (c = "choose" /\ r \in WriteSet(batch[p])) \/ (c = "done" /\ r \notin WriteSet(batch[p]))
  BY <1>1, Zenon DEF Reading, Steps, Writing
<1> HIDE DEF c
<1>4. /\ r \in ReadSet(batch[p]) /\ Moves(p, r, c) /\ at'[p][r] = c
      /\ WritesTo(batch, p, r) => at[p][r] \notin Chosen /\ c \notin Chosen
  BY <1>1, <1>2, <1>3, ReadMoves, Zenon
<1>5. LocatedAt(p, r)'
  BY <1>3, <1>4, Zenon DEF LocatedAt
<1>6. GotAt(p, r)'
  <2>1. got'[p][r] = ValueAt(p, r)
    <3>1. DOMAIN got = Pieces /\ DOMAIN got[p] = Records
      BY Zenon DEF ExecInv, ExecTypes
    <3> QED BY <3>1, <1>1, Zenon
  <2>2. Expected(p, r)' = Expected(p, r)
    BY <1>2, Zenon DEF Expected, SerialValue, WritersBefore, Committed
  <2> QED BY <1>1, <1>4, <2>1, <2>2, ValueRight, ZenonT(40) DEF GotAt
<1> QED BY <1>2, <1>4, <1>5, <1>6, QuietMove, Zenon

(* The first step of a piece.                                              *)
LEMMA BeginSteps ==
    ASSUME ExecInv, NEW q \in Pieces, NEW s \in Records
    PROVE  /\ Begin(q)[s] \in Steps
           /\ Begin(q)[s] \in Reading => s \in ReadSet(batch[q])
           /\ Begin(q)[s] \in Writing => s \in WriteSet(batch[q])
           /\ Begin(q)[s] \in {"load1", "choose", "done"}
           /\ s \in ReadSet(batch[q]) => Begin(q)[s] = "load1"
           /\ WritesTo(batch, q, s) => Begin(q)[s] \in {"load1", "choose"}
           /\ DOMAIN Begin(q) = Records
BY Zenon DEF Begin, Steps, Reading, Writing, WritesTo

(* Pieces that begin: a block's or a thread's.                             *)
LEMMA BeginKeeps ==
    ASSUME ExecInv, NEW B \in SUBSET Pieces, \A q \in B, s \in Records : at[q][s] = "idle",
           at' = [q \in Pieces |-> IF q \in B THEN Begin(q) ELSE at[q]],
           counter' \in Nat, Unclaimed',
           UNCHANGED <<fixed, ver, val, scratch, dirty, seen, loc, got>>
    PROVE  ExecInv'
<1>1. /\ machine' = machine /\ batch' = batch /\ plan' = plan /\ start' = start
      /\ ver' = ver /\ val' = val /\ scratch' = scratch /\ dirty' = dirty /\ seen' = seen /\ loc' = loc
      /\ got' = got /\ Pieces' = Pieces
  BY Zenon DEF fixed, Pieces
<1>2. at \in [Pieces -> [Records -> Steps]]
  BY Zenon DEF ExecInv, ExecTypes
<1>3. \A q \in B : Begin(q) \in [Records -> Steps]
  BY Zenon DEF Begin, Steps, Reading, Writing
<1>4. at' \in [Pieces -> [Records -> Steps]]
  BY <1>2, <1>3, Zenon
<1>5. \A q \in Pieces, s \in Records : IF q \in B THEN at'[q][s] = Begin(q)[s] /\ at[q][s] = "idle"
                                       ELSE at'[q][s] = at[q][s]
  BY Zenon
<1>6. ExecTypes'
  <2>1. ASSUME NEW q \in Pieces, NEW s \in Records
        PROVE  /\ at'[q][s] \in Reading => s \in ReadSet(batch[q])
               /\ at'[q][s] \in Writing => s \in WriteSet(batch[q])
    BY <1>5, BeginSteps, Zenon DEF ExecInv, ExecTypes
  <2> QED BY <1>1, <1>4, <2>1, Zenon DEF ExecInv, ExecTypes, Shaped
<1>7. CommittedKept' /\ SlotFollows' /\ ElementFollows' /\ DirtyChosen'
  <2>1. \A q \in Pieces, s \in Records :
          at'[q][s] # at[q][s] /\ WritesTo(batch, q, s) => at[q][s] \notin Chosen /\ at'[q][s] \notin Chosen
    BY <1>5, BeginSteps, Zenon DEF Chosen
  <2>2. UNCHANGED <<fixed, ver, val, scratch>>
    BY <1>1, Zenon DEF fixed
  <2> QED BY <1>1, <2>1, <2>2, QuietDirty, ZenonT(40) DEF Quiet
<1>8. ASSUME NEW q \in Pieces, NEW s \in Records PROVE LocatedAt(q, s)' /\ GotAt(q, s)'
  <2>1. CASE q \in B
    <3>1. /\ at'[q][s] \in {"load1", "choose", "done"}
          /\ s \in ReadSet(batch[q]) => at'[q][s] = "load1"
      BY <2>1, <1>5, BeginSteps, Zenon
    <3>2. LocatedAt(q, s)'
      BY <3>1, Zenon DEF LocatedAt
    <3>3. GotAt(q, s)'
      BY <3>1, <1>1, ZenonT(40) DEF GotAt, Writing
    <3> QED BY <3>2, <3>3, Zenon
  <2>2. CASE q \notin B
    <3>1. at'[q][s] = at[q][s]
      BY <2>2, <1>5, Zenon
    <3>2. LocatedAt(q, s) /\ GotAt(q, s)
      BY Zenon DEF ExecInv, Located, GotSerial
    <3>3. LocatedAt(q, s)'
      BY <1>1, <3>1, <3>2, Zenon DEF LocatedAt, ReadAt, WriteAt, VersionAt
    <3>4. GotAt(q, s)'
      BY <1>1, <3>1, <3>2, Zenon DEF GotAt, Expected, SerialValue, WritersBefore, Committed
    <3> QED BY <3>3, <3>4, Zenon
  <2> QED BY <2>1, <2>2, Zenon
<1> QED BY <1>1, <1>6, <1>7, <1>8, Zenon DEF ExecInv, Located, GotSerial

(* A block claims the next pieces.                                         *)
LEMMA ClaimKeeps == ASSUME ExecInv, Claim PROVE ExecInv'
<1> DEFINE B == {q \in Pieces : q \in counter + 1 .. counter + NumWarps}
<1>1. /\ machine = "gpu" /\ counter' = counter + NumWarps
      /\ at' = [p \in Pieces |-> IF p \in counter + 1 .. counter + NumWarps THEN Begin(p) ELSE at[p]]
      /\ UNCHANGED <<fixed, ver, val, scratch, dirty, seen, loc, got>>
  BY Zenon DEF Claim
<1>2. /\ counter \in Nat /\ NumWarps \in Nat /\ \A q \in Pieces : q \in Nat
      /\ machine' = machine /\ Pieces' = Pieces
  <2>1. \A q \in Pieces : q \in Nat
    BY SetsOfRecords, Zenon DEF ExecInv, ExecTypes, Pieces
  <2> QED BY <1>1, <2>1, ExecutionAssumption, Zenon DEF ExecInv, ExecTypes, ExecutionAssumption, fixed, Pieces
<1>3. at' = [q \in Pieces |-> IF q \in B THEN Begin(q) ELSE at[q]]
  BY <1>1, Zenon
<1>4. \A q \in Pieces : q \in B \/ counter + NumWarps < q => counter < q
  BY <1>2
<1>5. \A q \in Pieces : counter + NumWarps < q => q \notin B
  BY <1>2
<1>6. \A q \in Pieces, s \in Records : counter < q => at[q][s] = "idle"
  BY <1>1, Zenon DEF ExecInv, Unclaimed
<1> HIDE DEF B
<1>7. \A q \in B, s \in Records : at[q][s] = "idle"
  BY <1>4, <1>6, Zenon DEF B
<1>8. Unclaimed'
  <2>1. \A q \in Pieces, s \in Records : counter + NumWarps < q => at'[q][s] = "idle"
    BY <1>3, <1>4, <1>5, <1>6, ZenonT(40)
  <2> QED BY <2>1, <1>1, <1>2, Zenon DEF Unclaimed
<1>9. counter' \in Nat /\ B \in SUBSET Pieces
  BY <1>1, <1>2 DEF B
<1> QED BY <1>1, <1>3, <1>7, <1>8, <1>9, BeginKeeps, ZenonT(40)

(* A thread turns to its next piece.                                       *)
LEMMA TurnToKeeps == ASSUME ExecInv, NEW p \in Pieces, TurnTo(p) PROVE ExecInv'
<1>1. /\ machine = "cpu" /\ \A r \in Records : at[p][r] = "idle"
      /\ at' = [at EXCEPT ![p] = Begin(p)]
      /\ UNCHANGED <<fixed, ver, val, scratch, dirty, counter, seen, loc, got>>
  BY Zenon DEF TurnTo
<1>2. at \in [Pieces -> [Records -> Steps]]
  BY Zenon DEF ExecInv, ExecTypes
<1>3. at' = [q \in Pieces |-> IF q \in {p} THEN Begin(q) ELSE at[q]]
  BY <1>1, <1>2, Zenon
<1>4. /\ UNCHANGED <<fixed, ver, val, scratch, dirty, seen, loc, got>> /\ counter' \in Nat
      /\ machine' = "cpu"
  BY <1>1, Zenon DEF ExecInv, ExecTypes, fixed
<1>5. Unclaimed'
  BY <1>4, Zenon DEF Unclaimed
<1>6. \A q \in {p}, s \in Records : at[q][s] = "idle"
  BY <1>1, Zenon
<1>7. {p} \in SUBSET Pieces
  BY Zenon
<1> QED BY <1>3, <1>4, <1>5, <1>6, <1>7, BeginKeeps, ZenonT(40)

--------------------------------------------------------------------------------
(* Writing.                                                                *)

(* The plan of a write tells whether it is the last.                       *)
LEMMA WriteIsLast ==
    ASSUME ExecTypes, NEW p \in Pieces, NEW r \in WriteSet(batch[p])
    PROVE  /\ plan[p].write[r] = LocB <=> LastWriter(batch, p, r)
           /\ ~LastWriter(batch, p, r) => plan[p].write[r] \in DOMAIN scratch
           /\ WritesTo(batch, p, r)
<1>1. PlanRight(batch, plan) /\ Pieces = DOMAIN batch
  BY Zenon DEF ExecTypes, Pieces
<1>2. WritePlanned(batch, plan, p, r)
  BY <1>1, Zenon DEF PlanRight
<1>3. DOMAIN scratch = 0 .. Cardinality(Submitted(batch)) - 1
  BY Zenon DEF ExecTypes, Shaped
<1>4. \A i \in 0 .. Cardinality(Submitted(batch)) - 1 : i # LocB
  BY DEF LocB
<1> QED BY <1>1, <1>2, <1>3, <1>4, ZenonT(40) DEF WritePlanned, WritesTo

(* A record has one last writer.                                           *)
LEMMA LastIsOne ==
    ASSUME ExecTypes, NEW p \in Pieces, NEW q \in Pieces, NEW r, LastWriter(batch, p, r), LastWriter(batch, q, r)
    PROVE  p = q
<1>1. p \in Nat /\ q \in Nat
  BY SetsOfRecords, Zenon DEF ExecTypes, Pieces
<1>2. p <= q /\ q <= p
  BY Zenon DEF LastWriter, Pieces
<1> QED BY <1>1, <1>2

(* A writer chooses its location.                                          *)
LEMMA ChooseKeeps ==
    ASSUME ExecInv, NEW p \in Pieces, NEW r \in Records, Choose(p, r) PROVE ExecInv'
<1> DEFINE s == WriteSlot(start[r])
<1>1. /\ at[p][r] = "choose" /\ at' = [at EXCEPT ![p][r] = "store"]
      /\ IF plan[p].write[r] = LocB
         THEN /\ loc' = [loc EXCEPT ![p][r] = InRecord(WriteSlot(ver[r]))]
              /\ dirty' = IF machine = "gpu" THEN dirty \cup {<<r, WriteSlot(ver[r])>>} ELSE dirty
         ELSE loc' = [loc EXCEPT ![p][r] = InScratch(plan[p].write[r])] /\ dirty' = dirty
      /\ UNCHANGED <<fixed, ver, val, scratch, counter, seen, got>>
  BY Zenon DEF Choose, MayWrite
<1>2. /\ machine' = machine /\ batch' = batch /\ plan' = plan /\ start' = start
      /\ ver' = ver /\ val' = val /\ scratch' = scratch /\ counter' = counter
      /\ seen' = seen /\ got' = got /\ UNCHANGED <<fixed, counter>> /\ UNCHANGED <<fixed, ver, val, scratch>>
  BY <1>1, Zenon DEF fixed
<1>3. ExecTypes /\ r \in WriteSet(batch[p])
  BY <1>1, Zenon DEF ExecInv, ExecTypes, Writing
<1>4. /\ plan[p].write[r] = LocB <=> LastWriter(batch, p, r)
      /\ WritesTo(batch, p, r)
  BY <1>3, WriteIsLast, ZenonT(40)
<1>5. LastWriter(batch, p, r) => WriteSlot(ver[r]) = s
  <2> SUFFICES ASSUME LastWriter(batch, p, r) PROVE WriteSlot(ver[r]) = s
    BY Zenon
  <2>1. ver[r][s] = start[r][s]
    <3>1. ver[r][s] = IF at[p][r] = "done" THEN Epoch ELSE start[r][s]
      BY Zenon DEF ExecInv, SlotFollows
    <3> QED BY <3>1, <1>1, Zenon
  <2>2. ver[r][Newest(start[r])] = start[r][Newest(start[r])]
    BY Zenon DEF ExecInv, CommittedKept
  <2>3. ver[r][1] = start[r][1] /\ ver[r][2] = start[r][2]
    BY <2>1, <2>2, Zenon DEF WriteSlot, Newest
  <2> QED BY <2>3, Zenon DEF WriteSlot
<1>6. /\ DOMAIN loc = Pieces /\ DOMAIN loc[p] = Records /\ \A x \in Pieces : DOMAIN loc[x] = Records
      /\ at \in [Pieces -> [Records -> Steps]]
  BY <1>3, Zenon DEF ExecTypes
<1>7. loc'[p][r] = WriteAt(p, r) /\ Touches(loc', loc, p, r)
  <2>1. CASE plan[p].write[r] = LocB
    <3>1. loc' = [loc EXCEPT ![p][r] = InRecord(s)]
      BY <1>1, <1>4, <1>5, <2>1, ZenonT(40)
    <3>2. loc'[p][r] = InRecord(s) /\ Touches(loc', loc, p, r)
      BY <3>1, <1>6, Zenon DEF Touches
    <3> QED BY <3>2, <2>1, Zenon DEF WriteAt
  <2>2. CASE plan[p].write[r] # LocB
    <3>1. loc' = [loc EXCEPT ![p][r] = InScratch(plan[p].write[r])]
      BY <1>1, <2>2, Zenon
    <3>2. loc'[p][r] = InScratch(plan[p].write[r]) /\ Touches(loc', loc, p, r)
      BY <3>1, <1>6, Zenon DEF Touches
    <3> QED BY <3>2, <2>2, Zenon DEF WriteAt
  <2> QED BY <2>1, <2>2, Zenon
<1>8. Moves(p, r, "store")
  <2>1. at[p][r] # "idle" /\ "store" \in Steps /\ "store" \notin Reading
    BY <1>1, Zenon DEF Steps, Reading, Writing
  <2>2. Touches(seen', seen, p, r) /\ Touches(got', got, p, r)
    BY <1>2, Zenon DEF Touches
  <2> QED BY <1>1, <1>2, <1>3, <1>7, <2>1, <2>2, ZenonT(40) DEF Moves
<1>9. /\ ExecTypes' /\ Unclaimed' /\ Pieces' = Pieces
      /\ at'[p][r] = "store"
      /\ \A q \in Pieces, x \in Records : q # p \/ x # r => at'[q][x] = at[q][x]
  <2>1. Shaped'
    BY <1>2, <1>3, ZenonT(40) DEF ExecTypes, Shaped
  <2> QED BY <1>8, <2>1, MovesTyped, ZenonT(40)
<1>10. CommittedKept' /\ SlotFollows' /\ ElementFollows'
  <2>1. \A q \in Pieces, x \in Records : at'[q][x] # at[q][x] =>
            at[q][x] \notin {"storing", "publish", "done"} /\ at'[q][x] \notin {"storing", "publish", "done"}
    <3>1. at[p][r] \notin {"storing", "publish", "done"} /\ at'[p][r] \notin {"storing", "publish", "done"}
      BY <1>1, <1>9, ZenonT(40)
    <3> QED BY <3>1, <1>9, ZenonT(40)
  <2> QED BY <2>1, <1>2, QuietKeeps, ZenonT(40) DEF Quiet
<1>11. DirtyChosen'
  <2>1. \A x \in Records : HasChosen(x)' <=> HasChosen(x) \/ (x = r /\ LastWriter(batch, p, r))
    <3>1. at'[p][r] \in Chosen /\ at[p][r] \notin Chosen
      BY <1>1, <1>9, Zenon DEF Chosen
    <3> QED BY <3>1, <1>2, <1>9, ZenonT(40) DEF HasChosen
  <2>2. dirty = {<<x, WriteSlot(start[x])>> : x \in {y \in Records : machine = "gpu" /\ HasChosen(y)}}
    BY Zenon DEF ExecInv, DirtyChosen
  <2>3. dirty' = IF machine = "gpu" /\ LastWriter(batch, p, r) THEN dirty \cup {<<r, s>>} ELSE dirty
    BY <1>1, <1>4, <1>5, ZenonT(40)
  <2>4. dirty' = {<<x, WriteSlot(start[x])>> : x \in {y \in Records : machine = "gpu" /\ HasChosen(y)'}}
    BY <2>1, <2>2, <2>3, Zenon
  <2> QED BY <1>2, <2>4, ZenonT(40) DEF DirtyChosen
<1>12. LocatedAt(p, r)'
  <2>1. WriteAt(p, r)' = WriteAt(p, r)
    BY <1>2, Zenon DEF WriteAt
  <2> QED BY <2>1, <1>7, <1>9, Zenon DEF LocatedAt
<1>13. GotAt(p, r)'
  <2>1. GotAt(p, r)
    BY Zenon DEF ExecInv, GotSerial
  <2>2. at[p][r] \in Writing \cup {"done"}
    BY <1>1, Zenon DEF Writing
  <2> QED BY <2>1, <2>2, <1>2, Zenon DEF GotAt, Expected, SerialValue, WritersBefore, Committed
<1>14. \A q \in Pieces, x \in Records : LocatedAt(q, x)' /\ GotAt(q, x)'
  <2>1. VersionsRise
    BY <1>2, Zenon DEF VersionsRise
  <2>2. ASSUME NEW q \in Pieces, NEW x \in Records, q # p \/ x # r PROVE LocatedAt(q, x)' /\ GotAt(q, x)'
    <3>1. at'[q][x] = at[q][x]
      BY <1>9, <2>2, ZenonT(40)
    <3> QED BY <2>1, <2>2, <3>1, <1>8, OthersKeep, ZenonT(40)
  <2> QED BY <1>12, <1>13, <2>2, ZenonT(40)
<1> QED BY <1>9, <1>10, <1>11, <1>14, ZenonT(40) DEF ExecInv, Located, GotSerial

(* What a step of a writer to c may do to the records and to the version   *)
(* array: it changes its own slot, or its own element.                     *)
SlotWrite(p, r, c) ==
    LET s == WriteSlot(start[r])
    IN  /\ scratch' = scratch
        /\ \A x \in Records, n \in SlotIds : x # r \/ n # s => ver'[x][n] = ver[x][n] /\ val'[x][n] = val[x][n]
        /\ ver'[r][s] = IF c = "done" THEN Epoch ELSE ver[r][s]
        /\ val'[r][s] = IF c = "storing" THEN Junk ELSE IF c = "publish" THEN NewValue(p) ELSE val[r][s]
ElementWrite(p, r, c) ==
    LET i == plan[p].write[r]
    IN  /\ ver' = ver /\ val' = val
        /\ \A j \in DOMAIN scratch : j # i => scratch'[j] = scratch[j]
        /\ scratch'[i].ver = IF c = "done" THEN Epoch ELSE scratch[i].ver
        /\ scratch'[i].val = IF machine = "gpu" /\ c = "storing" THEN Junk
                             ELSE IF machine = "gpu" /\ c = "publish" THEN NewValue(p) ELSE scratch[i].val
WriterStep(p, r, c) ==
    /\ <<at[p][r], c>> \in {<<"store", "storing">>, <<"storing", "publish">>, <<"publish", "done">>}
    /\ at' = [at EXCEPT ![p][r] = c]
    /\ UNCHANGED <<fixed, dirty, counter, seen, loc, got>>
    /\ Shaped'
    /\ IF LastWriter(batch, p, r) THEN SlotWrite(p, r, c) ELSE ElementWrite(p, r, c)

(* Such a step keeps the invariant.                                        *)
LEMMA WriterStepKeeps ==
    ASSUME ExecInv, NEW p \in Pieces, NEW r \in Records, NEW c, WriterStep(p, r, c) PROVE ExecInv'
<1> DEFINE s == WriteSlot(start[r])
           i == plan[p].write[r]
<1>1. /\ machine' = machine /\ batch' = batch /\ plan' = plan /\ start' = start /\ dirty' = dirty
      /\ seen' = seen /\ got' = got /\ loc' = loc /\ UNCHANGED <<fixed, counter>>
      /\ at' = [at EXCEPT ![p][r] = c]
  BY Zenon DEF WriterStep, fixed
<1>2. at[p][r] \in {"store", "storing", "publish"} /\ c \in {"storing", "publish", "done"}
      /\ (c = "done" <=> at[p][r] = "publish")
  BY Zenon DEF WriterStep
<1>3. ExecTypes /\ r \in WriteSet(batch[p])
  BY <1>2, Zenon DEF ExecInv, ExecTypes, Writing
<1>4. /\ WritesTo(batch, p, r)
      /\ ~LastWriter(batch, p, r) => i \in DOMAIN scratch
  BY <1>3, WriteIsLast, Zenon
<1>5. Moves(p, r, c)
  <2>1. at[p][r] # "idle" /\ c \in Steps /\ c \notin Reading
    BY <1>2, Zenon DEF Steps, Reading, Writing
  <2>2. Touches(seen', seen, p, r) /\ Touches(loc', loc, p, r) /\ Touches(got', got, p, r)
    BY <1>1, Zenon DEF Touches
  <2> QED BY <1>1, <1>3, <2>1, <2>2, ZenonT(40) DEF Moves
<1>6. /\ ExecTypes' /\ Unclaimed' /\ Pieces' = Pieces
      /\ at'[p][r] = c
      /\ \A q \in Pieces, x \in Records : q # p \/ x # r => at'[q][x] = at[q][x]
  <2>1. Shaped'
    BY Zenon DEF WriterStep
  <2> QED BY <1>5, <2>1, MovesTyped, ZenonT(40)
<1>7. ValueOf(p, r, OldValue(Epoch - 1))' =
          IF c = "storing" THEN Junk ELSE IF c = "publish" THEN NewValue(p)
          ELSE ValueOf(p, r, OldValue(Epoch - 1))
  BY <1>2, <1>6, Zenon DEF ValueOf, Stored
<1>8. ValueOf(p, r, OldValue(start[r][s]))' =
          IF c = "storing" THEN Junk ELSE IF c = "publish" THEN NewValue(p)
          ELSE ValueOf(p, r, OldValue(start[r][s]))
  BY <1>1, <1>2, <1>6, Zenon DEF ValueOf, Stored
<1>9. s \in SlotIds /\ Newest(start[r]) # s /\ \A x \in Records : Newest(start[x]) \in SlotIds /\ WriteSlot(start[x]) \in SlotIds
  BY <1>3, StartTags, Zenon DEF ExecTypes
<1>10. CommittedKept'
  <2> SUFFICES ASSUME NEW x \in Records
               PROVE  LET z == Newest(start[x])
                      IN  ver'[x][z] = start[x][z] /\ val'[x][z] = OldValue(start[x][z])
    BY <1>1, Zenon DEF CommittedKept
  <2> DEFINE z == Newest(start[x])
  <2>1. ver[x][z] = start[x][z] /\ val[x][z] = OldValue(start[x][z])
    BY Zenon DEF ExecInv, CommittedKept
  <2>2. ver'[x][z] = ver[x][z] /\ val'[x][z] = val[x][z]
    <3>1. CASE LastWriter(batch, p, r)
      <4>1. x # r \/ z # s
        BY <1>9, Zenon
      <4>2. z \in SlotIds
        BY <1>9, Zenon
      <4> QED BY <3>1, <4>1, <4>2, ZenonT(40) DEF WriterStep, SlotWrite
    <3>2. CASE ~LastWriter(batch, p, r)
      BY <3>2, Zenon DEF WriterStep, ElementWrite
    <3> QED BY <3>1, <3>2, Zenon
  <2> QED BY <2>1, <2>2, Zenon
<1>11. SlotFollows'
  <2> SUFFICES ASSUME NEW x \in Records
               PROVE  LET n == WriteSlot(start[x])
                      IN  /\ \A q \in Pieces : LastWriter(batch, q, x) =>
                               /\ ver'[x][n] = IF at'[q][x] = "done" THEN Epoch ELSE start[x][n]
                               /\ val'[x][n] = ValueOf(q, x, OldValue(start[x][n]))'
                          /\ (\A q \in Pieces : ~WritesTo(batch, q, x)) =>
                               ver'[x][n] = start[x][n] /\ val'[x][n] = OldValue(start[x][n])
    BY <1>1, <1>6, ZenonT(40) DEF SlotFollows
  <2> DEFINE n == WriteSlot(start[x])
  <2>1. ASSUME x # r \/ ~LastWriter(batch, p, r) PROVE ver'[x][n] = ver[x][n] /\ val'[x][n] = val[x][n]
    BY <2>1, <1>9, Zenon DEF WriterStep, SlotWrite, ElementWrite
  <2>2. ASSUME NEW q \in Pieces, LastWriter(batch, q, x)
        PROVE  /\ ver'[x][n] = IF at'[q][x] = "done" THEN Epoch ELSE start[x][n]
               /\ val'[x][n] = ValueOf(q, x, OldValue(start[x][n]))'
    <3>1. /\ ver[x][n] = IF at[q][x] = "done" THEN Epoch ELSE start[x][n]
          /\ val[x][n] = ValueOf(q, x, OldValue(start[x][n]))
      BY <2>2, ZenonT(40) DEF ExecInv, SlotFollows
    <3>2. CASE q = p /\ x = r
      <4>1. SlotWrite(p, r, c)
        BY <2>2, <3>2, ZenonT(40) DEF WriterStep
      <4>2. /\ ver'[r][s] = IF c = "done" THEN Epoch ELSE ver[r][s]
            /\ val'[r][s] = IF c = "storing" THEN Junk ELSE IF c = "publish" THEN NewValue(p) ELSE val[r][s]
        BY <4>1, Zenon DEF SlotWrite
      <4>3. ver[r][s] = start[r][s] /\ val[r][s] = ValueOf(p, r, OldValue(start[r][s]))
        BY <3>1, <3>2, <1>2, ZenonT(40)
      <4>4. /\ ver'[r][s] = IF at'[p][r] = "done" THEN Epoch ELSE start[r][s]
            /\ val'[r][s] = ValueOf(p, r, OldValue(start[r][s]))'
        BY <4>2, <4>3, <1>6, <1>8, ZenonT(40)
      <4> QED BY <4>4, <3>2, ZenonT(40)
    <3>3. CASE q # p \/ x # r
      <4>1. x # r \/ ~LastWriter(batch, p, r)
        BY <2>2, <3>3, <1>3, LastIsOne, ZenonT(40)
      <4>2. at'[q][x] = at[q][x] /\ ValueOf(q, x, OldValue(start[x][n]))' = ValueOf(q, x, OldValue(start[x][n]))
        <5>1. ValueOf(q, x, OldValue(start[x][n]))' = ValueOf(q, x, OldValue(start[x][n]))
          BY <3>3, <1>1, <1>6, ZenonT(40) DEF ValueOf
        <5> QED BY <5>1, <3>3, <1>6, ZenonT(40)
      <4> QED BY <4>1, <4>2, <3>1, <2>1, ZenonT(40)
    <3> QED BY <3>2, <3>3, ZenonT(40)
  <2>3. ASSUME \A q \in Pieces : ~WritesTo(batch, q, x)
        PROVE  ver'[x][n] = start[x][n] /\ val'[x][n] = OldValue(start[x][n])
    <3>1. x # r
      BY <2>3, <1>4, ZenonT(40)
    <3>2. ver[x][n] = start[x][n] /\ val[x][n] = OldValue(start[x][n])
      BY <2>3, Zenon DEF ExecInv, SlotFollows
    <3> QED BY <3>1, <3>2, <2>1, ZenonT(40)
  <2> QED BY <2>2, <2>3, ZenonT(40)
<1>12. ElementFollows'
  <2> SUFFICES ASSUME NEW q \in Pieces, NEW x \in Records, WritesTo(batch, q, x), ~LastWriter(batch, q, x)
               PROVE  LET e == scratch'[plan[q].write[x]]
                      IN  /\ e.ver = IF at'[q][x] = "done" THEN Epoch ELSE Epoch - 1
                          /\ e.val = IF machine = "cpu" THEN OldValue(Epoch - 1)
                                     ELSE ValueOf(q, x, OldValue(Epoch - 1))'
    BY <1>1, <1>6, ZenonT(40) DEF ElementFollows
  <2> DEFINE j == plan[q].write[x]
  <2>1. /\ scratch[j].ver = IF at[q][x] = "done" THEN Epoch ELSE Epoch - 1
        /\ scratch[j].val = IF machine = "cpu" THEN OldValue(Epoch - 1)
                            ELSE ValueOf(q, x, OldValue(Epoch - 1))
    BY Zenon DEF ExecInv, ElementFollows
  <2>2. j \in DOMAIN scratch
    <3>1. x \in WriteSet(batch[q])
      BY Zenon DEF WritesTo
    <3> QED BY <3>1, <1>3, WriteIsLast, Zenon
  <2>3. CASE q = p /\ x = r
    <3>1. ElementWrite(p, r, c)
      BY <2>3, Zenon DEF WriterStep
    <3>2. /\ scratch'[i].ver = IF c = "done" THEN Epoch ELSE scratch[i].ver
          /\ scratch'[i].val = IF machine = "gpu" /\ c = "storing" THEN Junk
                               ELSE IF machine = "gpu" /\ c = "publish" THEN NewValue(p) ELSE scratch[i].val
      BY <3>1, Zenon DEF ElementWrite
    <3>3. scratch[i].ver = Epoch - 1
      BY <2>1, <2>3, <1>2, ZenonT(40)
    <3>4. scratch[i].val = IF machine = "cpu" THEN OldValue(Epoch - 1)
                           ELSE ValueOf(p, r, OldValue(Epoch - 1))
      BY <2>1, <2>3, Zenon
    <3>5. machine = "gpu" <=> machine # "cpu"
      BY <1>3, Zenon DEF ExecTypes
    <3>6. scratch'[i].ver = IF at'[p][r] = "done" THEN Epoch ELSE Epoch - 1
      BY <3>2, <3>3, <1>6, ZenonT(40)
    <3>7. scratch'[i].val = IF machine = "cpu" THEN OldValue(Epoch - 1)
                            ELSE ValueOf(p, r, OldValue(Epoch - 1))'
      BY <3>2, <3>4, <3>5, <1>7, ZenonT(40)
    <3> QED BY <3>6, <3>7, <2>3, ZenonT(40)
  <2>4. CASE q # p \/ x # r
    <3>1. scratch'[j] = scratch[j]
      <4>1. CASE LastWriter(batch, p, r)
        BY <4>1, Zenon DEF WriterStep, SlotWrite
      <4>2. CASE ~LastWriter(batch, p, r)
        <5>1. OwnElement(batch, plan)
          BY <1>3, Zenon DEF ExecTypes, PlanRight
        <5>2. j # i
          BY <5>1, <4>2, <2>4, <1>4, ZenonT(40) DEF OwnElement, Pieces
        <5> QED BY <4>2, <5>2, <2>2, ZenonT(40) DEF WriterStep, ElementWrite
      <4> QED BY <4>1, <4>2, ZenonT(40)
    <3>2. at'[q][x] = at[q][x] /\ ValueOf(q, x, OldValue(Epoch - 1))' = ValueOf(q, x, OldValue(Epoch - 1))
      BY <2>4, <1>6, Zenon DEF ValueOf
    <3> QED BY <3>1, <3>2, <2>1, ZenonT(40)
  <2> QED BY <2>3, <2>4, ZenonT(40)
<1>13. DirtyChosen'
  <2>1. \A x \in Records : HasChosen(x)' <=> HasChosen(x)
    <3>1. at'[p][r] \in Chosen /\ at[p][r] \in Chosen
      BY <1>2, <1>6, Zenon DEF Chosen
    <3> QED BY <3>1, <1>1, <1>6, ZenonT(40) DEF HasChosen
  <2> QED BY <1>1, <2>1, Zenon DEF ExecInv, DirtyChosen
<1>14. LocatedAt(p, r)'
  <2>1. LocatedAt(p, r)
    BY Zenon DEF ExecInv, Located
  <2>2. loc'[p][r] = WriteAt(p, r)
    BY <2>1, <1>1, <1>2, ZenonT(40) DEF LocatedAt
  <2>3. WriteAt(p, r)' = WriteAt(p, r)
    BY <1>1, Zenon DEF WriteAt
  <2> QED BY <2>2, <2>3, <1>2, <1>6, ZenonT(40) DEF LocatedAt
<1>15. GotAt(p, r)'
  <2>1. GotAt(p, r)
    BY Zenon DEF ExecInv, GotSerial
  <2>2. at[p][r] \in Writing \cup {"done"}
    BY <1>2, Zenon DEF Writing
  <2> QED BY <2>1, <2>2, <1>1, ZenonT(40) DEF GotAt, Expected, SerialValue, WritersBefore, Committed
<1>16. VersionsRise
  <2>1. CASE LastWriter(batch, p, r)
    BY <2>1, Zenon DEF WriterStep, SlotWrite, VersionsRise
  <2>2. CASE ~LastWriter(batch, p, r)
    BY <2>2, Zenon DEF WriterStep, ElementWrite, VersionsRise
  <2> QED BY <2>1, <2>2, ZenonT(40)
<1>17. \A q \in Pieces, x \in Records : LocatedAt(q, x)' /\ GotAt(q, x)'
  <2>1. ASSUME NEW q \in Pieces, NEW x \in Records, q # p \/ x # r PROVE LocatedAt(q, x)' /\ GotAt(q, x)'
    <3>1. at'[q][x] = at[q][x]
      BY <1>6, <2>1, Zenon
    <3> QED BY <1>16, <2>1, <3>1, <1>5, OthersKeep, ZenonT(40)
  <2> QED BY <1>14, <1>15, <2>1, ZenonT(40)
<1> QED BY <1>6, <1>10, <1>11, <1>12, <1>13, <1>17, ZenonT(40) DEF ExecInv, Located, GotSerial

(* The location of a write is its slot or its element.                     *)
LEMMA WriteLocation ==
    ASSUME ExecInv, NEW p \in Pieces, NEW r \in Records, at[p][r] \in {"store", "storing", "publish"}
    PROVE  /\ LastWriter(batch, p, r) => loc[p][r].kind = "slot" /\ loc[p][r].n = WriteSlot(start[r])
           /\ ~LastWriter(batch, p, r) =>
                /\ loc[p][r].kind = "version" /\ loc[p][r].n = plan[p].write[r]
                /\ plan[p].write[r] \in DOMAIN scratch
           /\ WriteSlot(start[r]) \in SlotIds
           /\ DOMAIN ver = Records /\ DOMAIN val = Records
           /\ \A x \in Records : DOMAIN ver[x] = SlotIds /\ DOMAIN val[x] = SlotIds
           /\ \A i \in DOMAIN scratch : DOMAIN scratch[i] = {"ver", "val"}
<1>1. ExecTypes /\ r \in WriteSet(batch[p])
  BY Zenon DEF ExecInv, ExecTypes, Writing
<1>2. LocatedAt(p, r)
  BY Zenon DEF ExecInv, Located
<1>3. loc[p][r] = WriteAt(p, r)
  BY <1>2, Zenon DEF LocatedAt
<1>4. /\ plan[p].write[r] = LocB <=> LastWriter(batch, p, r)
      /\ ~LastWriter(batch, p, r) => plan[p].write[r] \in DOMAIN scratch
  BY <1>1, WriteIsLast, Zenon
<1>5. /\ LastWriter(batch, p, r) => loc[p][r] = InRecord(WriteSlot(start[r]))
      /\ ~LastWriter(batch, p, r) => loc[p][r] = InScratch(plan[p].write[r])
  BY <1>3, <1>4, Zenon DEF WriteAt
<1>6. WriteSlot(start[r]) \in SlotIds
  BY Zenon DEF WriteSlot, SlotIds
<1>7. /\ DOMAIN ver = Records /\ DOMAIN val = Records
      /\ \A x \in Records : DOMAIN ver[x] = SlotIds /\ DOMAIN val[x] = SlotIds
      /\ \A i \in DOMAIN scratch : DOMAIN scratch[i] = {"ver", "val"}
  BY <1>1, Zenon DEF ExecTypes, Shaped
<1>8. \A n : /\ InRecord(n).kind = "slot" /\ InRecord(n).n = n
             /\ InScratch(n).kind = "version" /\ InScratch(n).n = n
  BY Zenon DEF InRecord, InScratch
<1>9. /\ LastWriter(batch, p, r) => loc[p][r].kind = "slot" /\ loc[p][r].n = WriteSlot(start[r])
      /\ ~LastWriter(batch, p, r) => loc[p][r].kind = "version" /\ loc[p][r].n = plan[p].write[r]
  BY <1>5, <1>8, ZenonT(40)
<1> QED BY <1>4, <1>6, <1>7, <1>9, ZenonT(40)

(* Storing a value, on the slot or on the element.                         *)
LEMMA PutValueWrites ==
    ASSUME ExecInv, NEW p \in Pieces, NEW r \in Records, at[p][r] \in {"store", "storing"},
           NEW v, PutValue(p, r, v), ver' = ver, batch' = batch
    PROVE  LET s == WriteSlot(start[r])
               i == plan[p].write[r]
           IN  /\ Shaped'
               /\ LastWriter(batch, p, r) =>
                    /\ scratch' = scratch /\ val'[r][s] = v
                    /\ \A x \in Records, n \in SlotIds : x # r \/ n # s => val'[x][n] = val[x][n]
               /\ ~LastWriter(batch, p, r) =>
                    /\ val' = val /\ \A j \in DOMAIN scratch : j # i => scratch'[j] = scratch[j]
                    /\ scratch'[i].ver = scratch[i].ver
                    /\ scratch'[i].val = IF machine = "gpu" THEN v ELSE scratch[i].val
<1> DEFINE s == WriteSlot(start[r])
           i == plan[p].write[r]
<1>1. at[p][r] \in {"store", "storing", "publish"}
  BY Zenon
<1>2. /\ LastWriter(batch, p, r) => loc[p][r].kind = "slot" /\ loc[p][r].n = s
      /\ ~LastWriter(batch, p, r) =>
           loc[p][r].kind = "version" /\ loc[p][r].n = i /\ i \in DOMAIN scratch
      /\ s \in SlotIds
      /\ DOMAIN ver = Records /\ DOMAIN val = Records
      /\ \A x \in Records : DOMAIN ver[x] = SlotIds /\ DOMAIN val[x] = SlotIds
      /\ \A j \in DOMAIN scratch : DOMAIN scratch[j] = {"ver", "val"}
  BY <1>1, WriteLocation, ZenonT(40)
<1>3. DOMAIN scratch = 0 .. Cardinality(Submitted(batch)) - 1
  BY Zenon DEF ExecInv, ExecTypes, Shaped
<1> HIDE DEF s, i
<1>4. CASE LastWriter(batch, p, r)
  <2>1. val' = [val EXCEPT ![r][s] = v] /\ scratch' = scratch
    BY <1>2, <1>4, ZenonT(40) DEF PutValue
  <2>2. /\ val'[r][s] = v /\ \A x \in Records, n \in SlotIds : x # r \/ n # s => val'[x][n] = val[x][n]
        /\ DOMAIN val' = Records /\ \A x \in Records : DOMAIN val'[x] = SlotIds
    BY <2>1, <1>2, OneEntry
  <2>3. Shaped'
    BY <2>1, <2>2, <1>2, <1>3, ZenonT(40) DEF Shaped
  <2> QED BY <2>1, <2>2, <2>3, <1>4, ZenonT(40) DEF s, i
<1>5. CASE ~LastWriter(batch, p, r)
  <2>1. val' = val /\ scratch' = IF machine = "gpu" THEN [scratch EXCEPT ![i].val = v] ELSE scratch
    BY <1>2, <1>5, Zenon DEF PutValue
  <2>2. /\ DOMAIN scratch' = DOMAIN scratch /\ \A j \in DOMAIN scratch : j # i => scratch'[j] = scratch[j]
        /\ DOMAIN scratch'[i] = {"ver", "val"} /\ scratch'[i].ver = scratch[i].ver
        /\ scratch'[i].val = IF machine = "gpu" THEN v ELSE scratch[i].val
    BY <2>1, <1>2, <1>5, ZenonT(40)
  <2>3. \A j \in DOMAIN scratch' : DOMAIN scratch'[j] = {"ver", "val"}
    BY <2>2, <1>2, Zenon
  <2>4. Shaped'
    BY <2>1, <2>2, <2>3, <1>2, <1>3, ZenonT(40) DEF Shaped
  <2> QED BY <2>1, <2>2, <2>4, <1>5, ZenonT(40) DEF s, i
<1> QED BY <1>4, <1>5, ZenonT(40)

(* The value is being stored.                                              *)
LEMMA StoreBeginKeeps ==
    ASSUME ExecInv, NEW p \in Pieces, NEW r \in Records, StoreBegin(p, r) PROVE ExecInv'
<1>1. /\ at[p][r] = "store" /\ PutValue(p, r, Junk) /\ at' = [at EXCEPT ![p][r] = "storing"]
      /\ UNCHANGED <<fixed, ver, dirty, counter, seen, loc, got>>
  BY Zenon DEF StoreBegin
<1>2. ver' = ver /\ batch' = batch /\ UNCHANGED <<fixed, dirty, counter, seen, loc, got>>
      /\ at[p][r] \in {"store", "storing"}
  BY <1>1, ZenonT(40) DEF fixed
<1>3. /\ Shaped'
      /\ LastWriter(batch, p, r) => SlotWrite(p, r, "storing")
      /\ ~LastWriter(batch, p, r) => ElementWrite(p, r, "storing")
  BY <1>1, <1>2, PutValueWrites DEF SlotWrite, ElementWrite
<1>4. <<at[p][r], "storing">> \in {<<"store", "storing">>, <<"storing", "publish">>, <<"publish", "done">>}
  BY <1>1, Zenon
<1>5. WriterStep(p, r, "storing")
  BY <1>1, <1>2, <1>3, <1>4, ZenonT(40) DEF WriterStep
<1> QED BY <1>5, WriterStepKeeps, Zenon

(* The value is stored.                                                    *)
LEMMA StoreEndKeeps ==
    ASSUME ExecInv, NEW p \in Pieces, NEW r \in Records, StoreEnd(p, r) PROVE ExecInv'
<1>1. /\ at[p][r] = "storing" /\ PutValue(p, r, NewValue(p)) /\ at' = [at EXCEPT ![p][r] = "publish"]
      /\ UNCHANGED <<fixed, ver, dirty, counter, seen, loc, got>>
  BY Zenon DEF StoreEnd
<1>2. ver' = ver /\ batch' = batch /\ UNCHANGED <<fixed, dirty, counter, seen, loc, got>>
      /\ at[p][r] \in {"store", "storing"}
  BY <1>1, ZenonT(40) DEF fixed
<1>3. /\ Shaped'
      /\ LastWriter(batch, p, r) => SlotWrite(p, r, "publish")
      /\ ~LastWriter(batch, p, r) => ElementWrite(p, r, "publish")
  BY <1>1, <1>2, PutValueWrites DEF SlotWrite, ElementWrite
<1>4. <<at[p][r], "publish">> \in {<<"store", "storing">>, <<"storing", "publish">>, <<"publish", "done">>}
  BY <1>1, Zenon
<1>5. WriterStep(p, r, "publish")
  BY <1>1, <1>2, <1>3, <1>4, ZenonT(40) DEF WriterStep
<1> QED BY <1>5, WriterStepKeeps, Zenon

(* The version is published.                                               *)
LEMMA PublishKeeps ==
    ASSUME ExecInv, NEW p \in Pieces, NEW r \in Records, Publish(p, r) PROVE ExecInv'
<1> DEFINE s == WriteSlot(start[r])
           i == plan[p].write[r]
<1>1. /\ at[p][r] = "publish" /\ PutVersion(p, r) /\ at' = [at EXCEPT ![p][r] = "done"]
      /\ UNCHANGED <<fixed, val, dirty, counter, seen, loc, got>>
  BY Zenon DEF Publish
<1>2. val' = val /\ batch' = batch /\ UNCHANGED <<fixed, dirty, counter, seen, loc, got>>
      /\ at[p][r] \in {"store", "storing", "publish"}
  BY <1>1, Zenon DEF fixed
<1>3. /\ LastWriter(batch, p, r) => loc[p][r].kind = "slot" /\ loc[p][r].n = s
      /\ ~LastWriter(batch, p, r) =>
           loc[p][r].kind = "version" /\ loc[p][r].n = i /\ i \in DOMAIN scratch
      /\ s \in SlotIds
      /\ DOMAIN ver = Records /\ DOMAIN val = Records
      /\ \A x \in Records : DOMAIN ver[x] = SlotIds /\ DOMAIN val[x] = SlotIds
      /\ \A j \in DOMAIN scratch : DOMAIN scratch[j] = {"ver", "val"}
  BY <1>2, WriteLocation, Zenon
<1>4. DOMAIN scratch = 0 .. Cardinality(Submitted(batch)) - 1
  BY Zenon DEF ExecInv, ExecTypes, Shaped
<1> HIDE DEF s, i
<1>5. Shaped' /\ IF LastWriter(batch, p, r) THEN SlotWrite(p, r, "done") ELSE ElementWrite(p, r, "done")
  <2>1. CASE LastWriter(batch, p, r)
    <3>1. ver' = [ver EXCEPT ![r][s] = Epoch] /\ scratch' = scratch
      BY <1>1, <1>3, <2>1, ZenonT(40) DEF PutVersion
    <3>2. /\ ver'[r][s] = Epoch /\ \A x \in Records, n \in SlotIds : x # r \/ n # s => ver'[x][n] = ver[x][n]
          /\ DOMAIN ver' = Records /\ \A x \in Records : DOMAIN ver'[x] = SlotIds
      BY <3>1, <1>3, OneEntry
    <3>3. Shaped'
      BY <3>1, <3>2, <1>2, <1>3, <1>4, ZenonT(40) DEF Shaped
    <3>4. SlotWrite(p, r, "done")
      BY <3>1, <3>2, <1>2, ZenonT(40) DEF SlotWrite, s
    <3> QED BY <2>1, <3>3, <3>4, Zenon
  <2>2. CASE ~LastWriter(batch, p, r)
    <3>1. ver' = ver /\ scratch' = [scratch EXCEPT ![i].ver = Epoch]
      BY <1>1, <1>3, <2>2, ZenonT(40) DEF PutVersion
    <3>2. /\ DOMAIN scratch' = DOMAIN scratch /\ \A j \in DOMAIN scratch : j # i => scratch'[j] = scratch[j]
          /\ DOMAIN scratch'[i] = {"ver", "val"} /\ scratch'[i].ver = Epoch
          /\ scratch'[i].val = scratch[i].val
      BY <3>1, <1>3, <2>2, ZenonT(40)
    <3>3. \A j \in DOMAIN scratch' : DOMAIN scratch'[j] = {"ver", "val"}
      BY <3>2, <1>3, Zenon
    <3>4. Shaped'
      BY <3>1, <3>2, <3>3, <1>2, <1>3, <1>4, ZenonT(40) DEF Shaped
    <3>5. ElementWrite(p, r, "done")
      BY <3>1, <3>2, <1>2, ZenonT(40) DEF ElementWrite, i
    <3> QED BY <2>2, <3>4, <3>5, Zenon
  <2> QED BY <2>1, <2>2, ZenonT(40)
<1>6. <<at[p][r], "done">> \in {<<"store", "storing">>, <<"storing", "publish">>, <<"publish", "done">>}
  BY <1>1, Zenon
<1>7. WriterStep(p, r, "done")
  BY <1>1, <1>2, <1>5, <1>6, ZenonT(40) DEF WriterStep
<1> QED BY <1>7, WriterStepKeeps, Zenon

--------------------------------------------------------------------------------
(* The invariant holds when the epoch starts.                              *)
LEMMA InitHolds == Init => ExecInv
<1> SUFFICES ASSUME Init PROVE ExecInv
  BY Zenon
<1>1. /\ machine \in {"gpu", "cpu"} /\ IsBatch(batch) /\ plan = Plan(batch) /\ start \in Starts
  BY ExecutionAssumption, Zenon DEF Init, ExecutionAssumption, IsBatch
<1>2. PlanRight(batch, plan) /\ Pieces = DOMAIN batch
  BY <1>1, PlanIsRight, Zenon DEF Pieces
<1>3. /\ ver = start /\ val = [r \in Records |-> [s \in SlotIds |-> OldValue(start[r][s])]]
      /\ scratch = [i \in 0 .. Cardinality(Submitted(batch)) - 1 |-> [ver |-> Epoch - 1, val |-> OldValue(Epoch - 1)]]
      /\ dirty = {} /\ counter = 0
  BY Zenon DEF Init
<1>4. /\ at = [p \in Pieces |-> [r \in Records |-> "idle"]]
      /\ DOMAIN seen = Pieces /\ DOMAIN loc = Pieces /\ DOMAIN got = Pieces
      /\ \A p \in Pieces : /\ DOMAIN seen[p] = Records /\ DOMAIN loc[p] = Records
                           /\ DOMAIN got[p] = Records
  BY Zenon DEF Init, ForEach
<1>5. \A p \in Pieces, r \in Records : at[p][r] = "idle"
  BY <1>4, Zenon
<1>6. \A r \in Records, s \in SlotIds : ver[r][s] = start[r][s] /\ val[r][s] = OldValue(start[r][s])
  BY <1>3, Zenon
<1>7. \A r \in Records : WriteSlot(start[r]) \in SlotIds /\ Newest(start[r]) \in SlotIds
  BY Zenon DEF WriteSlot, Newest, SlotIds
<1>8. Shaped
  <2>1. start \in [Records -> [SlotIds -> 0 .. Epoch - 1]]
    BY <1>1, ExecutionAssumption, ZenonT(40) DEF ExecutionAssumption
  <2>2. DOMAIN ver = Records /\ \A r \in Records : DOMAIN ver[r] = SlotIds
    BY <2>1, <1>3, ZenonT(40)
  <2>3. DOMAIN val = Records /\ \A r \in Records : DOMAIN val[r] = SlotIds
    BY <1>3, Zenon
  <2>4. /\ DOMAIN scratch = 0 .. Cardinality(Submitted(batch)) - 1
        /\ \A i \in DOMAIN scratch : DOMAIN scratch[i] = {"ver", "val"}
    BY <1>3, Zenon
  <2> QED BY <2>2, <2>3, <2>4, ZenonT(40) DEF Shaped
<1>9. ExecTypes
  <2>1. at \in [Pieces -> [Records -> Steps]]
    BY <1>4, Zenon DEF Steps
  <2>2. "idle" \notin Reading /\ "idle" \notin Writing
    BY Zenon DEF Reading, Writing
  <2>3. counter \in Nat
    BY <1>3, Zenon
  <2> QED BY <1>1, <1>2, <1>4, <1>5, <1>8, <2>1, <2>2, <2>3, ZenonT(40) DEF ExecTypes
<1>10. Unclaimed
  BY <1>5, Zenon DEF Unclaimed
<1>11. CommittedKept
  BY <1>6, <1>7, Zenon DEF CommittedKept
<1>12. \A p \in Pieces, r \in Records : /\ at[p][r] # "done" /\ at[p][r] \notin Chosen
                                        /\ \A old : ValueOf(p, r, old) = old
  BY <1>5, Zenon DEF Chosen, ValueOf, Stored
<1>13. SlotFollows
  <2>1. ASSUME NEW r \in Records, NEW p \in Pieces
        PROVE  LET s == WriteSlot(start[r])
               IN  /\ ver[r][s] = IF at[p][r] = "done" THEN Epoch ELSE start[r][s]
                   /\ val[r][s] = ValueOf(p, r, OldValue(start[r][s]))
    <3>1. ValueOf(p, r, OldValue(start[r][WriteSlot(start[r])])) = OldValue(start[r][WriteSlot(start[r])])
      BY <1>12, Zenon
    <3> QED BY <3>1, <1>6, <1>7, <1>12, ZenonT(40)
  <2> QED BY <2>1, <1>6, <1>7, ZenonT(40) DEF SlotFollows
<1>14. ElementFollows
  <2> SUFFICES ASSUME NEW p \in Pieces, NEW r \in Records, WritesTo(batch, p, r), ~LastWriter(batch, p, r)
               PROVE  LET e == scratch[plan[p].write[r]]
                      IN  /\ e.ver = IF at[p][r] = "done" THEN Epoch ELSE Epoch - 1
                          /\ e.val = IF machine = "cpu" THEN OldValue(Epoch - 1)
                                     ELSE ValueOf(p, r, OldValue(Epoch - 1))
    BY Zenon DEF ElementFollows
  <2>1. plan[p].write[r] \in DOMAIN scratch
    <3>1. r \in WriteSet(batch[p])
      BY Zenon DEF WritesTo
    <3> QED BY <3>1, <1>9, WriteIsLast, ZenonT(40)
  <2>2. \A i \in DOMAIN scratch : scratch[i].ver = Epoch - 1 /\ scratch[i].val = OldValue(Epoch - 1)
    BY <1>3, Zenon
  <2> QED BY <2>1, <2>2, <1>12, ZenonT(40)
<1>15. Located
  BY <1>5, Zenon DEF Located, LocatedAt
<1>16. GotSerial
  BY <1>5, Zenon DEF GotSerial, GotAt, Writing
<1>17. DirtyChosen
  <2>1. \A r \in Records : ~HasChosen(r)
    BY <1>12, Zenon DEF HasChosen
  <2> QED BY <2>1, <1>3, ZenonT(40) DEF DirtyChosen
<1> QED BY <1>9, <1>10, <1>11, <1>13, <1>14, <1>15, <1>16, <1>17, ZenonT(40) DEF ExecInv

(* Every step keeps it.                                                    *)
LEMMA NextKeeps == ExecInv /\ [Next]_vars => ExecInv'
<1> SUFFICES ASSUME ExecInv, [Next]_vars PROVE ExecInv'
  BY Zenon
<1>1. CASE Claim
  BY <1>1, ClaimKeeps, Zenon
<1>2. ASSUME NEW p \in Pieces, TurnTo(p) PROVE ExecInv'
  BY <1>2, TurnToKeeps, ZenonT(40)
<1>3. ASSUME UNCHANGED vars PROVE ExecInv'
  <2>1. /\ machine' = machine /\ batch' = batch /\ plan' = plan /\ start' = start /\ ver' = ver /\ val' = val
        /\ scratch' = scratch /\ dirty' = dirty /\ counter' = counter /\ at' = at /\ seen' = seen
        /\ loc' = loc /\ got' = got
    BY <1>3, Zenon DEF vars
  <2>2. Pieces' = Pieces
    BY <2>1, ZenonT(40) DEF Pieces
  <2>3. ExecTypes' /\ Unclaimed' /\ CommittedKept'
    BY <2>1, <2>2, ZenonT(40) DEF ExecInv, ExecTypes, Shaped, Unclaimed, CommittedKept
  <2>4. SlotFollows' /\ ElementFollows' /\ DirtyChosen'
    BY <2>1, <2>2, ZenonT(40) DEF ExecInv, SlotFollows, ElementFollows, ValueOf, DirtyChosen, HasChosen
  <2>5. ASSUME NEW q \in Pieces, NEW s \in Records PROVE LocatedAt(q, s)' /\ GotAt(q, s)'
    <3>1. LocatedAt(q, s) /\ GotAt(q, s)
      BY Zenon DEF ExecInv, Located, GotSerial
    <3>2. LocatedAt(q, s)'
      BY <2>1, <3>1, ZenonT(40) DEF LocatedAt, ReadAt, WriteAt, VersionAt
    <3>3. GotAt(q, s)'
      BY <2>1, <3>1, ZenonT(40) DEF GotAt, Expected, SerialValue, WritersBefore, Committed
    <3> QED BY <3>2, <3>3, Zenon
  <2> QED BY <2>2, <2>3, <2>4, <2>5, ZenonT(40) DEF ExecInv, Located, GotSerial
<1>4. ASSUME NEW p \in Pieces, Step(p) PROVE ExecInv'
  <2>1. PICK r \in Records :
          \/ LoadVersion1(p, r) \/ LoadVersion2(p, r) \/ LoadVersions(p, r) \/ TakeElement(p, r)
          \/ Spin(p, r) \/ Wait(p, r) \/ ReadValue(p, r)
          \/ Choose(p, r) \/ StoreBegin(p, r) \/ StoreEnd(p, r) \/ Publish(p, r)
    BY <1>4, Zenon DEF Step
  <2>2. CASE LoadVersion1(p, r)
    BY <2>2, LoadVersion1Keeps, ZenonT(40)
  <2>3. CASE LoadVersion2(p, r)
    BY <2>3, LoadVersion2Keeps, ZenonT(40)
  <2>4. CASE LoadVersions(p, r)
    BY <2>4, LoadVersionsKeeps, Zenon
  <2>5. CASE TakeElement(p, r)
    BY <2>5, TakeElementKeeps, Zenon
  <2>6. CASE Spin(p, r)
    BY <2>6, <1>3, ZenonT(40) DEF Spin
  <2>7. CASE Wait(p, r)
    BY <2>7, WaitKeeps, Zenon
  <2>8. CASE ReadValue(p, r)
    BY <2>8, ReadValueKeeps, Zenon
  <2>9. CASE Choose(p, r)
    BY <2>9, ChooseKeeps, Zenon
  <2>10. CASE StoreBegin(p, r)
    BY <2>10, StoreBeginKeeps, Zenon
  <2>11. CASE StoreEnd(p, r)
    BY <2>11, StoreEndKeeps, Zenon
  <2>12. CASE Publish(p, r)
    BY <2>12, PublishKeeps, Zenon
  <2> QED BY <2>1, <2>2, <2>3, <2>4, <2>5, <2>6, <2>7, <2>8, <2>9, <2>10, <2>11, <2>12, ZenonT(40)
<1>5. CASE Return
  BY <1>5, <1>3, Zenon DEF Return
<1>6. CASE UNCHANGED vars
  BY <1>6, <1>3, ZenonT(40)
<1> QED BY <1>1, <1>2, <1>4, <1>5, <1>6, ZenonT(40) DEF Next

(* The invariant of the execution.                                         *)
LEMMA ExecInvHolds == Spec => []ExecInv
BY InitHolds, NextKeeps, PTL DEF Spec

(* What a piece has read, in one state.                                    *)
LEMMA ReadIsExpected ==
    ASSUME ExecInv, NEW p \in Pieces, NEW r \in ReadSet(batch[p]), at[p][r] = "done"
    PROVE  got[p][r] = Expected(p, r)
<1>0. r \in Records
  <2>1. IsBatch(batch)
    BY ZenonT(40) DEF ExecInv, ExecTypes
  <2> QED BY <2>1, SetsOfRecords, Zenon DEF Pieces
<1>1. GotAt(p, r)
  BY <1>0, ZenonT(40) DEF ExecInv, GotSerial
<1> QED BY <1>1, Zenon DEF GotAt

(* On the GPU every read of every piece, in every interleaving of the      *)
(* resident warps, returns the value of the serial order:                  *)
(* gpuReadFromTable*, under the planner's locations and no locks.          *)
THEOREM EpochReadsSerial == Spec => []ReadsSerial
<1>1. ExecInv => ReadsSerial
  BY ReadIsExpected, Zenon DEF ReadsSerial, ReadSerially, Expected
<1> QED BY <1>1, ExecInvHolds, PTL

(* On the CPU every read that readFromTable takes from the record, before  *)
(* or after the epoch's last write to it, does, in every interleaving of   *)
(* the threads.                                                            *)
THEOREM EpochRecordReadsSerial == Spec => []RecordReadsSerial
<1>1. ExecInv => RecordReadsSerial
  BY ReadIsExpected, Zenon DEF RecordReadsSerial, ReadSerially, Expected
<1> QED BY <1>1, ExecInvHolds, PTL

(* The epoch never touches the committed version of a record: the slot     *)
(* that writeToTable and gpuWriteToTable* choose is always the other one.  *)
THEOREM EpochKeepsCommitted == Spec => []CommittedKept
<1>1. ExecInv => CommittedKept
  BY ZenonT(40) DEF ExecInv
<1> QED BY <1>1, ExecInvHolds, PTL

(* When the kernel returns or the threads are joined, each written record  *)
(* holds the last writer's value under the epoch's tag in the slot that    *)
(* was older, the GPU has marked that slot and no other dirty, and the     *)
(* rest is as it was.                                                      *)
THEOREM EpochLeavesSerialState == Spec => []LeavesSerialState
<1>1. ExecInv => LeavesSerialState
  <2> SUFFICES ASSUME ExecInv, Finished
               PROVE  LET written == {r \in Records : WritersBefore(Len(batch) + 1, r) # {}}
                      IN  /\ \A r \in Records, s \in SlotIds :
                               IF r \in written /\ s = WriteSlot(start[r])
                               THEN /\ ver[r][s] = Epoch
                                    /\ val[r][s] = NewValue(Max(WritersBefore(Len(batch) + 1, r)))
                               ELSE ver[r][s] = start[r][s] /\ val[r][s] = OldValue(start[r][s])
                          /\ dirty = {<<r, WriteSlot(start[r])>> : r \in {x \in written : machine = "gpu"}}
    BY Zenon DEF LeavesSerialState
  <2> DEFINE W(r) == WritersBefore(Len(batch) + 1, r)
             written == {r \in Records : W(r) # {}}
  <2>1. IsBatch(batch) /\ start \in Starts /\ Pieces = DOMAIN batch /\ \A p \in Pieces : p \in Nat
    BY SetsOfRecords, Zenon DEF ExecInv, ExecTypes, Pieces
  <2>2. \A r : W(r) = {p \in Pieces : WritesTo(batch, p, r)}
    <3>1. 1 .. (Len(batch) + 1) - 1 = Pieces
      BY <2>1 DEF IsBatch
    <3> QED BY <3>1, <2>1, ZenonT(40) DEF WritersBefore, WritesTo
  <2>3. \A p \in Pieces, r \in Records : at[p][r] = "done"
    BY Zenon DEF Finished, PieceDone
  <2>4. ASSUME NEW r \in Records, W(r) # {}
        PROVE  /\ \E q \in Pieces : LastWriter(batch, q, r)
               /\ \A q \in Pieces : LastWriter(batch, q, r) => Max(W(r)) = q
    <3>1. \E q \in Pieces : LastWriter(batch, q, r)
      BY <2>1, <2>2, <2>4, LastWriterExists, ZenonT(40)
    <3>2. ASSUME NEW q \in Pieces, LastWriter(batch, q, r) PROVE Max(W(r)) = q
      <4>1. q \in W(r) /\ (\A y \in W(r) : y <= q) /\ W(r) \subseteq Nat
        BY <2>1, <2>2, <3>2, ZenonT(40) DEF LastWriter
      <4> HIDE DEF W
      <4>2. \A x \in W(r) : (\A y \in W(r) : x >= y) => x = q
        BY <4>1
      <4>3. q \in W(r) /\ \A y \in W(r) : q >= y
        BY <4>1, Zenon
      <4> QED BY <4>2, <4>3, ZenonT(40) DEF Max
    <3> QED BY <3>1, <3>2, ZenonT(40)
  <2>5. ASSUME NEW r \in Records, NEW s \in SlotIds
        PROVE  IF r \in written /\ s = WriteSlot(start[r])
               THEN ver[r][s] = Epoch /\ val[r][s] = NewValue(Max(W(r)))
               ELSE ver[r][s] = start[r][s] /\ val[r][s] = OldValue(start[r][s])
    <3>1. CASE s # WriteSlot(start[r])
      <4>1. s = Newest(start[r])
        BY <3>1, <2>1, StartTags, ZenonT(40)
      <4>2. ver[r][Newest(start[r])] = start[r][Newest(start[r])]
            /\ val[r][Newest(start[r])] = OldValue(start[r][Newest(start[r])])
        BY Zenon DEF ExecInv, CommittedKept
      <4> QED BY <3>1, <4>1, <4>2, Zenon
    <3>2. CASE s = WriteSlot(start[r]) /\ r \in written
      <4>1. PICK q \in Pieces : LastWriter(batch, q, r)
        BY <3>2, <2>4, Zenon
      <4>2. Max(W(r)) = q
        BY <3>2, <4>1, <2>4, ZenonT(40)
      <4>3. /\ ver[r][s] = IF at[q][r] = "done" THEN Epoch ELSE start[r][s]
            /\ val[r][s] = ValueOf(q, r, OldValue(start[r][s]))
        BY <3>2, <4>1, ZenonT(40) DEF ExecInv, SlotFollows
      <4>4. at[q][r] = "done"
        BY <2>3, ZenonT(40)
      <4>5. ver[r][s] = Epoch /\ val[r][s] = NewValue(q)
        BY <4>3, <4>4, ZenonT(40) DEF ValueOf, Stored
      <4> QED BY <3>2, <4>2, <4>5, ZenonT(40)
    <3>3. CASE s = WriteSlot(start[r]) /\ r \notin written
      <4>1. \A p \in Pieces : ~WritesTo(batch, p, r)
        BY <3>3, <2>2, ZenonT(40)
      <4> QED BY <3>3, <4>1, ZenonT(40) DEF ExecInv, SlotFollows
    <3> QED BY <3>1, <3>2, <3>3, ZenonT(40)
  <2>6. dirty = {<<r, WriteSlot(start[r])>> : r \in {x \in written : machine = "gpu"}}
    <3>1. dirty = {<<r, WriteSlot(start[r])>> : r \in {x \in Records : machine = "gpu" /\ HasChosen(x)}}
      BY Zenon DEF ExecInv, DirtyChosen
    <3>2. \A x \in Records : HasChosen(x) <=> W(x) # {}
      <4>1. ASSUME NEW x \in Records, W(x) # {} PROVE HasChosen(x)
        <5>1. "done" \in Chosen
          BY Zenon DEF Chosen
        <5> QED BY <5>1, <4>1, <2>3, <2>4, ZenonT(40) DEF HasChosen
      <4>2. ASSUME NEW x \in Records, HasChosen(x) PROVE W(x) # {}
        BY <4>2, <2>2, ZenonT(40) DEF HasChosen, LastWriter
      <4> QED BY <4>1, <4>2, ZenonT(40)
    <3>3. {x \in Records : machine = "gpu" /\ HasChosen(x)} = {x \in written : machine = "gpu"}
      BY <3>2, Zenon
    <3> QED BY <3>1, <3>3, Zenon
  <2> QED BY <2>5, <2>6, Zenon
<1> QED BY <1>1, ExecInvHolds, PTL
================================================================================
