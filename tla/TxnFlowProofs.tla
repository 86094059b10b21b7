---------------------------- MODULE TxnFlowProofs ----------------------------
(***************************************************************************)
(* Proofs about TxnFlow, for any number of transactions, epochs, types and *)
(* sizes: every consumer of an epoch gets that epoch's transactions, a     *)
(* packed copy is as long as its transactions, and no memory is written    *)
(* under a copy of it.                                                     *)
(***************************************************************************)
EXTENDS TxnFlow, WellFoundedInduction, TLAPS

(***************************************************************************)
(* Offsets.                                                                *)
(***************************************************************************)

\* The least number principle.
LEMMA Least ==
    ASSUME NEW n \in Nat, NEW S, S \subseteq 0 .. n, S # {}
    PROVE  \E m \in S : \A q \in S : m <= q
<1>1. S \subseteq Nat
  OBVIOUS
<1>2. PICK m \in S : \A q \in S : ~(<<q, m>> \in OpToRel(<, Nat))
  BY <1>1, NatLessThanWellFounded, WFMin, Zenon
<1>3. ASSUME NEW q \in S PROVE m <= q
  <2>1. ~(q < m)
    BY <1>1, <1>2, Zenon DEF OpToRel
  <2> QED BY <1>1, <2>1
<1> QED BY <1>3, Zenon

\* No size is larger than the one Capacity counts with.
LEMMA CapacityIs ==
    \E M \in Nat : /\ Capacity = NTxns * M
                   /\ \A s \in {InputSize, ParamSize, PlanSize}, t \in Types : s[t] <= M
<1>1. kBaseTxnSize \in Nat /\ NTxns \in Nat
  BY TxnFlowAssumption, Zenon DEF TxnFlowAssumption
<1>2. \A s \in {InputSize, ParamSize, PlanSize}, t \in Types : s[t] <= kBaseTxnSize
  BY <1>1, TxnFlowAssumption DEF TxnFlowAssumption
<1> QED BY <1>1, <1>2 DEF Capacity

\* The prefix sums of the transactions' sizes, as generateTxns and
\* buildPackedTxnArrayGpu add them up.
Sums(q, size) ==
    /\ q \in [0 .. NTxns -> Nat]
    /\ q[0] = 0
    /\ \A i \in Txns : q[i + 1] = q[i] + size[i]

\* Some function has the sums of the sizes.
LEMMA SumsExist ==
    ASSUME NEW size \in [Txns -> Nat]
    PROVE  \E q : q = [i \in 0 .. NTxns |-> IF i = 0 THEN 0 ELSE q[i - 1] + size[i - 1]]
<1> DEFINE Part(n, q) == /\ q \in [0 .. n -> Nat]
                         /\ \A i \in 0 .. n : q[i] = IF i = 0 THEN 0 ELSE q[i - 1] + size[i - 1]
           Bad == {n \in 0 .. NTxns : ~ \E q : Part(n, q)}
<1>1. NTxns \in Nat
  BY TxnFlowAssumption, Zenon DEF TxnFlowAssumption
<1>2. Part(0, [i \in 0 .. 0 |-> 0])
  OBVIOUS
<1>3. ASSUME NEW n \in 1 .. NTxns, NEW q, Part(n - 1, q)
      PROVE  Part(n, [i \in 0 .. n |-> IF i = n THEN q[n - 1] + size[n - 1] ELSE q[i]])
  <2>1. n - 1 \in Txns /\ size[n - 1] \in Nat /\ q[n - 1] \in Nat
    BY <1>1, <1>3 DEF Txns
  <2>2. \A i \in 0 .. n : i # n => i \in 0 .. n - 1 /\ q[i] \in Nat
    BY <1>1, <1>3
  <2> QED BY <1>1, <1>3, <2>1, <2>2
<1>4. ASSUME Bad # {} PROVE FALSE
  <2>1. PICK m \in Bad : \A k \in Bad : m <= k
    <3>1. Bad \subseteq 0 .. NTxns
      BY Zenon
    <3> HIDE DEF Bad
    <3> QED BY <1>1, <1>4, <3>1, Least, Zenon
  <2>2. m # 0
    BY <1>2, Zenon
  <2>3. m - 1 \in 0 .. NTxns /\ m - 1 \notin Bad /\ m \in 1 .. NTxns
    <3>1. m \in 0 .. NTxns
      BY Zenon
    <3> HIDE DEF Bad
    <3> QED BY <1>1, <2>1, <2>2, <3>1
  <2>4. PICK q : Part(m - 1, q)
    BY <2>3, Zenon
  <2> HIDE DEF Part
  <2>5. \E r : Part(m, r)
    BY <2>3, <2>4, <1>3, Zenon
  <2> QED BY <2>1, <2>5, Zenon
<1>5. PICK q : Part(NTxns, q)
  BY <1>1, <1>4
<1>6. q = [i \in 0 .. NTxns |-> IF i = 0 THEN 0 ELSE q[i - 1] + size[i - 1]]
  BY <1>1, <1>5, Zenon
<1> QED BY <1>6, Zenon

\* PrefixSums has the sums.
LEMMA PrefixSumsAre ==
    ASSUME NEW size \in [Txns -> Nat]
    PROVE  Sums(PrefixSums(size), size)
<1> DEFINE q == PrefixSums(size)
<1>1. q = [i \in 0 .. NTxns |-> IF i = 0 THEN 0 ELSE q[i - 1] + size[i - 1]]
  BY SumsExist, Zenon DEF PrefixSums
<1>2. NTxns \in Nat
  BY TxnFlowAssumption, Zenon DEF TxnFlowAssumption
<1> HIDE DEF q
<1>3. \A i \in Txns : /\ i \in 0 .. NTxns /\ i + 1 \in 0 .. NTxns /\ i + 1 # 0 /\ (i + 1) - 1 = i
                      /\ i \in Nat
  BY <1>2 DEF Txns
<1>4. q[0] = 0 /\ \A i \in Txns : q[i + 1] = q[i] + size[i]
  <2>1. \A i \in 0 .. NTxns : q[i] = IF i = 0 THEN 0 ELSE q[i - 1] + size[i - 1]
    BY <1>1, Zenon
  <2> QED BY <1>2, <1>3, <2>1
<1> DEFINE Bad == {n \in 0 .. NTxns : q[n] \notin Nat}
<1>5. ASSUME Bad # {} PROVE FALSE
  <2>1. PICK m \in Bad : \A k \in Bad : m <= k
    <3>1. Bad \subseteq 0 .. NTxns
      BY Zenon
    <3> HIDE DEF Bad
    <3> QED BY <1>2, <1>5, <3>1, Least, Zenon
  <2>2. m # 0 /\ m \in 0 .. NTxns
    BY <1>4
  <2>3. m - 1 \in Txns /\ m - 1 \notin Bad /\ (m - 1) + 1 = m
    <3> HIDE DEF Bad
    <3> QED BY <1>2, <2>1, <2>2 DEF Txns
  <2>4. q[m - 1] \in Nat
    BY <2>3, <1>3, Zenon
  <2>5. q[m] \in Nat
    BY <2>3, <2>4, <1>4
  <2> QED BY <2>1, <2>5, Zenon
<1>6. q \in [0 .. NTxns -> Nat]
  BY <1>1, <1>5, Zenon
<1> QED BY <1>4, <1>6, Zenon DEF Sums, q

\* Sums of positive sizes grow from one transaction to the next.
LEMMA SumsGrow ==
    ASSUME NEW size \in [Txns -> Nat \ {0}], NEW q, Sums(q, size),
           NEW i \in 0 .. NTxns, NEW j \in 0 .. NTxns, i < j
    PROVE  q[i] < q[j]
<1>1. NTxns \in Nat
  BY TxnFlowAssumption, Zenon DEF TxnFlowAssumption
<1> DEFINE Bad == {k \in 0 .. NTxns : i < k /\ ~(q[i] < q[k])}
<1>2. ASSUME Bad # {} PROVE FALSE
  <2>1. PICK m \in Bad : \A k \in Bad : m <= k
    <3>1. Bad \subseteq 0 .. NTxns
      BY Zenon
    <3> HIDE DEF Bad
    <3> QED BY <1>1, <1>2, <3>1, Least, Zenon
  <2>2. m \in 0 .. NTxns /\ i < m /\ ~(q[i] < q[m])
    BY Zenon
  <2>3. m - 1 \in Txns /\ m - 1 \notin Bad /\ (m - 1) + 1 = m
    <3> HIDE DEF Bad
    <3> QED BY <1>1, <2>1, <2>2 DEF Txns
  <2>4. q[m] = q[m - 1] + size[m - 1] /\ size[m - 1] \in Nat \ {0}
    BY <2>3, Zenon DEF Sums
  <2>5. q[i] \in Nat /\ q[m - 1] \in Nat /\ m - 1 \in 0 .. NTxns
    BY <1>1, <2>3 DEF Sums, Txns
  <2>6. i = m - 1 \/ q[i] < q[m - 1]
    BY <1>1, <2>2, <2>3, <2>5
  <2> QED BY <2>2, <2>4, <2>5, <2>6
<1> QED BY <1>2, Zenon

\* Sums of sizes of at most M are at most M for each transaction.
LEMMA SumsBounded ==
    ASSUME NEW size \in [Txns -> Nat], NEW q, Sums(q, size), NEW M \in Nat,
           \A i \in Txns : size[i] <= M
    PROVE  \A n \in 0 .. NTxns : q[n] <= n * M
<1>1. NTxns \in Nat
  BY TxnFlowAssumption, Zenon DEF TxnFlowAssumption
<1> DEFINE Bad == {n \in 0 .. NTxns : ~(q[n] <= n * M)}
<1>2. ASSUME Bad # {} PROVE FALSE
  <2>1. PICK m \in Bad : \A k \in Bad : m <= k
    <3>1. Bad \subseteq 0 .. NTxns
      BY Zenon
    <3> HIDE DEF Bad
    <3> QED BY <1>1, <1>2, <3>1, Least, Zenon
  <2>2. m \in 0 .. NTxns /\ ~(q[m] <= m * M)
    BY Zenon
  <2>3. m # 0
    BY <2>2 DEF Sums
  <2>4. m - 1 \in Txns /\ m - 1 \in 0 .. NTxns /\ m - 1 \notin Bad /\ (m - 1) + 1 = m
    <3> HIDE DEF Bad
    <3> QED BY <1>1, <2>1, <2>2, <2>3 DEF Txns
  <2>5. q[m] = q[m - 1] + size[m - 1] /\ size[m - 1] \in Nat /\ q[m - 1] \in Nat
    BY <2>4, Zenon DEF Sums
  <2>6. q[m - 1] <= (m - 1) * M /\ size[m - 1] <= M
    BY <2>4, Zenon
  <2>7. (m - 1) * M + M = m * M /\ (m - 1) * M \in Int /\ m * M \in Int
    BY <2>2
  <2> QED BY <2>2, <2>5, <2>6, <2>7
<1> QED BY <1>2, Zenon

Sizes == {InputSize, ParamSize, PlanSize}

\* Where transaction i of epoch e is, in an array that gives type t s[t] bytes.
Place(c, ty, s, e) ==
    IF c.packed THEN PrefixSums([i \in Txns |-> s[ty[e][i]]]) ELSE [i \in 0 .. NTxns |-> i]

\* What the proofs use of a layout: the transactions are at different offsets,
\* all within the capacity and below the total.
Layout(at) ==
    /\ at \in [0 .. NTxns -> 0 .. Capacity]
    /\ at[0] = 0
    /\ \A i, j \in Txns : at[i] = at[j] => i = j
    /\ \A i \in Txns : at[i] \in 0 .. at[NTxns] - 1

\* Every array of every epoch is laid out that way.
LEMMA PlacesAre ==
    ASSUME NEW c, c.packed \in BOOLEAN, NEW ty \in [1 .. NEpochs -> [Txns -> Types]],
           NEW s \in Sizes, NEW e \in 1 .. NEpochs
    PROVE  Layout(Place(c, ty, s, e))
<1>1. NTxns \in Nat \ {0} /\ s \in [Types -> Nat \ {0}]
  <2>1. s \in [Types -> 1 .. kBaseTxnSize] /\ kBaseTxnSize \in Nat /\ NTxns \in Nat \ {0}
    BY TxnFlowAssumption, Zenon DEF TxnFlowAssumption, Sizes
  <2> QED BY <2>1
<1>2. PICK M \in Nat : /\ Capacity = NTxns * M
                       /\ \A t \in Types : s[t] <= M
  BY CapacityIs, Zenon DEF Sizes
<1>3. ASSUME NEW at \in [0 .. NTxns -> Nat], at[0] = 0,
             \A i, j \in 0 .. NTxns : i < j => at[i] < at[j],
             at[NTxns] <= Capacity
      PROVE  Layout(at)
  <2>1. Txns \subseteq 0 .. NTxns /\ NTxns \in 0 .. NTxns /\ (\A i \in Txns : i < NTxns /\ i \in Nat)
    BY <1>1 DEF Txns
  <2>2. Capacity \in Nat
    BY <1>1, <1>2
  <2>3. \A i \in 0 .. NTxns : at[i] <= at[NTxns]
    <3> SUFFICES ASSUME NEW i \in 0 .. NTxns PROVE at[i] <= at[NTxns]
      BY Zenon
    <3>1. i = NTxns \/ i < NTxns
      BY <1>1
    <3> QED BY <3>1, <2>1, <1>3
  <2>4. \A i \in 0 .. NTxns : at[i] \in 0 .. Capacity
    BY <2>1, <2>2, <2>3, <1>3
  <2>5. ASSUME NEW i \in Txns, NEW j \in Txns, at[i] = at[j] PROVE i = j
    <3>1. i < j \/ j < i \/ i = j
      BY <2>1
    <3>2. at[i] \in Nat /\ at[j] \in Nat
      BY <2>1, Zenon
    <3> QED BY <3>1, <3>2, <2>1, <2>5, <1>3
  <2>6. ASSUME NEW i \in Txns PROVE at[i] \in 0 .. at[NTxns] - 1
    <3>1. at[i] < at[NTxns]
      BY <2>1, <1>3, Zenon
    <3> QED BY <3>1, <2>1
  <2> QED BY <2>4, <2>5, <2>6, <1>3, Zenon DEF Layout
<1>4. CASE c.packed
  <2> DEFINE size == [i \in Txns |-> s[ty[e][i]]]
             at == PrefixSums(size)
  <2>1. size \in [Txns -> Nat \ {0}] /\ \A i \in Txns : size[i] <= M
    BY <1>1, <1>2, Zenon
  <2> HIDE DEF size
  <2>2. Sums(at, size)
    BY <2>1, PrefixSumsAre, Zenon
  <2> HIDE DEF at
  <2>3. \A i, j \in 0 .. NTxns : i < j => at[i] < at[j]
    BY <2>1, <2>2, SumsGrow, Zenon
  <2>4. at[NTxns] <= Capacity
    <3>1. \A n \in 0 .. NTxns : at[n] <= n * M
      BY <2>1, <2>2, SumsBounded, Zenon
    <3> QED BY <3>1, <1>1, <1>2
  <2>5. Layout(at)
    BY <1>3, <2>2, <2>3, <2>4, Zenon DEF Sums
  <2> QED BY <2>5, <1>4, Zenon DEF at, size, Place
<1>5. CASE ~c.packed
  <2> DEFINE at == [i \in 0 .. NTxns |-> i]
  <2>0. M > 0
    <3>1. PICK t \in Types : TRUE
      BY TxnFlowAssumption, ZenonT(40) DEF TxnFlowAssumption
    <3> QED BY <3>1, <1>1, <1>2
  <2>1. NTxns <= Capacity
    BY <2>0, <1>1, <1>2
  <2>2. /\ at \in [0 .. NTxns -> Nat] /\ at[0] = 0 /\ at[NTxns] <= Capacity
        /\ \A i, j \in 0 .. NTxns : i < j => at[i] < at[j]
    BY <2>1, <1>1
  <2>3. Layout(at)
    BY <1>3, <2>2, Zenon
  <2> QED BY <2>3, <1>5, Zenon DEF Place
<1> QED BY <1>4, <1>5, Zenon

(***************************************************************************)
(* The schedule: what runEpoch has done when it is at a step.              *)
(***************************************************************************)

StepSet == {<<"link", "input">>, <<"start", "input">>, <<"finish", "input">>,
            <<"build", "index_output">>, <<"build", "initialization_output">>,
            <<"index", "host">>, <<"start", "init">>, <<"finish", "init">>,
            <<"start", "param">>, <<"submit", "host">>, <<"remap", "host">>,
            <<"plan", "host">>, <<"start", "plan">>, <<"finish", "param">>,
            <<"finish", "plan">>, <<"execute", "host">>}

After(q, x, y) == \E a, b \in 1 .. Len(q) : a < b /\ q[a] = x /\ q[b] = y

\* What the two benchmarks' orders of the steps have in common.
Scheduled(q, c) ==
    /\ Len(q) \in Nat \ {0}
    /\ \A i, j \in 1 .. Len(q) : q[i] = q[j] => i = j
    /\ \A k \in 1 .. Len(q) : q[k] \in StepSet
    /\ q[Len(q)] = <<"execute", "host">>
    /\ After(q, <<"link", "input">>, <<"start", "input">>)
    /\ After(q, <<"start", "input">>, <<"finish", "input">>)
    /\ After(q, <<"finish", "input">>, <<"index", "host">>)
    /\ After(q, <<"index", "host">>, <<"submit", "host">>)
    /\ After(q, <<"submit", "host">>, <<"plan", "host">>)
    /\ After(q, <<"index", "host">>, <<"start", "param">>)
    /\ After(q, <<"start", "param">>, <<"finish", "param">>)
    /\ After(q, <<"plan", "host">>, <<"start", "plan">>)
    /\ After(q, <<"start", "plan">>, <<"finish", "plan">>)
    /\ After(q, <<"finish", "param">>, <<"execute", "host">>)
    /\ After(q, <<"finish", "plan">>, <<"execute", "host">>)
    /\ c.packed =>
         /\ After(q, <<"finish", "input">>, <<"build", "index_output">>)
         /\ After(q, <<"build", "index_output">>, <<"build", "initialization_output">>)
         /\ After(q, <<"build", "initialization_output">>, <<"index", "host">>)
    /\ ~c.packed => \A k \in 1 .. Len(q) : q[k][1] # "build"
    /\ c.hybrid =>
         /\ After(q, <<"submit", "host">>, <<"remap", "host">>)
         /\ After(q, <<"remap", "host">>, <<"execute", "host">>)
    /\ ~c.hybrid => \A k \in 1 .. Len(q) : q[k] # <<"remap", "host">>

\* YCSB's steps are in that order.
LEMMA YcsbPlain ==
    ASSUME NEW q, q = RunEpochYcsb, ~config.packed, ~config.hybrid
    PROVE  Scheduled(q, config)
<1>1. /\ Len(q) = 13
      /\ q[1] = <<"link", "input">> /\ q[2] = <<"start", "input">>
      /\ q[3] = <<"finish", "input">> /\ q[4] = <<"index", "host">>
      /\ q[5] = <<"start", "init">> /\ q[6] = <<"finish", "init">>
      /\ q[7] = <<"start", "param">> /\ q[8] = <<"submit", "host">>
      /\ q[9] = <<"plan", "host">> /\ q[10] = <<"start", "plan">>
      /\ q[11] = <<"finish", "param">> /\ q[12] = <<"finish", "plan">>
      /\ q[13] = <<"execute", "host">>
  BY DEF RunEpochYcsb
<1>2. \A i, j \in 1 .. Len(q) : q[i] = q[j] => i = j
  BY <1>1
<1>3. \A k \in 1 .. Len(q) : q[k] \in StepSet
  <2>0. Len(q) = 13
    BY <1>1, Zenon
  <2>1. \A k \in 1 .. Len(q) : q[k] \in
            {q[1], q[2], q[3], q[4], q[5], q[6], q[7], q[8], q[9], q[10], q[11],
             q[12], q[13]}
    BY <2>0
  <2>2. {q[1], q[2], q[3], q[4], q[5], q[6], q[7], q[8], q[9], q[10], q[11],
                q[12], q[13]} \subseteq StepSet
    BY <1>1 DEF StepSet
  <2> QED BY <2>1, <2>2, Zenon
<1>4. \A k \in 1 .. Len(q) : q[k][1] # "build" /\ q[k] # <<"remap", "host">>
  BY <1>1
<1>5. \A a, b \in 1 .. Len(q) : a < b => After(q, q[a], q[b])
  BY Zenon DEF After
<1>6. /\ After(q, <<"link", "input">>, <<"start", "input">>)
      /\ After(q, <<"start", "input">>, <<"finish", "input">>)
      /\ After(q, <<"finish", "input">>, <<"index", "host">>)
      /\ After(q, <<"index", "host">>, <<"submit", "host">>)
      /\ After(q, <<"submit", "host">>, <<"plan", "host">>)
      /\ After(q, <<"index", "host">>, <<"start", "param">>)
      /\ After(q, <<"start", "param">>, <<"finish", "param">>)
  BY <1>1, <1>5, SMTT(30)
<1>7. /\ After(q, <<"plan", "host">>, <<"start", "plan">>)
      /\ After(q, <<"start", "plan">>, <<"finish", "plan">>)
      /\ After(q, <<"finish", "param">>, <<"execute", "host">>)
      /\ After(q, <<"finish", "plan">>, <<"execute", "host">>)
  BY <1>1, <1>5, SMTT(30)
<1> QED BY <1>1, <1>2, <1>3, <1>4, <1>6, <1>7 DEF Scheduled

\* YCSB's steps with the stager are in that order.
LEMMA YcsbHybrid ==
    ASSUME NEW q, q = RunEpochYcsb, ~config.packed, config.hybrid
    PROVE  Scheduled(q, config)
<1>1. /\ Len(q) = 14
      /\ q[1] = <<"link", "input">> /\ q[2] = <<"start", "input">>
      /\ q[3] = <<"finish", "input">> /\ q[4] = <<"index", "host">>
      /\ q[5] = <<"start", "init">> /\ q[6] = <<"finish", "init">>
      /\ q[7] = <<"start", "param">> /\ q[8] = <<"submit", "host">>
      /\ q[9] = <<"remap", "host">> /\ q[10] = <<"plan", "host">>
      /\ q[11] = <<"start", "plan">> /\ q[12] = <<"finish", "param">>
      /\ q[13] = <<"finish", "plan">> /\ q[14] = <<"execute", "host">>
  BY DEF RunEpochYcsb
<1>2. \A i, j \in 1 .. Len(q) : q[i] = q[j] => i = j
  BY <1>1
<1>3. \A k \in 1 .. Len(q) : q[k] \in StepSet
  <2>0. Len(q) = 14
    BY <1>1, Zenon
  <2>1. \A k \in 1 .. Len(q) : q[k] \in
            {q[1], q[2], q[3], q[4], q[5], q[6], q[7], q[8], q[9], q[10], q[11],
             q[12], q[13], q[14]}
    BY <2>0
  <2>2. {q[1], q[2], q[3], q[4], q[5], q[6], q[7], q[8], q[9], q[10], q[11],
                q[12], q[13], q[14]} \subseteq StepSet
    BY <1>1 DEF StepSet
  <2> QED BY <2>1, <2>2, Zenon
<1>4. \A k \in 1 .. Len(q) : q[k][1] # "build"
  BY <1>1
<1>5. \A a, b \in 1 .. Len(q) : a < b => After(q, q[a], q[b])
  BY Zenon DEF After
<1>6. /\ After(q, <<"link", "input">>, <<"start", "input">>)
      /\ After(q, <<"start", "input">>, <<"finish", "input">>)
      /\ After(q, <<"finish", "input">>, <<"index", "host">>)
      /\ After(q, <<"index", "host">>, <<"submit", "host">>)
      /\ After(q, <<"submit", "host">>, <<"plan", "host">>)
      /\ After(q, <<"index", "host">>, <<"start", "param">>)
      /\ After(q, <<"start", "param">>, <<"finish", "param">>)
  BY <1>1, <1>5, SMTT(30)
<1>7. /\ After(q, <<"plan", "host">>, <<"start", "plan">>)
      /\ After(q, <<"start", "plan">>, <<"finish", "plan">>)
      /\ After(q, <<"finish", "param">>, <<"execute", "host">>)
      /\ After(q, <<"finish", "plan">>, <<"execute", "host">>)
      /\ After(q, <<"submit", "host">>, <<"remap", "host">>)
      /\ After(q, <<"remap", "host">>, <<"execute", "host">>)
  BY <1>1, <1>5, SMTT(30)
<1> QED BY <1>1, <1>2, <1>3, <1>4, <1>6, <1>7 DEF Scheduled

\* TPC-C's steps are in that order.
LEMMA TpccPlain ==
    ASSUME NEW q, q = RunEpochTpcc, config.packed, ~config.hybrid
    PROVE  Scheduled(q, config)
<1>1. /\ Len(q) = 15
      /\ q[1] = <<"link", "input">> /\ q[2] = <<"start", "input">>
      /\ q[3] = <<"finish", "input">> /\ q[4] = <<"build", "index_output">>
      /\ q[5] = <<"build", "initialization_output">> /\ q[6] = <<"index", "host">>
      /\ q[7] = <<"start", "init">> /\ q[8] = <<"finish", "init">>
      /\ q[9] = <<"submit", "host">> /\ q[10] = <<"plan", "host">>
      /\ q[11] = <<"start", "param">> /\ q[12] = <<"start", "plan">>
      /\ q[13] = <<"finish", "param">> /\ q[14] = <<"finish", "plan">>
      /\ q[15] = <<"execute", "host">>
  BY DEF RunEpochTpcc
<1>2. \A i, j \in 1 .. Len(q) : q[i] = q[j] => i = j
  BY <1>1
<1>3. \A k \in 1 .. Len(q) : q[k] \in StepSet
  <2>0. Len(q) = 15
    BY <1>1, Zenon
  <2>1. \A k \in 1 .. Len(q) : q[k] \in
            {q[1], q[2], q[3], q[4], q[5], q[6], q[7], q[8], q[9], q[10], q[11],
             q[12], q[13], q[14], q[15]}
    BY <2>0
  <2>2. {q[1], q[2], q[3], q[4], q[5], q[6], q[7], q[8], q[9], q[10], q[11],
                q[12], q[13], q[14], q[15]} \subseteq StepSet
    BY <1>1 DEF StepSet
  <2> QED BY <2>1, <2>2, ZenonT(40)
<1>4. \A k \in 1 .. Len(q) : q[k] # <<"remap", "host">>
  BY <1>1
<1>5. \A a, b \in 1 .. Len(q) : a < b => After(q, q[a], q[b])
  BY Zenon DEF After
<1>6. /\ After(q, <<"link", "input">>, <<"start", "input">>)
      /\ After(q, <<"start", "input">>, <<"finish", "input">>)
      /\ After(q, <<"finish", "input">>, <<"index", "host">>)
      /\ After(q, <<"index", "host">>, <<"submit", "host">>)
      /\ After(q, <<"submit", "host">>, <<"plan", "host">>)
      /\ After(q, <<"index", "host">>, <<"start", "param">>)
      /\ After(q, <<"start", "param">>, <<"finish", "param">>)
  BY <1>1, <1>5, SMTT(30)
<1>7. /\ After(q, <<"plan", "host">>, <<"start", "plan">>)
      /\ After(q, <<"start", "plan">>, <<"finish", "plan">>)
      /\ After(q, <<"finish", "param">>, <<"execute", "host">>)
      /\ After(q, <<"finish", "plan">>, <<"execute", "host">>)
  BY <1>1, <1>5, SMTT(30)
<1>8. /\ After(q, <<"finish", "input">>, <<"build", "index_output">>)
      /\ After(q, <<"build", "index_output">>, <<"build", "initialization_output">>)
      /\ After(q, <<"build", "initialization_output">>, <<"index", "host">>)
  BY <1>1, <1>5, SMTT(30)
<1> QED BY <1>1, <1>2, <1>3, <1>4, <1>6, <1>7, <1>8 DEF Scheduled

\* TPC-C's steps with the stager are in that order.
LEMMA TpccHybrid ==
    ASSUME NEW q, q = RunEpochTpcc, config.packed, config.hybrid
    PROVE  Scheduled(q, config)
<1>1. /\ Len(q) = 16
      /\ q[1] = <<"link", "input">> /\ q[2] = <<"start", "input">>
      /\ q[3] = <<"finish", "input">> /\ q[4] = <<"build", "index_output">>
      /\ q[5] = <<"build", "initialization_output">> /\ q[6] = <<"index", "host">>
      /\ q[7] = <<"start", "init">> /\ q[8] = <<"finish", "init">>
      /\ q[9] = <<"submit", "host">> /\ q[10] = <<"plan", "host">>
      /\ q[11] = <<"start", "param">> /\ q[12] = <<"start", "plan">>
      /\ q[13] = <<"finish", "param">> /\ q[14] = <<"finish", "plan">>
      /\ q[15] = <<"remap", "host">> /\ q[16] = <<"execute", "host">>
  BY DEF RunEpochTpcc
<1>2. \A i, j \in 1 .. Len(q) : q[i] = q[j] => i = j
  BY <1>1
<1>3. \A k \in 1 .. Len(q) : q[k] \in StepSet
  <2>0. Len(q) = 16
    BY <1>1, Zenon
  <2>1. \A k \in 1 .. Len(q) : q[k] \in
            {q[1], q[2], q[3], q[4], q[5], q[6], q[7], q[8], q[9], q[10], q[11],
             q[12], q[13], q[14], q[15], q[16]}
    BY <2>0
  <2>2. {q[1], q[2], q[3], q[4], q[5], q[6], q[7], q[8], q[9], q[10], q[11],
                q[12], q[13], q[14], q[15], q[16]} \subseteq StepSet
    BY <1>1 DEF StepSet
  <2> QED BY <2>1, <2>2, ZenonT(40)
<1>5. \A a, b \in 1 .. Len(q) : a < b => After(q, q[a], q[b])
  BY Zenon DEF After
<1>6. /\ After(q, <<"link", "input">>, <<"start", "input">>)
      /\ After(q, <<"start", "input">>, <<"finish", "input">>)
      /\ After(q, <<"finish", "input">>, <<"index", "host">>)
      /\ After(q, <<"index", "host">>, <<"submit", "host">>)
      /\ After(q, <<"submit", "host">>, <<"plan", "host">>)
      /\ After(q, <<"index", "host">>, <<"start", "param">>)
      /\ After(q, <<"start", "param">>, <<"finish", "param">>)
  BY <1>1, <1>5, SMTT(30)
<1>7. /\ After(q, <<"plan", "host">>, <<"start", "plan">>)
      /\ After(q, <<"start", "plan">>, <<"finish", "plan">>)
      /\ After(q, <<"finish", "param">>, <<"execute", "host">>)
      /\ After(q, <<"finish", "plan">>, <<"execute", "host">>)
      /\ After(q, <<"submit", "host">>, <<"remap", "host">>)
      /\ After(q, <<"remap", "host">>, <<"execute", "host">>)
  BY <1>1, <1>5, SMTT(30)
<1>8. /\ After(q, <<"finish", "input">>, <<"build", "index_output">>)
      /\ After(q, <<"build", "index_output">>, <<"build", "initialization_output">>)
      /\ After(q, <<"build", "initialization_output">>, <<"index", "host">>)
  BY <1>1, <1>5, SMTT(30)
<1> QED BY <1>1, <1>2, <1>3, <1>6, <1>7, <1>8 DEF Scheduled

\* The steps of this epoch that are done, and the one to do next.
Past == {RunEpoch[k] : k \in 1 .. pc - 1}
Now == RunEpoch[pc]

Bef(past, now, x, y) == now = y \/ y \in past => x \in past

Ordered(past, now) ==
    /\ now \in StepSet /\ now \notin past
    /\ Bef(past, now, <<"link", "input">>, <<"start", "input">>)
    /\ Bef(past, now, <<"start", "input">>, <<"finish", "input">>)
    /\ Bef(past, now, <<"finish", "input">>, <<"index", "host">>)
    /\ Bef(past, now, <<"index", "host">>, <<"submit", "host">>)
    /\ Bef(past, now, <<"submit", "host">>, <<"plan", "host">>)
    /\ Bef(past, now, <<"index", "host">>, <<"start", "param">>)
    /\ Bef(past, now, <<"start", "param">>, <<"finish", "param">>)
    /\ Bef(past, now, <<"plan", "host">>, <<"start", "plan">>)
    /\ Bef(past, now, <<"start", "plan">>, <<"finish", "plan">>)
    /\ Bef(past, now, <<"finish", "param">>, <<"execute", "host">>)
    /\ Bef(past, now, <<"finish", "plan">>, <<"execute", "host">>)
    /\ config.packed =>
         /\ Bef(past, now, <<"finish", "input">>, <<"build", "index_output">>)
         /\ Bef(past, now, <<"build", "index_output">>, <<"build", "initialization_output">>)
         /\ Bef(past, now, <<"build", "initialization_output">>, <<"index", "host">>)
    /\ ~config.packed => now[1] # "build"
    /\ config.hybrid =>
         /\ Bef(past, now, <<"submit", "host">>, <<"remap", "host">>)
         /\ Bef(past, now, <<"remap", "host">>, <<"execute", "host">>)
    /\ ~config.hybrid => now # <<"remap", "host">> /\ <<"remap", "host">> \notin past

\* Where runEpoch is tells what it has done.
LEMMA Schedule ==
    ASSUME epoch \in Nat \ {0}, config.packed \in BOOLEAN, config.hybrid \in BOOLEAN,
           pc \in 1 .. Len(RunEpoch)
    PROVE  /\ Len(RunEpoch) \in Nat \ {0}
           /\ Ordered(Past, Now) /\ Past \subseteq StepSet
           /\ pc = Len(RunEpoch) <=> Now = <<"execute", "host">>
<1> DEFINE q == RunEpoch
<1>1. Scheduled(q, config)
  <2>1. q = IF config.packed THEN RunEpochTpcc ELSE RunEpochYcsb
    BY DEF RunEpoch
  <2> HIDE DEF q
  <2> QED BY <2>1, YcsbPlain, YcsbHybrid, TpccPlain, TpccHybrid, Zenon
<1> DEFINE past == {q[k] : k \in 1 .. pc - 1}
           now == q[pc]
<1>2. Past = past /\ Now = now
  BY Zenon DEF Past, Now
<1> HIDE DEF q
<1>3. Len(q) \in Nat \ {0} /\ pc \in 1 .. Len(q)
  BY <1>1, Zenon DEF Scheduled, q
<1>4. \A i, j \in 1 .. Len(q) : q[i] = q[j] => i = j
  BY <1>1, Zenon DEF Scheduled
<1>5. ASSUME NEW x, NEW y, After(q, x, y) PROVE Bef(past, now, x, y)
  <2>1. PICK a \in 1 .. Len(q), b \in 1 .. Len(q) : a < b /\ q[a] = x /\ q[b] = y
    BY <1>5, Zenon DEF After
  <2>2. ASSUME now = y \/ y \in past PROVE x \in past
    <3>1. PICK k \in 1 .. pc : q[k] = y
      BY <2>2, <1>3
    <3>2. k = b
      BY <3>1, <2>1, <1>3, <1>4
    <3>3. a \in 1 .. pc - 1
      BY <3>1, <3>2, <2>1, <1>3
    <3> QED BY <3>3, <2>1, Zenon
  <2> QED BY <2>2, Zenon DEF Bef
<1>6. now \in StepSet /\ now \notin past /\ past \subseteq StepSet
  BY <1>1, <1>3, <1>4 DEF Scheduled
<1>7. ~config.packed => now[1] # "build"
  BY <1>1, <1>3, Zenon DEF Scheduled
<1>8. ~config.hybrid => now # <<"remap", "host">> /\ <<"remap", "host">> \notin past
  <2>1. ~config.hybrid => \A k \in 1 .. Len(q) : q[k] # <<"remap", "host">>
    BY <1>1, Zenon DEF Scheduled
  <2>2. 1 .. pc - 1 \subseteq 1 .. Len(q)
    BY <1>3
  <2> QED BY <2>1, <2>2, <1>3, Zenon
<1>9. pc = Len(q) <=> now = <<"execute", "host">>
  BY <1>1, <1>3, <1>4, SMTT(20) DEF Scheduled
<1> HIDE DEF past, now
<1>10. Ordered(past, now)
  BY <1>1, <1>5, <1>6, <1>7, <1>8, Zenon DEF Scheduled, Ordered
<1> QED BY <1>2, <1>3, <1>6, <1>9, <1>10, Zenon DEF q

(***************************************************************************)
(* The inductive invariant.                                                *)
(***************************************************************************)

TA(e) == <<"txn_array", e>>
II == <<"index_input", 0>>
IO == <<"index_output", 0>>
Sub == <<"initialization_input", 0>>
Plans == <<"initialization_output", 0>>
EParam == <<"execution_param_input", 0>>
EPlan == <<"execution_plan_input", 0>>

\* Whose memory array a uses once its bridge is linked.
Memory(c, a) ==
    CASE a = Sub -> IO
      [] a = EParam /\ c.execution_device = "GPU" -> IO
      [] a = EPlan /\ c.execution_device = "GPU" -> Plans
      [] OTHER -> a

\* The bridges whose arrays are on different devices.
Crosses(c, b) == b = "input" \/ (b \in {"param", "plan"} /\ c.execution_device = "CPU")

SizeOf(b) == CASE b = "input" -> InputSize
               [] b \in {"init", "param"} -> ParamSize
               [] b = "plan" -> PlanSize

\* The offsets a copy of epoch e over bridge b moves.
Span(c, ty, b, e) == 0 .. Place(c, ty, SizeOf(b), e)[NTxns] - 1

Pointers == Arrays \cup {Null}

Typed ==
    /\ config \in Configs
    /\ types \in [1 .. NEpochs -> [Txns -> Types]]
    /\ epoch \in 0 .. NEpochs + 1 /\ pc \in 1 .. Len(RunEpoch)
    /\ epoch > NEpochs => pc = 1
    /\ arr \in [Arrays -> [txns : Pointers, index : Pointers, size : Nat]]
    /\ mem \in [Arrays -> [txns : [0 .. Capacity -> Contents], index : [0 .. NTxns -> Nat]]]
    /\ bridge \in [Bridges -> [src : Pointers, dst : Pointers, from : Pointers,
                               from_index : Pointers, to : Pointers, to_index : Pointers]]
    /\ packed_size \in [Bridges -> Nat]
    /\ copying \in [Bridges -> SUBSET Int]
    /\ tables \subseteq Bridges

\* Array a is at the memory it is meant to use.
Points(a) == /\ arr[a].txns = Memory(config, a)
             /\ config.packed => arr[a].index = Memory(config, a)

\* Bridge b joins the source of epoch e to its destination.
Joins(b, e) ==
    /\ bridge[b].src = Source(b, e) /\ bridge[b].dst = Dest(b)
    /\ bridge[b].from = Source(b, e) /\ bridge[b].to = Memory(config, Dest(b))
    /\ config.packed => /\ bridge[b].from_index = Source(b, e)
                        /\ bridge[b].to_index = Memory(config, Dest(b))
    /\ Points(Dest(b))

Wired(past) ==
    /\ \A e \in 1 .. NEpochs : Points(TA(e))
    /\ Points(IO) /\ Points(Plans)
    /\ \A b \in Bridges : arr[Dest(b)].txns = Null \/ Points(Dest(b))
    /\ \A b \in Bridges :
          epoch > 0 \/ <<"link", b>> \in past => \E e \in 1 .. NEpochs : Joins(b, e)
    /\ epoch > 0 /\ <<"link", "input">> \in past => Joins("input", epoch)

\* The generator's arrays keep what it put there.
Generator ==
    \A e \in 1 .. NEpochs :
        /\ mem[TA(e)] = Generated(e)
        /\ config.packed => arr[TA(e)].size = Place(config, types, InputSize, e)[NTxns]

\* Bridge b has copied what it does not still have to copy, and copies only
\* between StartTransfer and FinishTransfer.
Copied(past, b) ==
    /\ <<"start", b>> \in past /\ Crosses(config, b) =>
          /\ copying[b] \subseteq Span(config, types, b, epoch)
          /\ \A o \in Span(config, types, b, epoch) \ copying[b] :
                mem[Dest(b)].txns[o] = mem[Source(b, epoch)].txns[o]
          /\ config.packed /\ b \notin tables =>
                \A i \in Txns : mem[Dest(b)].index[i] = mem[Source(b, epoch)].index[i]
    /\ copying[b] # {} \/ b \in tables =>
          <<"start", b>> \in past /\ <<"finish", b>> \notin past /\ Crosses(config, b)
    /\ b \in tables =>
          /\ config.packed
          /\ packed_size[b] = Place(config, types, SizeOf(b), epoch)[NTxns]

\* Array a has epoch e's transactions, in the form a stage wrote them.
Holds(a, s, e, kind) ==
    \A i \in Txns : mem[a].txns[Place(config, types, s, e)[i]] = <<kind, e, i>>

\* Array a has the offset table of epoch e.
Indexed(a, s, e) == \A i \in 0 .. NTxns : mem[a].index[i] = Place(config, types, s, e)[i]

Filled(past) ==
    /\ mem[IO].index[0] = 0 /\ mem[Plans].index[0] = 0
    /\ <<"build", "index_output">> \in past => Indexed(IO, ParamSize, epoch)
    /\ <<"build", "initialization_output">> \in past => Indexed(Plans, PlanSize, epoch)
    /\ <<"index", "host">> \in past =>
          Holds(IO, ParamSize, epoch, IF <<"remap", "host">> \in past THEN "grid" ELSE "crid")
    /\ <<"submit", "host">> \in past => submitted = [i \in Txns |-> <<"crid", epoch, i>>]
    /\ <<"plan", "host">> \in past => Holds(Plans, PlanSize, epoch, "plan")

Flow(past) == Wired(past) /\ Filled(past) /\ \A b \in Bridges : Copied(past, b)

IInv == Typed /\ Generator /\ Flow(Past) /\ ExecutorGetsItsEpoch

\* What the assumption says of the constants.
LEMMA Constants ==
    /\ NTxns \in Nat \ {0} /\ NEpochs \in Nat \ {0} /\ Capacity \in Nat
    /\ 0 \in Txns /\ Txns \subseteq 0 .. NTxns /\ NTxns \in 0 .. NTxns
    /\ {InputSize, ParamSize, PlanSize} = Sizes
<1>1. NTxns \in Nat \ {0} /\ NEpochs \in Nat \ {0}
  BY TxnFlowAssumption, Zenon DEF TxnFlowAssumption
<1>2. Capacity \in Nat
  BY <1>1, CapacityIs
<1> QED BY <1>1, <1>2 DEF Txns, Sizes

\* What it says of a command line.
LEMMA ConfigIs ==
    ASSUME config \in Configs
    PROVE  /\ config.packed \in BOOLEAN /\ config.hybrid \in BOOLEAN
           /\ config.execution_device \in {"CPU", "GPU"}
           /\ config.hybrid => config.execution_device = "GPU"
BY TxnFlowAssumption, Zenon DEF TxnFlowAssumption

\* The arrays are different arrays.
LEMMA ArraysAre ==
    /\ {II, IO, Sub, Plans, EParam, EPlan} \subseteq Arrays
    /\ \A e \in 1 .. NEpochs : TA(e) \in Arrays
    /\ \A e : TA(e) \notin {II, IO, Sub, Plans, EParam, EPlan}
    /\ IO \notin {II, Sub, Plans, EParam, EPlan} /\ Plans \notin {II, Sub, EParam, EPlan}
    /\ II \notin {Sub, EParam, EPlan} /\ Sub \notin {EParam, EPlan} /\ EParam # EPlan
    /\ Null \notin Arrays
<1>1. {II, IO, Sub, Plans, EParam, EPlan} \subseteq Arrays
  BY Zenon DEF II, IO, Sub, Plans, EParam, EPlan, Arrays, Stages
<1>2. \A e \in 1 .. NEpochs : TA(e) \in Arrays
  BY Zenon DEF TA, Arrays
<1>3. \A e : TA(e) \notin {II, IO, Sub, Plans, EParam, EPlan}
  BY Zenon DEF TA, II, IO, Sub, Plans, EParam, EPlan
<1>4. /\ IO \notin {II, Sub, Plans, EParam, EPlan} /\ Plans \notin {II, Sub, EParam, EPlan}
      /\ II \notin {Sub, EParam, EPlan} /\ Sub \notin {EParam, EPlan} /\ EParam # EPlan
  BY Zenon DEF II, IO, Sub, Plans, EParam, EPlan
<1>5. Null \notin Arrays
  BY Zenon DEF Null, Arrays, Stages
<1> QED BY <1>1, <1>2, <1>3, <1>4, <1>5, Zenon

\* The ends of the bridges.
LEMMA EndsAre ==
    /\ \A e : Source("input", e) = TA(e) /\ Source("init", e) = IO
              /\ Source("param", e) = IO /\ Source("plan", e) = Plans
    /\ Dest("input") = II /\ Dest("init") = Sub
    /\ Dest("param") = EParam /\ Dest("plan") = EPlan
BY Zenon DEF Source, Dest, Ends, TA, IO, Plans, II, Sub, EParam, EPlan

\* Where each array is.
LEMMA MemoryIs ==
    ASSUME NEW c, c.execution_device \in {"CPU", "GPU"}
    PROVE  /\ \A e : Memory(c, TA(e)) = TA(e)
           /\ Memory(c, IO) = IO /\ Memory(c, Plans) = Plans /\ Memory(c, II) = II
           /\ Memory(c, Sub) = IO
           /\ Memory(c, EParam) = IF c.execution_device = "GPU" THEN IO ELSE EParam
           /\ Memory(c, EPlan) = IF c.execution_device = "GPU" THEN Plans ELSE EPlan
BY ArraysAre, Zenon DEF Memory

\* What the proofs use of a bridge's ends.
LEMMA BridgeIs ==
    ASSUME NEW c, c.execution_device \in {"CPU", "GPU"}, NEW b \in Bridges,
           NEW e \in 1 .. NEpochs
    PROVE  /\ Source(b, e) \in Arrays /\ Dest(b) \in Arrays /\ Memory(c, Dest(b)) \in Arrays
           /\ Source(b, e) \in {TA(e), IO, Plans} /\ Memory(c, Source(b, e)) = Source(b, e)
           /\ Dest(b) \notin {IO, Plans} /\ (\A k : Dest(b) # TA(k))
           /\ Crosses(c, b) => Memory(c, Dest(b)) = Dest(b)
           /\ ~Crosses(c, b) => Memory(c, Dest(b)) = Source(b, e) /\ Source(b, e) \in {IO, Plans}
           /\ \A b2 \in Bridges : Dest(b) = Dest(b2) => b = b2
           /\ SizeOf(b) \in Sizes
<1>1. b \in {"input", "init", "param", "plan"}
  BY Zenon DEF Bridges
<1>2. \A b2 \in Bridges : Dest(b) = Dest(b2) => b = b2
  BY <1>1, EndsAre, ArraysAre, Zenon DEF Bridges
<1>3. SizeOf(b) \in Sizes
  BY <1>1, Zenon DEF SizeOf, Sizes
<1>4. CASE b = "input"
  BY <1>2, <1>3, <1>4, EndsAre, ArraysAre, MemoryIs DEF Crosses
<1>5. CASE b = "init"
  BY <1>2, <1>3, <1>5, EndsAre, ArraysAre, MemoryIs DEF Crosses
<1>6. CASE b = "param"
  BY <1>2, <1>3, <1>6, EndsAre, ArraysAre, MemoryIs DEF Crosses
<1>7. CASE b = "plan"
  BY <1>2, <1>3, <1>7, EndsAre, ArraysAre, MemoryIs DEF Crosses
<1> QED BY <1>1, <1>4, <1>5, <1>6, <1>7, Zenon

\* What they use of it whatever the command line.
LEMMA BridgeEnds ==
    ASSUME NEW b \in Bridges, NEW e \in 1 .. NEpochs
    PROVE  /\ Source(b, e) \in Arrays /\ Dest(b) \in Arrays /\ SizeOf(b) \in Sizes
           /\ Source(b, e) \in {TA(e), IO, Plans}
           /\ Dest(b) \notin {IO, Plans} /\ (\A k : Dest(b) # TA(k))
           /\ \A b2 \in Bridges : Dest(b) = Dest(b2) => b = b2
<1>1. PICK c : c.execution_device = "CPU"
  <2>1. [execution_device |-> "CPU"].execution_device = "CPU"
    OBVIOUS
  <2> QED BY <2>1, Zenon
<1> QED BY <1>1, BridgeIs

\* A bridge between two devices brings its array to memory of its own.
LEMMA OwnDest ==
    ASSUME NEW c, c.execution_device \in {"CPU", "GPU"}, NEW b \in Bridges, NEW e \in 1 .. NEpochs,
           Crosses(c, b)
    PROVE  Memory(c, Dest(b)) = Dest(b)
BY BridgeIs

\* The arrays on the GPU that the stages write are where they are meant to be.
LEMMA StageArrays ==
    ASSUME Typed
    PROVE  /\ Memory(config, IO) = IO /\ Memory(config, Plans) = Plans /\ Memory(config, Sub) = IO
           /\ IO \in Arrays /\ Plans \in Arrays /\ IO # Plans
           /\ ParamSize \in Sizes /\ PlanSize \in Sizes
<1>1. config.execution_device \in {"CPU", "GPU"}
  BY ConfigIs, Zenon DEF Typed
<1>2. Memory(config, IO) = IO /\ Memory(config, Plans) = Plans /\ Memory(config, Sub) = IO
  BY <1>1, MemoryIs
<1>3. IO \in Arrays /\ Plans \in Arrays /\ IO # Plans
  BY ArraysAre, Zenon
<1> QED BY <1>2, <1>3, Zenon DEF Sizes

\* Where each array's device is.
LEMMA DeviceIs ==
    ASSUME config.execution_device \in {"CPU", "GPU"}, NEW b \in Bridges, NEW e
    PROVE  /\ Device(Source(b, e)) # Device(Dest(b)) <=> Crosses(config, b)
           /\ Device(Source(b, e)) = IF b = "input" THEN "CPU" ELSE "GPU"
<1>1. b \in {"input", "init", "param", "plan"}
  BY Zenon DEF Bridges
<1>2. Device(TA(e)) = "CPU"
  BY Zenon DEF Device, TA
<1>3. Device(IO) = "GPU" /\ Device(Plans) = "GPU" /\ Device(II) = "GPU" /\ Device(Sub) = "GPU"
  BY Zenon DEF Device, IO, Plans, II, Sub
<1>4. Device(EParam) = config.execution_device /\ Device(EPlan) = config.execution_device
  BY Zenon DEF Device, EParam, EPlan
<1> QED BY <1>1, <1>2, <1>3, <1>4, EndsAre, Zenon DEF Crosses

(***************************************************************************)
(* The host's program counter.                                             *)
(***************************************************************************)

\* A step of an epoch that is not its last.
LEMMA Advance ==
    ASSUME Typed, epoch \in 1 .. NEpochs, Step, Now # <<"execute", "host">>
    PROVE  /\ config' = config /\ types' = types /\ epoch' = epoch
           /\ Past' = Past \cup {Now}
           /\ pc' \in 1 .. Len(RunEpoch') /\ pc' # 1
           /\ ~(epoch' > NEpochs)
<1>1. epoch \in Nat \ {0} /\ pc \in 1 .. Len(RunEpoch)
  BY Constants DEF Typed
<1>2. Len(RunEpoch) \in Nat /\ pc # Len(RunEpoch)
  BY <1>1, ConfigIs, Schedule, Zenon DEF Typed
<1>3. pc' = pc + 1 /\ epoch' = epoch /\ config' = config /\ types' = types
  BY <1>1, <1>2 DEF Step
<1>4. RunEpoch' = RunEpoch
  BY <1>3, Zenon DEF RunEpoch, RunEpochTpcc, RunEpochYcsb
<1> DEFINE q == RunEpoch
<1>5. Past = {q[k] : k \in 1 .. pc - 1} /\ Past' = {q[k] : k \in 1 .. pc' - 1} /\ Now = q[pc]
  BY <1>4, Zenon DEF Past, Now
<1> HIDE DEF q
<1>6. 1 .. pc' - 1 = (1 .. pc - 1) \cup {pc}
  BY <1>1, <1>2, <1>3
<1>7. Past' = Past \cup {Now}
  BY <1>5, <1>6, Zenon
<1>8. ~(epoch' > NEpochs)
  BY <1>3, Constants
<1> QED BY <1>1, <1>2, <1>3, <1>4, <1>7, <1>8

\* The last step of an epoch.
LEMMA Return ==
    ASSUME Typed, epoch \in 1 .. NEpochs, Step, Now = <<"execute", "host">>
    PROVE  /\ config' = config /\ types' = types /\ epoch' = epoch + 1 /\ pc' = 1
           /\ Past' = {} /\ pc' \in 1 .. Len(RunEpoch')
<1>1. epoch \in Nat \ {0} /\ pc \in 1 .. Len(RunEpoch)
  BY Constants DEF Typed
<1>2. Len(RunEpoch) \in Nat \ {0} /\ pc = Len(RunEpoch)
  BY <1>1, ConfigIs, Schedule, Zenon DEF Typed
<1>3. pc' = 1 /\ epoch' = epoch + 1 /\ config' = config /\ types' = types
  BY <1>1, <1>2 DEF Step
<1>4. RunEpoch' = RunEpoch
  <2>1. epoch # 0 /\ epoch' # 0 /\ epoch > 0 /\ epoch' > 0
    BY <1>1, <1>3
  <2> QED BY <1>3, <2>1, Zenon DEF RunEpoch, RunEpochTpcc, RunEpochYcsb
<1>5. Past' = {}
  <2>1. 1 .. pc' - 1 = {}
    BY <1>3
  <2> QED BY <2>1, Zenon DEF Past
<1> QED BY <1>2, <1>3, <1>4, <1>5

\* A step of the constructor links a bridge; after the last all are linked.
LEMMA Construct ==
    ASSUME Typed, epoch = 0, Step
    PROVE  /\ config' = config /\ types' = types /\ pc' \in 1 .. Len(RunEpoch')
           /\ \E b \in Bridges :
                /\ Now = <<"link", b>>
                /\ \/ epoch' = 0 /\ Past' = Past \cup {Now} /\ b # "plan"
                   \/ /\ epoch' = 1 /\ pc' = 1 /\ Past' = {}
                      /\ \A b2 \in Bridges : <<"link", b2>> \in Past \cup {Now}
<1>1. RunEpoch = Constructor
  BY DEF RunEpoch
<1>2. Len(Constructor) = 4 /\ config' = config /\ types' = types /\ pc \in 1 .. 4
  BY <1>1, Zenon DEF Constructor, Step, Typed
<1>3. CASE pc # 4
  <2>1. pc' = pc + 1 /\ epoch' = 0
    BY <1>1, <1>2, <1>3 DEF Step
  <2>2. RunEpoch' = Constructor
    BY <2>1 DEF RunEpoch, Constructor
  <2>3. Past' = Past \cup {Now}
    <3> DEFINE q == Constructor
    <3>1. Past = {q[k] : k \in 1 .. pc - 1} /\ Past' = {q[k] : k \in 1 .. pc' - 1} /\ Now = q[pc]
      BY <1>1, <2>2, Zenon DEF Past, Now
    <3> HIDE DEF q
    <3>2. 1 .. pc' - 1 = (1 .. pc - 1) \cup {pc}
      BY <1>2, <2>1
    <3> QED BY <3>1, <3>2, Zenon
  <2>4. Now \in {<<"link", "input">>, <<"link", "init">>, <<"link", "param">>}
    BY <1>1, <1>2, <1>3 DEF Now, Constructor
  <2>5. \E b \in Bridges : Now = <<"link", b>> /\ b # "plan"
    BY <2>4, Zenon DEF Bridges
  <2>6. pc' \in 1 .. Len(RunEpoch')
    <3>1. pc + 1 \in 1 .. 4
      BY <1>2, <1>3
    <3> QED BY <3>1, <1>2, <2>1, <2>2, Zenon
  <2> QED BY <1>2, <2>1, <2>3, <2>5, <2>6, Zenon
<1>4. CASE pc = 4
  <2>1. pc' = 1 /\ epoch' = 1
    BY <1>1, <1>2, <1>4 DEF Step
  <2>2. RunEpoch' = IF config.packed THEN RunEpochTpcc ELSE RunEpochYcsb
    BY <1>2, <2>1 DEF RunEpoch, RunEpochTpcc, RunEpochYcsb
  <2>3. Len(RunEpoch') \in Nat \ {0}
    <3>1. \E q : q = RunEpoch' /\ Scheduled(q, config)
      BY <2>2, ConfigIs, YcsbPlain, YcsbHybrid, TpccPlain, TpccHybrid, Zenon DEF Typed
    <3> QED BY <3>1, Zenon DEF Scheduled
  <2>4. Past' = {}
    <3>1. 1 .. pc' - 1 = {}
      BY <2>1
    <3> QED BY <3>1, Zenon DEF Past
  <2>5. Now = <<"link", "plan">>
    BY <1>1, <1>4, Zenon DEF Now, Constructor
  <2>6. {<<"link", "input">>, <<"link", "init">>, <<"link", "param">>} \subseteq Past
    <3>1. 1 \in 1 .. pc - 1 /\ 2 \in 1 .. pc - 1 /\ 3 \in 1 .. pc - 1
      BY <1>4
    <3>2. RunEpoch[1] \in Past /\ RunEpoch[2] \in Past /\ RunEpoch[3] \in Past
      BY <3>1, Zenon DEF Past
    <3> QED BY <1>1, <3>2, Zenon DEF Constructor
  <2>7. \A b2 \in Bridges : <<"link", b2>> \in Past \cup {Now}
    BY <2>5, <2>6, Zenon DEF Bridges
  <2>8. "plan" \in Bridges
    BY Zenon DEF Bridges
  <2> QED BY <1>2, <2>1, <2>3, <2>4, <2>5, <2>7, <2>8
<1> QED BY <1>3, <1>4, Zenon

\* The constructor does nothing but link.
LEMMA OnlyLinks ==
    ASSUME Typed, epoch = 0
    PROVE  \A x \in Past \cup {Now} : x[1] = "link"
<1>1. RunEpoch = Constructor /\ Len(Constructor) = 4 /\ pc \in 1 .. 4
  BY DEF RunEpoch, Constructor, Typed
<1>2. \A k \in 1 .. 4 : Constructor[k][1] = "link"
  BY DEF Constructor
<1>3. 1 .. pc - 1 \subseteq 1 .. 4
  BY <1>1
<1> QED BY <1>1, <1>2, <1>3, Zenon DEF Past, Now

(***************************************************************************)
(* What a step leaves alone.                                               *)
(***************************************************************************)

Builds == {<<"build", "index_output">>, <<"build", "initialization_output">>}
Kernels == {<<"index", "host">>, <<"submit", "host">>, <<"remap", "host">>, <<"plan", "host">>}

\* No step of S is done or undone.
Same(S) == \A x \in S : x \in Past' <=> x \in Past

SamePointers == \A a \in Arrays : arr'[a].txns = arr[a].txns /\ arr'[a].index = arr[a].index

\* The bridges stay as they are linked.
LEMMA WiredKept ==
    ASSUME Typed, Wired(Past), SamePointers, bridge' = bridge, config' = config,
           epoch' = epoch, Same({<<"link", b>> : b \in Bridges})
    PROVE  Wired(Past)'
<1>1. \A a \in Arrays : Points(a) => Points(a)'
  BY Zenon DEF Points, SamePointers
<1>2. \A b \in Bridges : Dest(b) \in Arrays
  BY EndsAre, ArraysAre, Zenon DEF Bridges
<1>3. \A b \in Bridges, e \in 1 .. NEpochs : Joins(b, e) => Joins(b, e)'
  BY <1>1, <1>2, Zenon DEF Joins
<1>4. /\ \A e \in 1 .. NEpochs : Points(TA(e))'
      /\ Points(IO)' /\ Points(Plans)'
  BY <1>1, ArraysAre, Zenon DEF Wired
<1>5. \A b \in Bridges : arr'[Dest(b)].txns = Null \/ Points(Dest(b))'
  BY <1>1, <1>2, Zenon DEF Wired, SamePointers
<1>6. \A b \in Bridges : <<"link", b>> \in Past' => <<"link", b>> \in Past
  BY Zenon DEF Same
<1>7. ASSUME NEW b \in Bridges, epoch > 0 \/ <<"link", b>> \in Past'
      PROVE  \E e \in 1 .. NEpochs : Joins(b, e)'
  <2>1. PICK e \in 1 .. NEpochs : Joins(b, e)
    BY <1>6, <1>7, Zenon DEF Wired
  <2> QED BY <2>1, <1>3, Zenon
<1>8. ASSUME epoch > 0, <<"link", "input">> \in Past' PROVE Joins("input", epoch)'
  <2>1. "input" \in Bridges
    BY Zenon DEF Bridges
  <2>2. Joins("input", epoch)
    BY <1>6, <1>8, <2>1, Zenon DEF Wired
  <2> QED BY <1>1, <1>2, <2>1, <2>2, Zenon DEF Joins
<1> QED BY <1>4, <1>5, <1>7, <1>8, Zenon DEF Wired

\* The generator's arrays stay as they are.
LEMMA GeneratorKept ==
    ASSUME Generator, config' = config, types' = types,
           \A e \in 1 .. NEpochs : mem'[TA(e)] = mem[TA(e)] /\ arr'[TA(e)].size = arr[TA(e)].size
    PROVE  Generator'
<1>1. \A e \in 1 .. NEpochs : Generated(e)' = Generated(e)
  BY DEF Generated, Offsets, Zeroed
<1> QED BY <1>1, Zenon DEF Generator

\* What bridge b has copied stays copied while its two ends are not written.
LEMMA CopiedKept ==
    ASSUME NEW b \in Bridges, Copied(Past, b), config' = config, types' = types,
           epoch' = epoch, Same({<<"start", b>>, <<"finish", b>>}),
           copying'[b] = copying[b], b \in tables' <=> b \in tables,
           packed_size'[b] = packed_size[b],
           <<"start", b>> \in Past /\ Crosses(config, b) =>
               /\ mem'[Dest(b)] = mem[Dest(b)]
               /\ mem'[Source(b, epoch)] = mem[Source(b, epoch)]
    PROVE  Copied(Past, b)'
<1>1. /\ <<"start", b>> \in Past' <=> <<"start", b>> \in Past
      /\ <<"finish", b>> \in Past' <=> <<"finish", b>> \in Past
  BY Zenon DEF Same
<1>2. ASSUME <<"start", b>> \in Past', Crosses(config, b)
      PROVE  /\ copying'[b] \subseteq Span(config, types, b, epoch)
             /\ \A o \in Span(config, types, b, epoch) \ copying'[b] :
                   mem'[Dest(b)].txns[o] = mem'[Source(b, epoch)].txns[o]
             /\ config.packed /\ b \notin tables' =>
                   \A i \in Txns : mem'[Dest(b)].index[i] = mem'[Source(b, epoch)].index[i]
  BY <1>1, <1>2, ZenonT(40) DEF Copied
<1>3. copying'[b] # {} \/ b \in tables' =>
          <<"start", b>> \in Past' /\ <<"finish", b>> \notin Past' /\ Crosses(config, b)
  BY <1>1, Zenon DEF Copied
<1>4. b \in tables' =>
          config.packed /\ packed_size'[b] = Place(config, types, SizeOf(b), epoch)[NTxns]
  BY Zenon DEF Copied
<1> QED BY <1>2, <1>3, <1>4, Zenon DEF Copied

\* What the stages wrote stays while no stage writes.
LEMMA FilledKept ==
    ASSUME Filled(Past), config' = config, types' = types, epoch' = epoch,
           Same(Builds \cup Kernels), submitted' = submitted,
           mem'[IO] = mem[IO], mem'[Plans] = mem[Plans]
    PROVE  Filled(Past)'
<1>1. \A x \in Builds \cup Kernels : x \in Past' <=> x \in Past
  BY Zenon DEF Same
<1> QED BY <1>1 DEF Filled, Holds, Indexed, Builds, Kernels

(***************************************************************************)
(* What a stage reads and writes.                                          *)
(***************************************************************************)

\* Every array of every epoch of this run is laid out that way.
LEMMA Placed ==
    ASSUME Typed, NEW s \in Sizes, NEW e \in 1 .. NEpochs
    PROVE  Layout(Place(config, types, s, e))
<1>1. config.packed \in BOOLEAN
  BY ConfigIs, Zenon DEF Typed
<1>2. types \in [1 .. NEpochs -> [Txns -> Types]]
  BY Zenon DEF Typed
<1> QED BY <1>1, <1>2, PlacesAre

\* The offsets of array a are those of epoch e.
Offset(a, s, e) == config.packed => \A i \in Txns : mem[Memory(config, a)].index[i] = Place(config, types, s, e)[i]

\* A stage finds each transaction of array a at its place, and gets what is
\* there.
LooksAt(a, s, e) == \A i \in Txns : OffsetIn(a, i) = Place(config, types, s, e)[i]
ReadsAt(a, s, e) ==
    \A i \in Txns : GetTxn(a, i) = mem[Memory(config, a)].txns[Place(config, types, s, e)[i]]

\* It does so when the array points at its memory and the offsets are the
\* epoch's.
LEMMA Looks ==
    ASSUME NEW a, NEW s, NEW e, Points(a), Offset(a, s, e)
    PROVE  LooksAt(a, s, e)
<1> SUFFICES ASSUME NEW i \in Txns PROVE OffsetIn(a, i) = Place(config, types, s, e)[i]
  BY Zenon DEF LooksAt
<1>1. OffsetIn(a, i) = Place(config, types, s, e)[i]
  <2>1. CASE config.packed
    BY <2>1, Zenon DEF OffsetIn, Points, Offset
  <2>2. CASE ~config.packed
    BY <2>2, Constants, Zenon DEF OffsetIn, Place
  <2> QED BY <2>1, <2>2, Zenon
<1> QED BY <1>1, Zenon

\* The same of what it gets.
LEMMA Reads ==
    ASSUME NEW a, NEW s, NEW e, Points(a), Offset(a, s, e)
    PROVE  ReadsAt(a, s, e)
<1> SUFFICES ASSUME NEW i \in Txns
             PROVE  GetTxn(a, i) = mem[Memory(config, a)].txns[Place(config, types, s, e)[i]]
  BY Zenon DEF ReadsAt
<1>1. LooksAt(a, s, e)
  BY Looks, Zenon
<1>2. OffsetIn(a, i) = Place(config, types, s, e)[i]
  BY <1>1, Zenon DEF LooksAt
<1> QED BY <1>2, Zenon DEF GetTxn, Points

\* A kernel that writes array a writes each transaction at its place, and
\* nothing but that array's transactions.
LEMMA Writes ==
    ASSUME Typed, NEW a, Memory(config, a) \in Arrays, NEW s \in Sizes, NEW e \in 1 .. NEpochs,
           Points(a), Offset(a, s, e), NEW f \in [Txns -> Contents], Write(a, f)
    PROVE  /\ mem' \in [Arrays -> [txns : [0 .. Capacity -> Contents], index : [0 .. NTxns -> Nat]]]
           /\ \A x \in Arrays : x # Memory(config, a) => mem'[x] = mem[x]
           /\ mem'[Memory(config, a)].index = mem[Memory(config, a)].index
           /\ \A i \in Txns : mem'[Memory(config, a)].txns[Place(config, types, s, e)[i]] = f[i]
<1> DEFINE m == Memory(config, a)
           at == Place(config, types, s, e)
<1>1. config.packed \in BOOLEAN
  BY ConfigIs, Zenon DEF Typed
<1>2. Layout(at)
  BY Placed, Zenon
<1>3. \A i \in Txns : OffsetIn(a, i) = at[i]
  <2>1. LooksAt(a, s, e)
    BY Looks, Zenon
  <2> QED BY <2>1, Zenon DEF LooksAt
<1>4. arr[a].txns = m
  BY Zenon DEF Points
<1> HIDE DEF at, m
<1> DEFINE g == [o \in 0 .. Capacity |->
                    IF \E i \in Txns : OffsetIn(a, i) = o
                    THEN f[CHOOSE i \in Txns : OffsetIn(a, i) = o] ELSE mem[m].txns[o]]
<1>5. mem' = [mem EXCEPT ![m].txns = g]
  BY <1>4, Zenon DEF Write
<1>6. m \in Arrays /\ mem \in [Arrays -> [txns : [0 .. Capacity -> Contents], index : [0 .. NTxns -> Nat]]]
  BY Zenon DEF Typed, m
<1>7. g \in [0 .. Capacity -> Contents]
  <2>1. ASSUME NEW o \in 0 .. Capacity PROVE g[o] \in Contents
    <3>1. CASE \E i \in Txns : OffsetIn(a, i) = o
      <4>1. (CHOOSE i \in Txns : OffsetIn(a, i) = o) \in Txns
        BY <3>1, Zenon
      <4> QED BY <3>1, <4>1, Zenon
    <3>2. CASE ~ \E i \in Txns : OffsetIn(a, i) = o
      BY <3>2, <1>6, Zenon
    <3> QED BY <3>1, <3>2, Zenon
  <2> QED BY <2>1, Zenon
<1>8. ASSUME NEW i \in Txns PROVE g[at[i]] = f[i]
  <2>1. at[i] \in 0 .. Capacity
    BY <1>2, Constants, Zenon DEF Layout
  <2>2. \E j \in Txns : OffsetIn(a, j) = at[i]
    BY <1>3, Zenon
  <2> DEFINE j == CHOOSE j \in Txns : OffsetIn(a, j) = at[i]
  <2>3. j \in Txns /\ OffsetIn(a, j) = at[i]
    BY <2>2, Zenon
  <2> HIDE DEF j
  <2>4. j = i
    BY <2>3, <1>2, <1>3, Zenon DEF Layout
  <2>5. g[at[i]] = f[j]
    BY <2>1, <2>2, Zenon DEF j
  <2> QED BY <2>4, <2>5, Zenon
<1> HIDE DEF g
<1>9. mem'[m].txns = g /\ mem'[m].index = mem[m].index /\ (\A x \in Arrays : x # m => mem'[x] = mem[x])
  BY <1>5, <1>6, Zenon
<1>10. mem' \in [Arrays -> [txns : [0 .. Capacity -> Contents], index : [0 .. NTxns -> Nat]]]
  BY <1>5, <1>6, <1>7, Zenon
<1> QED BY <1>8, <1>9, <1>10, Zenon DEF m, at

\* The generator puts each transaction at its place, with its offset.
LEMMA GeneratedIs ==
    ASSUME config \in Configs, types \in [1 .. NEpochs -> [Txns -> Types]], NEW e \in 1 .. NEpochs
    PROVE  /\ Generated(e) \in [txns : [0 .. Capacity -> Contents], index : [0 .. NTxns -> Nat]]
           /\ \A i \in Txns : Generated(e).txns[Place(config, types, InputSize, e)[i]] = <<"input", e, i>>
           /\ config.packed =>
                 \A i \in Txns : Generated(e).index[i] = Place(config, types, InputSize, e)[i]
<1> DEFINE at == Place(config, types, InputSize, e)
           g == [o \in 0 .. Capacity |->
                     IF \E i \in Txns : at[i] = o
                     THEN <<"input", e, CHOOSE i \in Txns : at[i] = o>> ELSE Nothing]
           x == IF config.packed THEN [at EXCEPT ![NTxns] = 0] ELSE Zeroed.index
<1>1. config.packed \in BOOLEAN
  BY ConfigIs, Zenon
<1>2. Layout(at)
  <2>1. InputSize \in Sizes
    BY Zenon DEF Sizes
  <2> QED BY <1>1, <2>1, PlacesAre
<1>3. Generated(e) = [txns |-> g, index |-> x]
  BY Zenon DEF Generated, Place, Offsets
<1>4. \A i \in Txns : <<"input", e, i>> \in Contents
  BY Constants DEF Contents, Kinds
<1>5. Nothing \in Contents
  BY Constants DEF Nothing, Contents, Kinds
<1> HIDE DEF at
<1>6. ASSUME NEW o \in 0 .. Capacity PROVE g[o] \in Contents
  <2>1. CASE \E i \in Txns : at[i] = o
    <3>1. (CHOOSE i \in Txns : at[i] = o) \in Txns
      BY <2>1, Zenon
    <3> QED BY <2>1, <3>1, <1>4, Zenon
  <2>2. CASE ~ \E i \in Txns : at[i] = o
    BY <2>2, <1>5, Zenon
  <2> QED BY <2>1, <2>2, Zenon
<1>7. ASSUME NEW i \in Txns PROVE g[at[i]] = <<"input", e, i>>
  <2>1. at[i] \in 0 .. Capacity
    BY <1>2, Constants, Zenon DEF Layout
  <2> DEFINE j == CHOOSE j \in Txns : at[j] = at[i]
  <2>2. j \in Txns /\ at[j] = at[i]
    BY Zenon
  <2>3. g[at[i]] = <<"input", e, j>>
    BY <2>1, Zenon
  <2> HIDE DEF j, g
  <2>4. j = i
    BY <2>2, <1>2, Zenon DEF Layout
  <2> QED BY <2>3, <2>4, Zenon
<1>8. x \in [0 .. NTxns -> Nat]
  BY <1>2, Constants DEF Layout, Zeroed
<1>9. config.packed => \A i \in Txns : x[i] = at[i]
  BY <1>2, Constants DEF Layout, Txns
<1>10. g \in [0 .. Capacity -> Contents]
  BY <1>6, Zenon
<1> HIDE DEF g, x
<1>11. Generated(e).txns = g /\ Generated(e).index = x
  BY <1>3
<1> QED BY <1>3, <1>7, <1>8, <1>9, <1>10, <1>11, Zenon DEF at

\* Bridge b has brought all of the epoch's transactions, and their offsets.
Brought(b) ==
    /\ \A i \in Txns : LET o == Place(config, types, SizeOf(b), epoch)[i] IN
          mem[Dest(b)].txns[o] = mem[Source(b, epoch)].txns[o]
    /\ config.packed => \A i \in Txns : mem[Dest(b)].index[i] = mem[Source(b, epoch)].index[i]

\* After FinishTransfer a copied array is the source's copy.
LEMMA Arrived ==
    ASSUME Typed, epoch \in 1 .. NEpochs, NEW b \in Bridges, Copied(Past, b), Crosses(config, b),
           <<"start", b>> \in Past, <<"finish", b>> \in Past
    PROVE  Brought(b)
<1>1. copying[b] = {} /\ b \notin tables
  BY Zenon DEF Copied
<1>2. SizeOf(b) \in Sizes
  BY Zenon DEF SizeOf, Sizes, Bridges
<1>3. \A i \in Txns : Place(config, types, SizeOf(b), epoch)[i] \in Span(config, types, b, epoch)
  <2>1. Layout(Place(config, types, SizeOf(b), epoch))
    BY <1>2, Placed, Zenon
  <2> QED BY <2>1, Zenon DEF Layout, Span
<1> QED BY <1>1, <1>3, Zenon DEF Copied, Brought

\* The indexer's input is this epoch's transactions.
LEMMA InputArrives ==
    ASSUME Typed, Generator, Flow(Past), epoch \in 1 .. NEpochs, <<"link", "input">> \in Past,
           <<"start", "input">> \in Past, <<"finish", "input">> \in Past, NEW i \in Txns
    PROVE  GetTxn(II, i) = <<"input", epoch, i>>
<1>1. "input" \in Bridges /\ Crosses(config, "input") /\ SizeOf("input") = InputSize
  BY Zenon DEF Bridges, Crosses, SizeOf
<1>2. Source("input", epoch) = TA(epoch) /\ Dest("input") = II
  BY EndsAre, Zenon
<1>3. Memory(config, II) = II
  BY ConfigIs, MemoryIs DEF Typed
<1>4. Points(II)
  <2>1. epoch > 0
    OBVIOUS
  <2>2. Joins("input", epoch)
    BY <2>1, Zenon DEF Flow, Wired
  <2> QED BY <1>2, <2>2, Zenon DEF Joins
<1>5. mem[TA(epoch)] = Generated(epoch)
  BY Zenon DEF Generator
<1>6. /\ \A j \in Txns : LET o == Place(config, types, InputSize, epoch)[j] IN
            mem[II].txns[o] = mem[TA(epoch)].txns[o]
      /\ config.packed => \A j \in Txns : mem[II].index[j] = mem[TA(epoch)].index[j]
  <2>1. Copied(Past, "input")
    BY <1>1, Zenon DEF Flow
  <2>2. Brought("input")
    BY <2>1, <1>1, Arrived, Zenon
  <2> QED BY <2>2, <1>1, <1>2, Zenon DEF Brought
<1>7. /\ \A j \in Txns : Generated(epoch).txns[Place(config, types, InputSize, epoch)[j]] = <<"input", epoch, j>>
      /\ config.packed =>
            \A j \in Txns : Generated(epoch).index[j] = Place(config, types, InputSize, epoch)[j]
  BY GeneratedIs, ZenonT(40) DEF Typed
<1>8. Offset(II, InputSize, epoch)
  BY <1>3, <1>5, <1>6, <1>7 DEF Offset
<1>9. GetTxn(II, i) = mem[II].txns[Place(config, types, InputSize, epoch)[i]]
  <2>1. GetTxn(II, i) = mem[Memory(config, II)].txns[Place(config, types, InputSize, epoch)[i]]
    <3>1. ReadsAt(II, InputSize, epoch)
      BY <1>4, <1>8, Reads, Zenon
    <3> QED BY <3>1, Zenon DEF ReadsAt
  <2> QED BY <1>3, <2>1, Zenon
<1> QED BY <1>5, <1>6, <1>7, <1>9, Zenon

(***************************************************************************)
(* The constructor.                                                        *)
(***************************************************************************)

\* The invariant holds when the benchmark is constructed.
LEMMA InitHolds == Init => IInv
<1> SUFFICES ASSUME Init PROVE IInv
  BY Zenon
<1>0. /\ config \in Configs /\ types \in [1 .. NEpochs -> [Txns -> Types]] /\ epoch = 0 /\ pc = 1
      /\ tables = {} /\ (\A b \in Bridges : copying[b] = {})
  BY Zenon DEF Init
<1>1. config.packed \in BOOLEAN /\ config.execution_device \in {"CPU", "GPU"}
  BY <1>0, ConfigIs, Zenon
<1>2. RunEpoch = Constructor /\ Len(Constructor) = 4 /\ Past = {}
  <2>1. RunEpoch = Constructor /\ Len(Constructor) = 4
    BY <1>0 DEF RunEpoch, Constructor
  <2>2. 1 .. pc - 1 = {}
    BY <1>0
  <2> QED BY <2>1, <2>2, Zenon DEF Past
<1>3. \A e \in 1 .. NEpochs : /\ Layout(Place(config, types, InputSize, e))
                              /\ Place(config, types, InputSize, e)[NTxns] \in Nat
  <2>1. InputSize \in Sizes
    BY Zenon DEF Sizes
  <2> SUFFICES ASSUME NEW e \in 1 .. NEpochs PROVE
         /\ Layout(Place(config, types, InputSize, e))
         /\ Place(config, types, InputSize, e)[NTxns] \in Nat
    BY Zenon
  <2>2. Layout(Place(config, types, InputSize, e))
    BY <1>0, <1>1, <2>1, PlacesAre
  <2> QED BY <2>2, Constants DEF Layout
<1>4. \A a \in Arrays : a[1] = "txn_array" => \E e \in 1 .. NEpochs : a = TA(e) /\ a[2] = e
  BY DEF Arrays, TA, Stages
<1>5. \A a \in Arrays : arr[a] = Constructed(a)
  BY Zenon DEF Init
<1>6. \A a \in Arrays : Constructed(a) \in [txns : Pointers, index : Pointers, size : Nat]
  <2> SUFFICES ASSUME NEW a \in Arrays PROVE Constructed(a) \in [txns : Pointers, index : Pointers, size : Nat]
    BY Zenon
  <2>1. a[1] = "txn_array" /\ config.packed => Offsets(InputSize, a[2])[NTxns] \in Nat
    BY <1>3, <1>4, Zenon DEF Place, Offsets
  <2> QED BY <2>1, Zenon DEF Constructed, Pointers
<1>7. arr \in [Arrays -> [txns : Pointers, index : Pointers, size : Nat]]
  BY <1>6, Zenon DEF Init
<1>8. mem \in [Arrays -> [txns : [0 .. Capacity -> Contents], index : [0 .. NTxns -> Nat]]]
  <2>1. ASSUME NEW a \in Arrays, a[1] = "txn_array"
        PROVE  Generated(a[2]) \in [txns : [0 .. Capacity -> Contents], index : [0 .. NTxns -> Nat]]
    BY <2>1, <1>0, <1>4, GeneratedIs
  <2>2. Zeroed \in [txns : [0 .. Capacity -> Contents], index : [0 .. NTxns -> Nat]]
    BY Constants DEF Zeroed, Nothing, Contents, Kinds
  <2> QED BY <2>1, <2>2, ZenonT(40) DEF Init
<1>9. Typed
  <2>1. bridge \in [Bridges -> [src : Pointers, dst : Pointers, from : Pointers,
                               from_index : Pointers, to : Pointers, to_index : Pointers]]
    BY Zenon DEF Init, Unlinked, Pointers
  <2>2. packed_size \in [Bridges -> Nat] /\ copying \in [Bridges -> SUBSET Int] /\ tables \subseteq Bridges
    BY Zenon DEF Init
  <2>3. epoch \in 0 .. NEpochs + 1 /\ pc \in 1 .. Len(RunEpoch)
    BY <1>0, <1>2, Constants
  <2> QED BY <1>0, <1>7, <1>8, <2>1, <2>2, <2>3, Zenon DEF Typed
<1>10. Generator
  <2> SUFFICES ASSUME NEW e \in 1 .. NEpochs
               PROVE  /\ mem[TA(e)] = Generated(e)
                      /\ config.packed => arr[TA(e)].size = Place(config, types, InputSize, e)[NTxns]
    BY Zenon DEF Generator
  <2>1. TA(e) \in Arrays /\ TA(e)[1] = "txn_array" /\ TA(e)[2] = e
    BY ArraysAre, Zenon DEF TA
  <2>2. mem[TA(e)] = Generated(e)
    BY <2>1, Zenon DEF Init
  <2>3. config.packed => arr[TA(e)].size = Place(config, types, InputSize, e)[NTxns]
    <3>1. config.packed => Constructed(TA(e)).size = Offsets(InputSize, e)[NTxns]
      BY <2>1, Zenon DEF Constructed
    <3>2. config.packed => Place(config, types, InputSize, e) = Offsets(InputSize, e)
      BY Zenon DEF Place, Offsets
    <3> QED BY <3>1, <3>2, <2>1, <1>5, Zenon
  <2> QED BY <2>2, <2>3, Zenon
<1>11. Wired(Past)
  <2>1. /\ \A e \in 1 .. NEpochs : Constructed(TA(e)).txns = TA(e)
                                   /\ (config.packed => Constructed(TA(e)).index = TA(e))
        /\ Constructed(IO).txns = IO /\ (config.packed => Constructed(IO).index = IO)
        /\ Constructed(Plans).txns = Plans /\ (config.packed => Constructed(Plans).index = Plans)
        /\ Constructed(II).txns = Null /\ Constructed(Sub).txns = Null
        /\ Constructed(EParam).txns = Null /\ Constructed(EPlan).txns = Null
    BY Zenon DEF Constructed, TA, IO, Plans, II, Sub, EParam, EPlan
  <2>2. \A e \in 1 .. NEpochs : Points(TA(e))
    BY <2>1, <1>1, <1>5, ArraysAre, MemoryIs DEF Points
  <2>3. Points(IO) /\ Points(Plans)
    BY <2>1, <1>1, <1>5, ArraysAre, MemoryIs DEF Points
  <2>4. \A b \in Bridges : arr[Dest(b)].txns = Null
    BY <2>1, <1>5, ArraysAre, EndsAre, ZenonT(40) DEF Bridges
  <2> QED BY <2>2, <2>3, <2>4, <1>0, <1>2 DEF Wired
<1>12. Filled(Past)
  <2>1. mem[IO] = Zeroed /\ mem[Plans] = Zeroed
    <3>1. IO[1] # "txn_array" /\ Plans[1] # "txn_array"
      BY Zenon DEF IO, Plans
    <3> QED BY <3>1, ArraysAre, Zenon DEF Init
  <2> QED BY <2>1, <1>2, Constants DEF Filled, Zeroed
<1>13. \A b \in Bridges : Copied(Past, b)
  BY <1>0, <1>2, Zenon DEF Copied
<1>14. ExecutorGetsItsEpoch
  BY <1>0 DEF ExecutorGetsItsEpoch
<1> QED BY <1>9, <1>10, <1>11, <1>12, <1>13, <1>14, Zenon DEF IInv, Flow

\* Link leaves the destination at the memory it is meant to use.
LEMMA LinkedIs ==
    ASSUME Typed, NEW b \in Bridges, NEW e \in 1 .. NEpochs, Points(Source(b, e)),
           arr[Dest(b)].txns = Null \/ Points(Dest(b))
    PROVE  LET L == Linked(Source(b, e), Dest(b)) m == Memory(config, Dest(b)) IN
           /\ L \in [txns : Pointers, index : Pointers, size : Nat]
           /\ L.txns = m /\ (config.packed => L.index = m)
           /\ L.size = arr[Dest(b)].size
<1> DEFINE src == Source(b, e)
           dst == Dest(b)
           m == Memory(config, dst)
<1>1. config.packed \in BOOLEAN /\ config.execution_device \in {"CPU", "GPU"}
  BY ConfigIs, Zenon DEF Typed
<1>2. src \in Arrays /\ dst \in Arrays /\ m \in Arrays /\ Memory(config, src) = src
  BY <1>1, BridgeIs
<1>3. /\ Crosses(config, b) => m = dst
      /\ ~Crosses(config, b) => m = src
  BY <1>1, BridgeIs
<1>4. Device(src) # Device(dst) <=> Crosses(config, b)
  BY <1>1, DeviceIs, Zenon
<1>5. /\ arr[src].txns = src /\ (config.packed => arr[src].index = src)
      /\ arr[dst].txns = Null \/ (arr[dst].txns = m /\ (config.packed => arr[dst].index = m))
  BY <1>2, Zenon DEF Points
<1>6. /\ arr[dst] \in [txns : Pointers, index : Pointers, size : Nat]
      /\ src \in Pointers /\ dst \in Pointers /\ arr[src].index \in Pointers
      /\ Null \notin Arrays
  BY <1>2, ArraysAre, Zenon DEF Typed, Pointers
<1> HIDE DEF src, dst, m
<1> DEFINE L == Linked(src, dst)
<1>7. L \in [txns : Pointers, index : Pointers, size : Nat] /\ L.size = arr[dst].size
  BY <1>5, <1>6, Zenon DEF Linked, LinkPacked, LinkPlain, InitializePacked, InitializePlain
<1>8. L.txns = m /\ (config.packed => L.index = m)
  <2>1. CASE Crosses(config, b)
    BY <2>1, <1>3, <1>4, <1>5, <1>6, Zenon DEF Linked, LinkPacked, LinkPlain, InitializePacked, InitializePlain
  <2>2. CASE ~Crosses(config, b)
    BY <2>2, <1>3, <1>4, <1>5, <1>6, Zenon DEF Linked, LinkPacked, LinkPlain
  <2> QED BY <2>1, <2>2, Zenon
<1> QED BY <1>7, <1>8, Zenon DEF src, dst, m

LinkStep(b, e) ==
    /\ arr' = [arr EXCEPT ![Dest(b)] = Linked(Source(b, e), Dest(b))]
    /\ bridge' = [bridge EXCEPT ![b] = Ptrs(Source(b, e), Dest(b))]

\* Linking bridge b joins its ends and leaves the other bridges alone.
LEMMA LinkWires ==
    ASSUME Typed, Wired(Past), NEW b \in Bridges, NEW e \in 1 .. NEpochs, LinkStep(b, e),
           config' = config
    PROVE  /\ arr' \in [Arrays -> [txns : Pointers, index : Pointers, size : Nat]]
           /\ bridge' \in [Bridges -> [src : Pointers, dst : Pointers, from : Pointers,
                               from_index : Pointers, to : Pointers, to_index : Pointers]]
           /\ \A k \in 1 .. NEpochs : Points(TA(k))' /\ arr'[TA(k)].size = arr[TA(k)].size
           /\ Points(IO)' /\ Points(Plans)'
           /\ \A b2 \in Bridges : arr'[Dest(b2)].txns = Null \/ Points(Dest(b2))'
           /\ Joins(b, e)'
           /\ \A b2 \in Bridges, k \in 1 .. NEpochs : b2 # b /\ Joins(b2, k) => Joins(b2, k)'
<1> DEFINE src == Source(b, e)
           dst == Dest(b)
           m == Memory(config, dst)
           L == Linked(src, dst)
<1>1. config.execution_device \in {"CPU", "GPU"}
  BY ConfigIs, Zenon DEF Typed
<1>2. /\ src \in Arrays /\ dst \in Arrays /\ m \in Arrays /\ Memory(config, src) = src
      /\ src \in {TA(e), IO, Plans} /\ dst \notin {IO, Plans} /\ (\A k : dst # TA(k))
      /\ \A b2 \in Bridges : dst = Dest(b2) => b = b2
  BY <1>1, BridgeIs
<1>3. \A b2 \in Bridges : Dest(b2) \in Arrays
  BY EndsAre, ArraysAre, Zenon DEF Bridges
<1>4. Points(src)
  BY <1>2, Zenon DEF Wired
<1>5. /\ L \in [txns : Pointers, index : Pointers, size : Nat]
      /\ L.txns = m /\ (config.packed => L.index = m)
  BY <1>4, LinkedIs, Zenon DEF Wired
<1> HIDE DEF L, m
<1>6. arr' = [arr EXCEPT ![dst] = L]
  BY Zenon DEF LinkStep, L
<1>7. arr' \in [Arrays -> [txns : Pointers, index : Pointers, size : Nat]]
  BY <1>5, <1>6, Zenon DEF Typed
<1>8. arr'[dst] = L /\ \A a \in Arrays : a # dst => arr'[a] = arr[a]
  BY <1>2, <1>6, Zenon DEF Typed
<1>9. Points(dst)'
  BY <1>5, <1>8, Zenon DEF Points, m
<1>10. \A a \in Arrays : a # dst /\ Points(a) => Points(a)'
  BY <1>8, Zenon DEF Points
<1>11. Ptrs(src, dst) = [src |-> src, dst |-> dst, from |-> arr[src].txns,
                         from_index |-> arr[src].index, to |-> L.txns, to_index |-> L.index]
  BY Zenon DEF Ptrs, L
<1>12. /\ bridge' \in [Bridges -> [src : Pointers, dst : Pointers, from : Pointers,
                               from_index : Pointers, to : Pointers, to_index : Pointers]]
       /\ bridge'[b] = Ptrs(src, dst)
       /\ \A b2 \in Bridges : b2 # b => bridge'[b2] = bridge[b2]
  <2>1. src \in Pointers /\ dst \in Pointers /\ arr[src] \in [txns : Pointers, index : Pointers, size : Nat]
    BY <1>2, ZenonT(40) DEF Typed, Pointers
  <2>2. Ptrs(src, dst) \in [src : Pointers, dst : Pointers, from : Pointers,
                               from_index : Pointers, to : Pointers, to_index : Pointers]
    BY <2>1, <1>5, <1>11
  <2>3. bridge' = [bridge EXCEPT ![b] = Ptrs(src, dst)]
    BY ZenonT(40) DEF LinkStep
  <2> QED BY <2>2, <2>3, Zenon DEF Typed
<1>13. Joins(b, e)'
  BY <1>4, <1>2, <1>5, <1>9, <1>11, <1>12 DEF Joins, Points, m
<1>14. \A b2 \in Bridges, k \in 1 .. NEpochs : b2 # b /\ Joins(b2, k) => Joins(b2, k)'
  BY <1>2, <1>3, <1>10, <1>12, Zenon DEF Joins
<1>15. \A b2 \in Bridges : arr'[Dest(b2)].txns = Null \/ Points(Dest(b2))'
  BY <1>2, <1>3, <1>8, <1>9, <1>10, Zenon DEF Wired
<1>16. \A k \in 1 .. NEpochs : Points(TA(k))' /\ arr'[TA(k)].size = arr[TA(k)].size
  BY <1>2, <1>8, <1>10, ArraysAre, Zenon DEF Wired
<1>17. Points(IO)' /\ Points(Plans)'
  BY <1>2, <1>8, <1>10, ArraysAre, Zenon DEF Wired
<1> QED BY <1>7, <1>12, <1>13, <1>14, <1>15, <1>16, <1>17, ZenonT(40)

\* A step of the constructor keeps the invariant.
LEMMA ConstructorKeeps ==
    ASSUME IInv, epoch = 0, Link
    PROVE  IInv'
<1> USE DEF IInv, Flow
<1>1. PICK b \in Bridges :
        /\ Now = <<"link", b>>
        /\ \/ epoch' = 0 /\ Past' = Past \cup {Now} /\ b # "plan"
           \/ /\ epoch' = 1 /\ pc' = 1 /\ Past' = {}
              /\ \A b2 \in Bridges : <<"link", b2>> \in Past \cup {Now}
  BY Construct, Zenon DEF Link
<1>2. config' = config /\ types' = types /\ pc' \in 1 .. Len(RunEpoch')
  BY Construct, Zenon DEF Link
<1>3. Arg = b
  BY <1>1 DEF Now, Arg
<1>4. 1 \in 1 .. NEpochs
  BY Constants
<1>5. LinkStep(b, 1)
  BY <1>3, Zenon DEF Link, LinkStep
<1>6. /\ arr' \in [Arrays -> [txns : Pointers, index : Pointers, size : Nat]]
      /\ bridge' \in [Bridges -> [src : Pointers, dst : Pointers, from : Pointers,
                               from_index : Pointers, to : Pointers, to_index : Pointers]]
      /\ \A k \in 1 .. NEpochs : Points(TA(k))' /\ arr'[TA(k)].size = arr[TA(k)].size
      /\ Points(IO)' /\ Points(Plans)'
      /\ \A b2 \in Bridges : arr'[Dest(b2)].txns = Null \/ Points(Dest(b2))'
      /\ Joins(b, 1)'
      /\ \A b2 \in Bridges, k \in 1 .. NEpochs : b2 # b /\ Joins(b2, k) => Joins(b2, k)'
  BY <1>2, <1>4, <1>5, LinkWires, Zenon
<1>7. UNCHANGED <<mem, packed_size, copying, tables, submitted, executed>>
  BY Zenon DEF Link
<1>8. \A x \in Past \cup {Now} : x[1] = "link"
  BY OnlyLinks, Zenon
<1>9. \A x \in Past' : x \in Past \cup {Now}
  BY <1>1, Zenon
<1>10. Typed'
  <2>1. epoch' \in 0 .. NEpochs + 1 /\ ~(epoch' > NEpochs)
    BY <1>1, Constants
  <2> QED BY <2>1, <1>2, <1>6, <1>7, ZenonT(40) DEF Typed
<1>11. Generator'
  BY <1>2, <1>6, <1>7, GeneratorKept, Zenon
<1>12. Wired(Past)'
  <2>1. ASSUME NEW b2 \in Bridges, epoch' > 0 \/ <<"link", b2>> \in Past'
        PROVE  \E k \in 1 .. NEpochs : Joins(b2, k)'
    <3>1. CASE b2 = b
      BY <3>1, <1>4, <1>6, Zenon
    <3>2. CASE b2 # b
      <4>1. <<"link", b2>> # Now
        BY <3>2, <1>1, Zenon
      <4>2. <<"link", b2>> \in Past
        BY <4>1, <2>1, <1>1
      <4>3. PICK k \in 1 .. NEpochs : Joins(b2, k)
        BY <4>2, Zenon DEF Wired
      <4> QED BY <4>3, <3>2, <1>6, Zenon
    <3> QED BY <3>1, <3>2, Zenon
  <2>2. ~(epoch' > 0 /\ <<"link", "input">> \in Past')
    BY <1>1
  <2> QED BY <2>1, <2>2, <1>6, Zenon DEF Wired
<1>13. Filled(Past)'
  <2>1. \A x \in Builds \cup Kernels : x \notin Past'
    BY <1>8, <1>9 DEF Builds, Kernels
  <2> QED BY <2>1, <1>7, Zenon DEF Filled, Builds, Kernels
<1>14. \A b2 \in Bridges : Copied(Past, b2)'
  <2> SUFFICES ASSUME NEW b2 \in Bridges PROVE Copied(Past, b2)'
    BY Zenon
  <2>1. <<"start", b2>> \notin Past' /\ <<"start", b2>> \notin Past
    BY <1>8, <1>9
  <2>2. copying[b2] = {} /\ b2 \notin tables
    BY <2>1, Zenon DEF Copied
  <2> QED BY <2>1, <2>2, <1>7, Zenon DEF Copied
<1>15. ExecutorGetsItsEpoch'
  BY <1>1 DEF ExecutorGetsItsEpoch
<1> QED BY <1>10, <1>11, <1>12, <1>13, <1>14, <1>15, Zenon

(***************************************************************************)
(* The steps of an epoch.                                                  *)
(***************************************************************************)

\* The step a handler stands for.
LEMMA NowIs ==
    ASSUME Typed, epoch # 0, NEW op, At(op)
    PROVE  /\ epoch \in 1 .. NEpochs /\ Now \in StepSet /\ Now[1] = op /\ Now[2] = Arg
           /\ Now = <<op, Arg>>
           /\ Ordered(Past, Now)
<1>1. epoch \in 1 .. NEpochs /\ epoch \in Nat \ {0} /\ pc \in 1 .. Len(RunEpoch)
  BY Constants DEF Typed, At, Running
<1>2. Ordered(Past, Now)
  BY <1>1, ConfigIs, Schedule, Zenon DEF Typed
<1>3. Now \in StepSet
  BY <1>2, Zenon DEF Ordered
<1>4. Now[1] = op /\ Now[2] = Arg
  BY Zenon DEF At, Arg, Now
<1>5. Now = <<Now[1], Now[2]>>
  BY <1>3 DEF StepSet
<1> QED BY <1>1, <1>2, <1>3, <1>4, <1>5, ZenonT(40)

\* Linking the input bridge to this epoch's array keeps the invariant.
LEMMA LinkKeeps ==
    ASSUME IInv, epoch # 0, Link
    PROVE  IInv'
<1> USE DEF IInv, Flow
<1>1. /\ epoch \in 1 .. NEpochs /\ Now = <<"link", "input">> /\ Arg = "input"
      /\ Ordered(Past, Now)
  <2>1. At("link")
    BY Zenon DEF Link
  <2> QED BY <2>1, NowIs DEF StepSet
<1>2. /\ config' = config /\ types' = types /\ epoch' = epoch
      /\ Past' = Past \cup {Now} /\ pc' \in 1 .. Len(RunEpoch') /\ pc' # 1
      /\ ~(epoch' > NEpochs)
  BY <1>1, Advance, Zenon DEF Link
<1>3. LinkStep("input", epoch)
  BY <1>1, Zenon DEF Link, LinkStep
<1>4. "input" \in Bridges
  BY Zenon DEF Bridges
<1>5. /\ arr' \in [Arrays -> [txns : Pointers, index : Pointers, size : Nat]]
      /\ bridge' \in [Bridges -> [src : Pointers, dst : Pointers, from : Pointers,
                               from_index : Pointers, to : Pointers, to_index : Pointers]]
      /\ \A k \in 1 .. NEpochs : Points(TA(k))' /\ arr'[TA(k)].size = arr[TA(k)].size
      /\ Points(IO)' /\ Points(Plans)'
      /\ \A b2 \in Bridges : arr'[Dest(b2)].txns = Null \/ Points(Dest(b2))'
      /\ Joins("input", epoch)'
      /\ \A b2 \in Bridges, k \in 1 .. NEpochs : b2 # "input" /\ Joins(b2, k) => Joins(b2, k)'
  BY <1>1, <1>2, <1>3, <1>4, LinkWires, Zenon
<1>6. UNCHANGED <<mem, packed_size, copying, tables, submitted, executed>>
  BY Zenon DEF Link
<1>7. Typed'
  BY <1>1, <1>2, <1>5, <1>6, Zenon DEF Typed
<1>8. Generator'
  BY <1>2, <1>5, <1>6, GeneratorKept, Zenon
<1>9. Wired(Past)'
  <2>1. \A b2 \in Bridges : \E k \in 1 .. NEpochs : Joins(b2, k)'
    <3> SUFFICES ASSUME NEW b2 \in Bridges PROVE \E k \in 1 .. NEpochs : Joins(b2, k)'
      BY Zenon
    <3>1. CASE b2 = "input"
      <4>1. \E k \in 1 .. NEpochs : k = epoch
        BY <1>1, Zenon
      <4> QED BY <3>1, <4>1, <1>2, <1>5, Zenon DEF Joins, Points
    <3>2. CASE b2 # "input"
      <4>0. epoch > 0
        BY <1>1
      <4>1. PICK k \in 1 .. NEpochs : Joins(b2, k)
        BY <4>0, Zenon DEF Wired
      <4> QED BY <4>1, <3>2, <1>5, Zenon
    <3> QED BY <3>1, <3>2, Zenon
  <2> QED BY <2>1, <1>5, Zenon DEF Wired
<1>10. Filled(Past)'
  <2>1. Same(Builds \cup Kernels)
    BY <1>1, <1>2 DEF Same, Builds, Kernels
  <2> QED BY <2>1, <1>2, <1>6, FilledKept, Zenon
<1>11. \A b2 \in Bridges : Copied(Past, b2)'
  <2> SUFFICES ASSUME NEW b2 \in Bridges PROVE Copied(Past, b2)'
    BY Zenon
  <2>1. Same({<<"start", b2>>, <<"finish", b2>>})
    BY <1>1, <1>2 DEF Same
  <2> QED BY <2>1, <1>2, <1>6, CopiedKept, Zenon
<1>12. ExecutorGetsItsEpoch'
  BY <1>2, Zenon DEF ExecutorGetsItsEpoch
<1> QED BY <1>7, <1>8, <1>9, <1>10, <1>11, <1>12, ZenonT(40)

\* StartTransfer's copy is as long as the source's transactions.
LEMMA LengthIs ==
    ASSUME Typed, Generator, Flow(Past), epoch \in 1 .. NEpochs, NEW b \in Bridges,
           Ordered(Past, Now), Now = <<"start", b>>, Crosses(config, b), config.packed
    PROVE  PackedLength(b) = Place(config, types, SizeOf(b), epoch)[NTxns]
<1>0. epoch > 0 /\ config.execution_device \in {"CPU", "GPU"} /\ NTxns \in 0 .. NTxns
  BY ConfigIs, Constants DEF Typed
<1>1. CASE b = "input"
  <2>1. <<"link", "input">> \in Past
    BY <1>1, Zenon DEF Ordered, Bef
  <2>2. bridge[b].src = TA(epoch)
    BY <1>0, <1>1, <2>1, EndsAre, Zenon DEF Flow, Wired, Joins
  <2>3. Device(TA(epoch)) # "GPU"
    BY Zenon DEF Device, TA
  <2>4. arr[TA(epoch)].size = Place(config, types, InputSize, epoch)[NTxns]
    BY Zenon DEF Generator
  <2> QED BY <1>1, <2>2, <2>3, <2>4, Zenon DEF PackedLength, SizeOf
<1>2. CASE b # "input"
  <2>1. b \in {"param", "plan"}
    BY <1>2, Zenon DEF Crosses
  <2>2. PICK e \in 1 .. NEpochs : Joins(b, e)
    BY <1>0, Zenon DEF Flow, Wired
  <2>3. bridge[b].src = Source(b, e) /\ bridge[b].from_index = Source(b, e)
    BY <2>2, Zenon DEF Joins
  <2>4. Device(Source(b, e)) = "GPU"
    BY <1>0, <1>2, DeviceIs, Zenon
  <2>5. PackedLength(b) = mem[Source(b, e)].index[NTxns]
    BY <2>3, <2>4, Zenon DEF PackedLength
  <2>6. CASE b = "param"
    <3>1. <<"build", "index_output">> \in Past
      BY <2>6, Zenon DEF Ordered, Bef
    <3>2. Indexed(IO, ParamSize, epoch)
      BY <3>1, Zenon DEF Flow, Filled
    <3> QED BY <2>5, <2>6, <3>2, <1>0, EndsAre, Zenon DEF Indexed, SizeOf
  <2>7. CASE b = "plan"
    <3>1. <<"build", "initialization_output">> \in Past
      BY <2>7, Zenon DEF Ordered, Bef
    <3>2. Indexed(Plans, PlanSize, epoch)
      BY <3>1, Zenon DEF Flow, Filled
    <3> QED BY <2>5, <2>7, <3>2, <1>0, EndsAre, Zenon DEF Indexed, SizeOf
  <2> QED BY <2>1, <2>6, <2>7, Zenon
<1> QED BY <1>1, <1>2, Zenon

\* Bridge b is linked by the time it is started, and Link's devices are the
\* ones StartTransfer compares.
LEMMA CopiesIs ==
    ASSUME Typed, Flow(Past), epoch \in 1 .. NEpochs, NEW b \in Bridges,
           b = "input" => <<"link", "input">> \in Past
    PROVE  /\ Joins(b, epoch) 
           /\ Copies(b) <=> Crosses(config, b)
<1>0. epoch > 0 /\ config.execution_device \in {"CPU", "GPU"}
  BY ConfigIs DEF Typed
<1>1. Joins(b, epoch)
  <2>1. CASE b = "input"
    BY <2>1, <1>0, Zenon DEF Flow, Wired
  <2>2. CASE b # "input"
    <3>1. PICK e \in 1 .. NEpochs : Joins(b, e)
      BY <1>0, Zenon DEF Flow, Wired
    <3>2. Source(b, e) = Source(b, epoch)
      BY <2>2, Zenon DEF Source
    <3> QED BY <3>1, <3>2, Zenon DEF Joins
  <2> QED BY <2>1, <2>2, Zenon
<1>2. Copies(b) <=> Crosses(config, b)
  BY <1>0, <1>1, DeviceIs, Zenon DEF Joins, Copies
<1> QED BY <1>1, <1>2, Zenon

\* What StartTransfer does to bridge b.
LEMMA StartIs ==
    ASSUME IInv, epoch # 0, StartPlain \/ StartPacked
    PROVE  \E b \in Bridges :
             /\ epoch \in 1 .. NEpochs /\ Now = <<"start", b>> /\ Step
             /\ UNCHANGED <<mem, bridge, submitted, executed>>
             /\ copying' \in [Bridges -> SUBSET Int]
             /\ copying'[b] = IF Crosses(config, b) THEN Span(config, types, b, epoch) ELSE {}
             /\ \A b2 \in Bridges : b2 # b => copying'[b2] = copying[b2]
             /\ tables' = IF config.packed /\ Crosses(config, b) THEN tables \cup {b} ELSE tables
             /\ b \notin tables
             /\ packed_size' \in [Bridges -> Nat]
             /\ \A b2 \in Bridges : b2 # b => packed_size'[b2] = packed_size[b2]
             /\ b \in tables' => packed_size'[b] = Place(config, types, SizeOf(b), epoch)[NTxns]
             /\ arr' \in [Arrays -> [txns : Pointers, index : Pointers, size : Nat]]
             /\ SamePointers
             /\ \A k \in 1 .. NEpochs : arr'[TA(k)].size = arr[TA(k)].size
<1> USE DEF IInv
<1> DEFINE b == Arg
           n == Place(config, types, SizeOf(b), epoch)[NTxns]
<1>1. /\ epoch \in 1 .. NEpochs /\ Now = <<"start", b>> /\ Ordered(Past, Now)
      /\ b \in Bridges /\ Step /\ UNCHANGED <<mem, bridge, submitted, executed>>
  <2>1. At("start")
    BY Zenon DEF StartPlain, StartPacked
  <2>2. /\ epoch \in 1 .. NEpochs /\ Now = <<"start", b>> /\ Ordered(Past, Now)
        /\ Now \in StepSet
    BY <2>1, NowIs, Zenon
  <2>3. b \in Bridges
    BY <2>2, Zenon DEF StepSet, Bridges
  <2>4. Step /\ UNCHANGED <<mem, bridge, submitted, executed>>
    BY Zenon DEF StartPlain, StartPacked
  <2> QED BY <2>2, <2>3, <2>4, Zenon
<1> HIDE DEF b
<1>2. config.packed \in BOOLEAN /\ config.execution_device \in {"CPU", "GPU"}
  BY ConfigIs, Zenon DEF Typed
<1>3. copying[b] = {} /\ b \notin tables
  <2>1. Now \notin Past
    BY <1>1, Zenon DEF Ordered
  <2> QED BY <2>1, <1>1, Zenon DEF Flow, Copied
<1>4. Joins(b, epoch) /\ (Copies(b) <=> Crosses(config, b))
  <2>1. b = "input" => <<"link", "input">> \in Past
    BY <1>1, Zenon DEF Ordered, Bef
  <2> QED BY <1>1, <2>1, CopiesIs, Zenon
<1>5. Source(b, epoch) \in Arrays /\ Dest(b) \in Arrays /\ (\A k : Dest(b) # TA(k)) /\ SizeOf(b) \in Sizes
  BY <1>1, BridgeEnds, ZenonT(40)
<1>6. n \in Nat /\ Span(config, types, b, epoch) = 0 .. n - 1
  <2>1. Layout(Place(config, types, SizeOf(b), epoch))
    BY <1>1, <1>5, Placed, Zenon
  <2> QED BY <2>1, Constants DEF Layout, Span
<1>7. ~config.packed => n = NTxns /\ 0 .. n - 1 = Txns
  BY Constants, Zenon DEF Place, Txns
<1>8. config.packed /\ Crosses(config, b) => PackedLength(b) = n
  BY <1>1, LengthIs, Zenon
<1> HIDE DEF n
<1>9. CASE ~config.packed
  <2>1. /\ copying' = [copying EXCEPT ![b] = IF Copies(b) THEN Txns ELSE {}]
        /\ UNCHANGED <<arr, packed_size, tables>>
    BY <1>9, Zenon DEF StartPlain, StartPacked, b
  <2>2. Txns \in SUBSET Int
    BY Constants DEF Txns
  <2>3. /\ copying' \in [Bridges -> SUBSET Int]
        /\ copying'[b] = IF Crosses(config, b) THEN Span(config, types, b, epoch) ELSE {}
        /\ \A b2 \in Bridges : b2 # b => copying'[b2] = copying[b2]
    BY <1>1, <1>4, <1>6, <1>7, <1>9, <2>1, <2>2, ZenonT(40) DEF Typed
  <2>4. SamePointers
    BY <2>1, Zenon DEF SamePointers
  <2> QED BY <1>1, <1>3, <1>9, <2>1, <2>3, <2>4, ZenonT(40) DEF Typed
<1>10. CASE config.packed /\ Crosses(config, b)
  <2> DEFINE src == Source(b, epoch)
             dst == Dest(b)
  <2>1. /\ packed_size' = [packed_size EXCEPT ![b] = n]
        /\ copying' = [copying EXCEPT ![b] = 0 .. n - 1]
        /\ tables' = tables \cup {b}
        /\ arr' = [arr EXCEPT ![src].size = n, ![dst].size = n]
    BY <1>4, <1>8, <1>10, Zenon DEF StartPlain, StartPacked, b, Joins
  <2>2. 0 .. n - 1 \in SUBSET Int
    BY <1>6
  <2>3. /\ copying' \in [Bridges -> SUBSET Int]
        /\ copying'[b] = Span(config, types, b, epoch)
        /\ \A b2 \in Bridges : b2 # b => copying'[b2] = copying[b2]
    BY <1>1, <1>6, <2>1, <2>2, Zenon DEF Typed
  <2>4. /\ packed_size' \in [Bridges -> Nat] /\ packed_size'[b] = n
        /\ \A b2 \in Bridges : b2 # b => packed_size'[b2] = packed_size[b2]
    BY <1>1, <1>6, <2>1, Zenon DEF Typed
  <2>5. /\ arr' \in [Arrays -> [txns : Pointers, index : Pointers, size : Nat]]
        /\ SamePointers
        /\ \A a \in Arrays : arr'[a].size = IF a \in {src, dst} THEN n ELSE arr[a].size
    <3>1. /\ arr \in [Arrays -> [txns : Pointers, index : Pointers, size : Nat]]
          /\ src \in Arrays /\ dst \in Arrays /\ n \in Nat
      BY <1>5, <1>6, Zenon DEF Typed
    <3> HIDE DEF src, dst
    <3> DEFINE r == [arr EXCEPT ![src].size = n]
    <3>2. /\ r \in [Arrays -> [txns : Pointers, index : Pointers, size : Nat]]
          /\ \A a \in Arrays : /\ r[a].txns = arr[a].txns /\ r[a].index = arr[a].index
                              /\ r[a].size = IF a = src THEN n ELSE arr[a].size
      BY <3>1, Zenon
    <3>3. arr' = [r EXCEPT ![dst].size = n]
      BY <2>1, Zenon
    <3> HIDE DEF r
    <3>4. /\ arr' \in [Arrays -> [txns : Pointers, index : Pointers, size : Nat]]
          /\ \A a \in Arrays : /\ arr'[a].txns = r[a].txns /\ arr'[a].index = r[a].index
                              /\ arr'[a].size = IF a = dst THEN n ELSE r[a].size
      BY <3>1, <3>2, <3>3
    <3> QED BY <3>2, <3>4, ZenonT(40) DEF SamePointers
  <2>6. ASSUME NEW k \in 1 .. NEpochs PROVE arr'[TA(k)].size = arr[TA(k)].size
    <3>1. TA(k) \in Arrays /\ TA(k) # dst
      BY <1>5, ArraysAre, Zenon
    <3>2. CASE TA(k) = src
      <4>1. b = "input" /\ k = epoch
        BY <3>2, <1>1 DEF Source, Ends, TA, Bridges
      <4>2. arr[TA(k)].size = n
        BY <4>1, <1>10, Zenon DEF Generator, n, SizeOf
      <4> QED BY <4>2, <3>1, <3>2, <2>5, ZenonT(40)
    <3>3. CASE TA(k) # src
      BY <3>1, <3>3, <2>5, Zenon
    <3> QED BY <3>2, <3>3, Zenon
  <2> HIDE DEF src, dst
  <2> QED BY <1>1, <1>3, <1>10, <2>1, <2>3, <2>4, <2>5, <2>6, ZenonT(40) DEF n
<1>11. CASE config.packed /\ ~Crosses(config, b)
  <2>1. UNCHANGED <<packed_size, copying, tables, arr>>
    BY <1>4, <1>11, Zenon DEF StartPlain, StartPacked, b
  <2>2. SamePointers
    BY <2>1, Zenon DEF SamePointers
  <2> QED BY <1>1, <1>3, <1>11, <2>1, <2>2, Zenon DEF Typed
<1> QED BY <1>2, <1>9, <1>10, <1>11, Zenon

\* StartTransfer keeps the invariant.
LEMMA StartKeeps ==
    ASSUME IInv, epoch # 0, StartPlain \/ StartPacked
    PROVE  IInv'
<1> USE DEF IInv, Flow
<1>1. PICK b \in Bridges :
             /\ epoch \in 1 .. NEpochs /\ Now = <<"start", b>> /\ Step
             /\ UNCHANGED <<mem, bridge, submitted, executed>>
             /\ copying' \in [Bridges -> SUBSET Int]
             /\ copying'[b] = IF Crosses(config, b) THEN Span(config, types, b, epoch) ELSE {}
             /\ \A b2 \in Bridges : b2 # b => copying'[b2] = copying[b2]
             /\ tables' = IF config.packed /\ Crosses(config, b) THEN tables \cup {b} ELSE tables
             /\ b \notin tables
             /\ packed_size' \in [Bridges -> Nat]
             /\ \A b2 \in Bridges : b2 # b => packed_size'[b2] = packed_size[b2]
             /\ b \in tables' => packed_size'[b] = Place(config, types, SizeOf(b), epoch)[NTxns]
             /\ arr' \in [Arrays -> [txns : Pointers, index : Pointers, size : Nat]]
             /\ SamePointers
             /\ \A k \in 1 .. NEpochs : arr'[TA(k)].size = arr[TA(k)].size
  BY StartIs, Zenon
<1>2. /\ config' = config /\ types' = types /\ epoch' = epoch
      /\ Past' = Past \cup {Now} /\ pc' \in 1 .. Len(RunEpoch') /\ pc' # 1
      /\ ~(epoch' > NEpochs)
  <2>1. Now # <<"execute", "host">>
    BY <1>1, Zenon
  <2> QED BY <1>1, <2>1, Advance, Zenon
<1>3. Typed'
  <2>1. tables' \subseteq Bridges
    BY <1>1, Zenon DEF Typed
  <2> QED BY <2>1, <1>1, <1>2, Zenon DEF Typed
<1>4. Generator'
  BY <1>1, <1>2, GeneratorKept, Zenon
<1>5. Wired(Past)'
  <2>1. Same({<<"link", b2>> : b2 \in Bridges})
    BY <1>1, <1>2 DEF Same
  <2> QED BY <2>1, <1>1, <1>2, WiredKept, ZenonT(40)
<1>6. Filled(Past)'
  <2>1. Same(Builds \cup Kernels)
    BY <1>1, <1>2 DEF Same, Builds, Kernels
  <2> QED BY <2>1, <1>1, <1>2, FilledKept, ZenonT(40)
<1>7. \A b2 \in Bridges : Copied(Past, b2)'
  <2> SUFFICES ASSUME NEW b2 \in Bridges PROVE Copied(Past, b2)'
    BY Zenon
  <2>1. CASE b2 # b
    <3>1. Same({<<"start", b2>>, <<"finish", b2>>})
      BY <2>1, <1>1, <1>2 DEF Same
    <3> QED BY <2>1, <3>1, <1>1, <1>2, CopiedKept, ZenonT(40)
  <2>2. CASE b2 = b
    <3>1. Crosses(config, b) => <<"start", b>> \in Past' /\ <<"finish", b>> \notin Past'
      <4>1. Ordered(Past, Now) /\ Now \notin Past
        BY <1>1, ConfigIs, Schedule DEF Typed, Ordered
      <4>2. Crosses(config, b) => b \in {"input", "param", "plan"}
        BY Zenon DEF Crosses
      <4>3. Crosses(config, b) => <<"finish", b>> \notin Past
        BY <4>1, <4>2, <1>1, Zenon DEF Ordered, Bef
      <4> QED BY <4>3, <1>1, <1>2, ZenonT(40)
    <3> QED BY <2>2, <3>1, <1>1, <1>2, Zenon DEF Copied
  <2> QED BY <2>1, <2>2, Zenon
<1>8. ExecutorGetsItsEpoch'
  BY <1>2, ZenonT(40) DEF ExecutorGetsItsEpoch
<1> QED BY <1>3, <1>4, <1>5, <1>6, <1>7, <1>8, Zenon

\* FinishTransfer keeps the invariant.
LEMMA FinishKeeps ==
    ASSUME IInv, epoch # 0, FinishTransfer
    PROVE  IInv'
<1> USE DEF IInv, Flow
<1> DEFINE b == Arg
<1>1. /\ epoch \in 1 .. NEpochs /\ Now = <<"finish", b>> /\ Ordered(Past, Now) /\ Now \in StepSet
      /\ Step /\ copying[b] = {} /\ b \notin tables
      /\ UNCHANGED <<arr, mem, bridge, packed_size, copying, tables, submitted, executed>>
  <2>1. At("finish")
    BY Zenon DEF FinishTransfer
  <2> QED BY <2>1, NowIs, Zenon DEF FinishTransfer, Drained
<1> HIDE DEF b
<1>2. /\ config' = config /\ types' = types /\ epoch' = epoch
      /\ Past' = Past \cup {Now} /\ pc' \in 1 .. Len(RunEpoch') /\ pc' # 1
      /\ ~(epoch' > NEpochs)
  <2>1. Now # <<"execute", "host">>
    BY <1>1, Zenon
  <2> QED BY <1>1, <2>1, Advance, Zenon
<1>3. Typed'
  BY <1>1, <1>2, Zenon DEF Typed
<1>4. Generator'
  BY <1>1, <1>2, GeneratorKept, Zenon
<1>5. Wired(Past)'
  <2>1. Same({<<"link", b2>> : b2 \in Bridges}) /\ SamePointers
    BY <1>1, <1>2 DEF Same, SamePointers
  <2> QED BY <2>1, <1>1, <1>2, WiredKept, ZenonT(40)
<1>6. Filled(Past)'
  <2>1. Same(Builds \cup Kernels)
    BY <1>1, <1>2 DEF Same, Builds, Kernels
  <2> QED BY <2>1, <1>1, <1>2, FilledKept, ZenonT(40)
<1>7. \A b2 \in Bridges : Copied(Past, b2)'
  <2> SUFFICES ASSUME NEW b2 \in Bridges PROVE Copied(Past, b2)'
    BY Zenon
  <2>1. CASE b2 # b
    <3>1. Same({<<"start", b2>>, <<"finish", b2>>})
      BY <2>1, <1>1, <1>2 DEF Same
    <3> QED BY <3>1, <1>1, <1>2, CopiedKept, Zenon
  <2>2. CASE b2 = b
    <3>1. <<"start", b>> \in Past' => <<"start", b>> \in Past
      BY <1>1, <1>2, Zenon
    <3>2. Copied(Past, b)
      BY <2>2, Zenon
    <3> QED BY <2>2, <3>1, <3>2, <1>1, <1>2, Zenon DEF Copied
  <2> QED BY <2>1, <2>2, Zenon
<1>8. ExecutorGetsItsEpoch'
  BY <1>2, Zenon DEF ExecutorGetsItsEpoch
<1> QED BY <1>3, <1>4, <1>5, <1>6, <1>7, <1>8, Zenon

(***************************************************************************)
(* The streams.                                                            *)
(***************************************************************************)

\* A stream that has something to copy is that of a bridge between two
\* devices, between its StartTransfer and its FinishTransfer.
LEMMA InFlight ==
    ASSUME IInv, NEW b \in Bridges, copying[b] # {} \/ b \in tables
    PROVE  /\ epoch \in 1 .. NEpochs /\ Crosses(config, b) /\ Joins(b, epoch)
           /\ <<"start", b>> \in Past /\ <<"finish", b>> \notin Past
           /\ Ordered(Past, Now)
           /\ copying[b] \subseteq Span(config, types, b, epoch)
           /\ Span(config, types, b, epoch) \subseteq 0 .. Capacity
           /\ Source(b, epoch) \in Arrays /\ Dest(b) \in Arrays /\ Source(b, epoch) # Dest(b)
           /\ bridge[b].from = Source(b, epoch) /\ bridge[b].to = Dest(b)
           /\ config.packed => /\ bridge[b].from_index = Source(b, epoch)
                               /\ bridge[b].to_index = Dest(b)
<1> USE DEF IInv, Flow
<1>1. <<"start", b>> \in Past /\ <<"finish", b>> \notin Past /\ Crosses(config, b)
  BY Zenon DEF Copied
<1>2. epoch \in 1 .. NEpochs
  <2>1. CASE epoch = 0
    <3>1. \A x \in Past \cup {Now} : x[1] = "link"
      BY <2>1, OnlyLinks, Zenon
    <3> QED BY <3>1, <1>1
  <2>2. CASE epoch = NEpochs + 1
    <3>1. 1 .. pc - 1 = {}
      BY <2>2, Constants DEF Typed
    <3> QED BY <3>1, <1>1, Zenon DEF Past
  <2> QED BY <2>1, <2>2, Constants DEF Typed
<1>3. Ordered(Past, Now)
  BY <1>2, ConfigIs, Schedule DEF Typed
<1>4. Joins(b, epoch)
  <2>1. b = "input" => <<"link", "input">> \in Past
    BY <1>1, <1>3, Zenon DEF Ordered, Bef
  <2> QED BY <1>2, <2>1, CopiesIs, Zenon
<1>5. config.execution_device \in {"CPU", "GPU"}
  BY ConfigIs, Zenon DEF Typed
<1>6. /\ Source(b, epoch) \in Arrays /\ Dest(b) \in Arrays /\ Source(b, epoch) # Dest(b)
      /\ Memory(config, Dest(b)) = Dest(b) /\ SizeOf(b) \in Sizes
  <2>1. /\ Source(b, epoch) \in Arrays /\ Dest(b) \in Arrays /\ Source(b, epoch) # Dest(b)
        /\ SizeOf(b) \in Sizes
    BY <1>2, BridgeEnds, ZenonT(40)
  <2>2. Memory(config, Dest(b)) = Dest(b)
    BY <1>1, <1>2, <1>5, OwnDest, SMTT(20)
  <2> QED BY <2>1, <2>2, Zenon
<1>7. Span(config, types, b, epoch) \subseteq 0 .. Capacity
  <2>1. Layout(Place(config, types, SizeOf(b), epoch))
    BY <1>2, <1>6, Placed, Zenon
  <2> QED BY <2>1, Constants DEF Layout, Span
<1>8. copying[b] \subseteq Span(config, types, b, epoch)
  BY <1>1, Zenon DEF Copied
<1> QED BY <1>1, <1>2, <1>3, <1>4, <1>6, <1>7, <1>8, Zenon DEF Joins

\* A stream's step, of bridge b, writes nothing but the destination's memory.
StreamStep(b) ==
    /\ UNCHANGED <<config, types, epoch, pc, arr, bridge, packed_size, submitted, executed>>
    /\ \A b2 \in Bridges : b2 # b => copying'[b2] = copying[b2] /\ (b2 \in tables' <=> b2 \in tables)
    /\ \A x \in Arrays : x # Dest(b) => mem'[x] = mem[x]
    /\ copying' \in [Bridges -> SUBSET Int] /\ tables' \subseteq Bridges
    /\ mem' \in [Arrays -> [txns : [0 .. Capacity -> Contents], index : [0 .. NTxns -> Nat]]]

\* Such a step keeps the invariant if it keeps what is said of its bridge.
LEMMA StreamKeeps ==
    ASSUME IInv, NEW b \in Bridges, copying[b] # {} \/ b \in tables, StreamStep(b),
           Past' = Past => Copied(Past, b)'
    PROVE  IInv'
<1> USE DEF IInv, Flow
<1>1. RunEpoch' = RunEpoch /\ Past' = Past
  <2>1. RunEpoch' = RunEpoch
    BY Zenon DEF StreamStep, RunEpoch, RunEpochTpcc, RunEpochYcsb, Constructor
  <2> QED BY <2>1, Zenon DEF Past, StreamStep
<1>2. config.execution_device \in {"CPU", "GPU"}
  BY ConfigIs, Zenon DEF Typed
<1>3. epoch \in 1 .. NEpochs
  BY InFlight, Zenon
<1>4. \A a \in {IO, Plans} : a \in Arrays /\ a # Dest(b) /\ mem'[a] = mem[a]
  BY <1>3, BridgeEnds, ArraysAre, Zenon DEF StreamStep
<1>5. \A k \in 1 .. NEpochs : TA(k) # Dest(b) /\ mem'[TA(k)] = mem[TA(k)]
  BY <1>3, BridgeEnds, ArraysAre, Zenon DEF StreamStep
<1>6. Typed'
  BY <1>1, Zenon DEF Typed, StreamStep
<1>7. Generator'
  BY <1>5, GeneratorKept, Zenon DEF StreamStep
<1>8. Wired(Past)'
  <2>1. Same({<<"link", b2>> : b2 \in Bridges}) /\ SamePointers
    BY <1>1, Zenon DEF Same, SamePointers, StreamStep
  <2> QED BY <2>1, WiredKept, Zenon DEF StreamStep
<1>9. Filled(Past)'
  <2>1. Same(Builds \cup Kernels)
    BY <1>1, Zenon DEF Same
  <2> QED BY <2>1, <1>4, FilledKept, Zenon DEF StreamStep
<1>10. \A b2 \in Bridges : Copied(Past, b2)'
  <2> SUFFICES ASSUME NEW b2 \in Bridges PROVE Copied(Past, b2)'
    BY Zenon
  <2>1. CASE b2 # b
    <3>1. Same({<<"start", b2>>, <<"finish", b2>>})
      BY <1>1, Zenon DEF Same
    <3>2. /\ Dest(b2) \in Arrays /\ Dest(b2) # Dest(b)
          /\ Source(b2, epoch) \in Arrays /\ Source(b2, epoch) \in {TA(epoch), IO, Plans}
      BY <2>1, <1>3, BridgeEnds, Zenon
    <3>3. mem'[Dest(b2)] = mem[Dest(b2)] /\ mem'[Source(b2, epoch)] = mem[Source(b2, epoch)]
      BY <3>2, <1>3, <1>4, <1>5, Zenon DEF StreamStep
    <3> QED BY <2>1, <3>1, <3>3, CopiedKept, Zenon DEF StreamStep
  <2>2. CASE b2 = b
    BY <2>2, <1>1, Zenon
  <2> QED BY <2>1, <2>2, Zenon
<1>11. ExecutorGetsItsEpoch'
  BY Zenon DEF ExecutorGetsItsEpoch, StreamStep
<1> QED BY <1>6, <1>7, <1>8, <1>9, <1>10, <1>11, Zenon

\* A stream's copy of one offset keeps the invariant.
LEMMA CopyBytesKeeps ==
    ASSUME IInv, NEW b \in Bridges, CopyBytes(b)
    PROVE  IInv' /\ StreamStep(b) /\ copying'[b] # copying[b]
<1>1. PICK o \in copying[b] :
        /\ mem' = [mem EXCEPT ![bridge[b].to].txns[o] = mem[bridge[b].from].txns[o]]
        /\ copying' = [copying EXCEPT ![b] = @ \ {o}]
  BY Zenon DEF CopyBytes
<1>2. UNCHANGED <<config, types, epoch, pc, arr, bridge, packed_size, tables, submitted, executed>>
  BY Zenon DEF CopyBytes
<1>3. copying[b] # {}
  BY <1>1, Zenon
<1> DEFINE from == Source(b, epoch)
           to == Dest(b)
           S == Span(config, types, b, epoch)
<1>4. /\ epoch \in 1 .. NEpochs /\ Crosses(config, b)
      /\ <<"start", b>> \in Past /\ <<"finish", b>> \notin Past
      /\ copying[b] \subseteq S /\ S \subseteq 0 .. Capacity
      /\ from \in Arrays /\ to \in Arrays /\ from # to
      /\ bridge[b].from = from /\ bridge[b].to = to
  BY <1>3, InFlight, Zenon
<1>5. /\ mem \in [Arrays -> [txns : [0 .. Capacity -> Contents], index : [0 .. NTxns -> Nat]]]
      /\ copying \in [Bridges -> SUBSET Int] /\ tables \subseteq Bridges
  BY Zenon DEF IInv, Typed
<1> HIDE DEF from, to, S
<1>6. o \in 0 .. Capacity /\ mem[from].txns[o] \in Contents
  BY <1>1, <1>4, <1>5, ZenonT(40)
<1>7. /\ mem' \in [Arrays -> [txns : [0 .. Capacity -> Contents], index : [0 .. NTxns -> Nat]]]
      /\ \A x \in Arrays : x # to => mem'[x] = mem[x]
      /\ mem'[to].index = mem[to].index /\ mem'[to].txns[o] = mem[from].txns[o]
      /\ \A p \in 0 .. Capacity : p # o => mem'[to].txns[p] = mem[to].txns[p]
  BY <1>1, <1>4, <1>5, <1>6, Zenon
<1>8. /\ copying' \in [Bridges -> SUBSET Int] /\ copying'[b] = copying[b] \ {o}
      /\ \A b2 \in Bridges : b2 # b => copying'[b2] = copying[b2]
  BY <1>1, <1>5, Zenon
<1>9. StreamStep(b)
  BY <1>2, <1>5, <1>7, <1>8, Zenon DEF StreamStep, to
<1>10. Copied(Past, b)
  BY Zenon DEF IInv, Flow
<1>11. ASSUME Past' = Past PROVE Copied(Past, b)'
  <2>1. \A p \in S \ copying'[b] : mem'[to].txns[p] = mem'[from].txns[p]
    <3> SUFFICES ASSUME NEW p \in S \ copying'[b] PROVE mem'[to].txns[p] = mem'[from].txns[p]
      BY Zenon
    <3>1. CASE p = o
      BY <3>1, <1>4, <1>7, Zenon
    <3>2. CASE p # o
      <4>1. p \in S \ copying[b] /\ p \in 0 .. Capacity
        BY <3>2, <1>4, <1>8, Zenon
      <4>2. mem[to].txns[p] = mem[from].txns[p]
        BY <4>1, <1>4, <1>10, Zenon DEF Copied, S, from, to
      <4> QED BY <3>2, <4>1, <4>2, <1>4, <1>7, Zenon
    <3> QED BY <3>1, <3>2, Zenon
  <2>2. copying'[b] \subseteq S
    BY <1>4, <1>8, Zenon
  <2>3. config.packed /\ b \notin tables =>
            \A i \in Txns : mem'[to].index[i] = mem'[from].index[i]
    BY <1>4, <1>7, <1>10, ZenonT(40) DEF Copied, from, to
  <2>4. b \in tables => config.packed /\ packed_size[b] = Place(config, types, SizeOf(b), epoch)[NTxns]
    BY <1>10, Zenon DEF Copied
  <2> QED BY <1>2, <1>4, <1>11, <2>1, <2>2, <2>3, <2>4, ZenonT(40) DEF Copied, S, from, to
<1>12. copying'[b] # copying[b]
  BY <1>1, <1>8, Zenon
<1> QED BY <1>3, <1>9, <1>11, <1>12, StreamKeeps, Zenon

\* A stream's copy of the offset table keeps the invariant.
LEMMA CopyTableKeeps ==
    ASSUME IInv, NEW b \in Bridges, CopyTable(b)
    PROVE  IInv' /\ StreamStep(b) /\ copying[b] = {}
<1>1. /\ b \in tables /\ copying[b] = {}
      /\ tables' = tables \ {b}
      /\ UNCHANGED <<config, types, epoch, pc, arr, bridge, packed_size, copying,
                     submitted, executed>>
  BY Zenon DEF CopyTable
<1> DEFINE from == Source(b, epoch)
           to == Dest(b)
           S == Span(config, types, b, epoch)
<1>2. Copied(Past, b) /\ config.packed
  BY <1>1, Zenon DEF IInv, Flow, Copied
<1>3. /\ epoch \in 1 .. NEpochs /\ Crosses(config, b)
      /\ <<"start", b>> \in Past /\ <<"finish", b>> \notin Past
      /\ from \in Arrays /\ to \in Arrays /\ from # to
      /\ bridge[b].from_index = from /\ bridge[b].to_index = to
  BY <1>1, <1>2, InFlight, Zenon
<1>4. /\ mem \in [Arrays -> [txns : [0 .. Capacity -> Contents], index : [0 .. NTxns -> Nat]]]
      /\ copying \in [Bridges -> SUBSET Int] /\ tables \subseteq Bridges
  BY Zenon DEF IInv, Typed
<1> HIDE DEF from, to, S
<1> DEFINE t == [i \in 0 .. NTxns |-> IF i < NTxns THEN mem[from].index[i] ELSE mem[to].index[i]]
<1>5. mem' = [mem EXCEPT ![to].index = t]
  BY <1>3, <1>4, Zenon DEF CopyTable
<1>6. t \in [0 .. NTxns -> Nat] /\ \A i \in Txns : t[i] = mem[from].index[i]
  <2>1. mem[from].index \in [0 .. NTxns -> Nat] /\ mem[to].index \in [0 .. NTxns -> Nat]
    BY <1>3, <1>4, Zenon
  <2>2. NTxns \in Nat /\ \A i \in Txns : i \in 0 .. NTxns /\ i < NTxns
    BY Constants DEF Txns
  <2>3. t \in [0 .. NTxns -> Nat]
    BY <2>1, Zenon
  <2> QED BY <2>2, <2>3, Zenon
<1> HIDE DEF t
<1>7. /\ mem' \in [Arrays -> [txns : [0 .. Capacity -> Contents], index : [0 .. NTxns -> Nat]]]
      /\ \A x \in Arrays : x # to => mem'[x] = mem[x]
      /\ mem'[to].txns = mem[to].txns /\ mem'[to].index = t
  BY <1>3, <1>4, <1>5, <1>6, ZenonT(40)
<1>8. StreamStep(b)
  BY <1>1, <1>4, <1>7, Zenon DEF StreamStep, to
<1>9. ASSUME Past' = Past PROVE Copied(Past, b)'
  <2>1. \A o \in S \ copying[b] : mem'[to].txns[o] = mem'[from].txns[o]
    BY <1>2, <1>3, <1>7, ZenonT(40) DEF Copied, S, from, to
  <2>2. \A i \in Txns : mem'[to].index[i] = mem'[from].index[i]
    BY <1>3, <1>6, <1>7, Zenon
  <2>3. copying[b] \subseteq S
    BY <1>1, Zenon
  <2>4. b \notin tables'
    BY <1>1, Zenon
  <2> QED BY <1>1, <1>3, <1>9, <2>1, <2>2, <2>3, <2>4, ZenonT(40) DEF Copied, S, from, to
<1> QED BY <1>1, <1>8, <1>9, StreamKeeps, Zenon

(***************************************************************************)
(* The stages.                                                             *)
(***************************************************************************)

\* A stage writes the arrays on the GPU that the stages own, and none that a
\* bridge between devices has started to copy from.
StageWrites ==
    /\ \A x \in Arrays : x \notin {IO, Plans} => mem'[x] = mem[x]
    /\ \A b \in {"param", "plan"} :
          <<"start", b>> \in Past /\ Crosses(config, b) =>
              mem'[Source(b, epoch)] = mem[Source(b, epoch)]

\* Such a step keeps the invariant if it keeps what is said of those arrays.
LEMMA StageKeeps ==
    ASSUME IInv, epoch \in 1 .. NEpochs, Step, Now \in Builds \cup Kernels,
           UNCHANGED <<arr, bridge, packed_size, copying, tables, executed>>,
           mem' \in [Arrays -> [txns : [0 .. Capacity -> Contents], index : [0 .. NTxns -> Nat]]],
           StageWrites,
           config' = config /\ types' = types /\ epoch' = epoch /\ Past' = Past \cup {Now}
               => Filled(Past)'
    PROVE  IInv'
<1> USE DEF IInv, Flow
<1>1. Now[1] \in {"build", "index", "submit", "remap", "plan"}
  BY DEF Builds, Kernels
<1>2. /\ config' = config /\ types' = types /\ epoch' = epoch
      /\ Past' = Past \cup {Now} /\ pc' \in 1 .. Len(RunEpoch') /\ pc' # 1
      /\ ~(epoch' > NEpochs)
  <2>1. Now # <<"execute", "host">>
    BY <1>1
  <2> QED BY <2>1, Advance, Zenon
<1>3. config.execution_device \in {"CPU", "GPU"}
  BY ConfigIs, Zenon DEF Typed
<1>4. Typed'
  BY <1>2, Zenon DEF Typed
<1>5. Generator'
  <2>1. \A e \in 1 .. NEpochs : mem'[TA(e)] = mem[TA(e)]
    BY ArraysAre, Zenon DEF StageWrites
  <2> QED BY <1>2, <2>1, GeneratorKept, Zenon
<1>6. Wired(Past)'
  <2>1. Same({<<"link", b2>> : b2 \in Bridges}) /\ SamePointers
    BY <1>1, <1>2 DEF Same, SamePointers
  <2> QED BY <2>1, <1>2, WiredKept, ZenonT(40)
<1>7. \A b \in Bridges : Copied(Past, b)'
  <2> SUFFICES ASSUME NEW b \in Bridges PROVE Copied(Past, b)'
    BY Zenon
  <2>1. Same({<<"start", b>>, <<"finish", b>>})
    BY <1>1, <1>2 DEF Same
  <2>2. mem'[Dest(b)] = mem[Dest(b)]
    BY BridgeEnds, Zenon DEF StageWrites
  <2>3. <<"start", b>> \in Past /\ Crosses(config, b) =>
            mem'[Source(b, epoch)] = mem[Source(b, epoch)]
    <3>1. CASE b = "input"
      BY <3>1, EndsAre, ArraysAre DEF StageWrites
    <3>2. CASE b # "input"
      BY <3>2, Zenon DEF StageWrites, Crosses
    <3> QED BY <3>1, <3>2, ZenonT(40)
  <2> QED BY <1>2, <2>1, <2>2, <2>3, CopiedKept, ZenonT(40)
<1>8. Filled(Past)'
  BY <1>2, Zenon
<1>9. ExecutorGetsItsEpoch'
  BY <1>2, Zenon DEF ExecutorGetsItsEpoch
<1> QED BY <1>4, <1>5, <1>6, <1>7, <1>8, <1>9, Zenon

\* In an epoch every array of a stage is at the memory it is meant to use.
LEMMA AllPoint ==
    ASSUME IInv, epoch \in 1 .. NEpochs
    PROVE  Points(IO) /\ Points(Plans) /\ Points(Sub) /\ Points(EParam) /\ Points(EPlan)
<1>1. epoch > 0
  OBVIOUS
<1>2. \A b \in Bridges : Points(Dest(b))
  BY <1>1, Zenon DEF IInv, Flow, Wired, Joins
<1>3. Points(Sub) /\ Points(EParam) /\ Points(EPlan)
  BY <1>2, EndsAre, Zenon DEF Bridges
<1> QED BY <1>3, Zenon DEF IInv, Flow, Wired

\* buildPackedTxnArrayGpu keeps the invariant.
LEMMA BuildKeeps ==
    ASSUME IInv, epoch # 0, BuildPackedTxnArray
    PROVE  IInv' /\ StageWrites
<1> USE DEF IInv, Flow
<1> DEFINE s == IF Arg = "index_output" THEN ParamSize ELSE PlanSize
           m == <<Arg, 0>>
           size == [i \in Txns |-> s[TypeRead(GetTxn(<<"index_input", 0>>, i))]]
           at == Place(config, types, s, epoch)
<1>1. /\ epoch \in 1 .. NEpochs /\ Now = <<"build", Arg>> /\ Ordered(Past, Now) /\ Now \in StepSet
      /\ Arg \in {"index_output", "initialization_output"} /\ config.packed
  <2>1. At("build")
    BY Zenon DEF BuildPackedTxnArray
  <2>2. /\ epoch \in 1 .. NEpochs /\ Now = <<"build", Arg>> /\ Ordered(Past, Now) /\ Now \in StepSet
    BY <2>1, NowIs, Zenon
  <2>3. Arg \in {"index_output", "initialization_output"}
    BY <2>2, Zenon DEF StepSet
  <2>4. config.packed
    BY <2>2, Zenon DEF Ordered
  <2> QED BY <2>2, <2>3, <2>4, Zenon
<1>2. /\ <<"link", "input">> \in Past /\ <<"start", "input">> \in Past /\ <<"finish", "input">> \in Past
      /\ \A x \in Kernels : x # <<"remap", "host">> => x \notin Past
      /\ <<"start", "param">> \notin Past /\ <<"start", "plan">> \notin Past
      /\ <<"remap", "host">> \notin Past /\ Now \notin Past
  BY <1>1, Zenon DEF Ordered, Bef, Kernels
<1>3. \A i \in Txns : GetTxn(<<"index_input", 0>>, i) = <<"input", epoch, i>>
  BY <1>1, <1>2, InputArrives, Zenon DEF II
<1>4. size = [i \in Txns |-> s[types[epoch][i]]]
  <2>1. ASSUME NEW i \in Txns PROVE TypeRead(GetTxn(<<"index_input", 0>>, i)) = types[epoch][i]
    BY <1>3 DEF TypeRead
  <2> QED BY <2>1, Zenon
<1>5. PrefixSums(size) = at
  BY <1>1, <1>4, Zenon DEF Place
<1>6. s \in Sizes /\ Layout(at)
  BY <1>1, Placed, Zenon DEF Sizes
<1>7. m \in {IO, Plans} /\ arr[m].index = m /\ mem[m].index[0] = 0 /\ m \in Arrays
  <2>1. m \in {IO, Plans}
    BY <1>1, Zenon DEF IO, Plans
  <2>2. Memory(config, IO) = IO /\ Memory(config, Plans) = Plans
    BY StageArrays, Zenon
  <2> QED BY <1>1, <2>1, <2>2, ArraysAre, ZenonT(40) DEF Wired, Points, Filled
<1>8. mem' = [mem EXCEPT ![m].index = [i \in 0 .. NTxns |-> IF i = 0 THEN @[0] ELSE at[i]]]
  BY <1>5, <1>7, Zenon DEF BuildPackedTxnArray
<1>9. Step /\ UNCHANGED <<arr, bridge, packed_size, copying, tables, submitted, executed>>
  BY Zenon DEF BuildPackedTxnArray
<1>10. mem \in [Arrays -> [txns : [0 .. Capacity -> Contents], index : [0 .. NTxns -> Nat]]]
  BY Zenon DEF Typed
<1> HIDE DEF m, s, size, at
<1>11. at[0] = 0 /\ at \in [0 .. NTxns -> Nat]
  BY <1>6, Constants DEF Layout
<1>12. /\ mem' \in [Arrays -> [txns : [0 .. Capacity -> Contents], index : [0 .. NTxns -> Nat]]]
       /\ \A x \in Arrays : x # m => mem'[x] = mem[x]
       /\ \A i \in 0 .. NTxns : mem'[m].index[i] = at[i]
  <2> DEFINE t == [i \in 0 .. NTxns |-> IF i = 0 THEN mem[m].index[0] ELSE at[i]]
  <2>1. t \in [0 .. NTxns -> Nat] /\ \A i \in 0 .. NTxns : t[i] = at[i]
    BY <1>7, <1>11, Zenon
  <2>2. mem' = [mem EXCEPT ![m].index = t]
    BY <1>8, Zenon
  <2> HIDE DEF t
  <2> QED BY <1>7, <1>10, <2>1, <2>2, Zenon
<1>13. StageWrites
  BY <1>2, <1>7, <1>12, Zenon DEF StageWrites
<1>14. ASSUME config' = config, types' = types, epoch' = epoch, Past' = Past \cup {Now}
       PROVE  Filled(Past)'
  <2>1. \A x \in Kernels : x \notin Past'
    BY <1>1, <1>2, <1>14 DEF Kernels
  <2>2. /\ m = IO => s = ParamSize /\ Now = <<"build", "index_output">>
        /\ m = Plans => s = PlanSize /\ Now = <<"build", "initialization_output">>
    BY <1>1, Zenon DEF m, s, IO, Plans
  <2>3. IO \in Arrays /\ Plans \in Arrays /\ IO # Plans /\ 0 \in 0 .. NTxns
    BY ArraysAre, Constants, Zenon
  <2>4. CASE m = IO
    <3>1. Indexed(IO, ParamSize, epoch)'
      BY <2>2, <2>4, <1>12, <1>14, ZenonT(40) DEF Indexed, at
    <3>2. mem'[Plans] = mem[Plans] /\ mem'[IO].index[0] = 0
      BY <2>3, <2>4, <1>11, <1>12, ZenonT(40)
    <3>3. <<"build", "initialization_output">> \in Past' => Indexed(Plans, PlanSize, epoch)'
      <4>1. <<"build", "initialization_output">> # Now
        BY <2>2, <2>4
      <4>2. <<"build", "initialization_output">> \in Past => Indexed(Plans, PlanSize, epoch)
        BY Zenon DEF Filled
      <4> QED BY <4>1, <4>2, <3>2, <1>14, ZenonT(40) DEF Indexed
    <3> QED BY <2>1, <3>1, <3>2, <3>3, <1>14, ZenonT(40) DEF Filled, Kernels
  <2>5. CASE m = Plans
    <3>1. Indexed(Plans, PlanSize, epoch)'
      BY <2>2, <2>5, <1>12, <1>14, ZenonT(40) DEF Indexed, at
    <3>2. mem'[IO] = mem[IO] /\ mem'[Plans].index[0] = 0
      BY <2>3, <2>5, <1>11, <1>12, ZenonT(40)
    <3>3. <<"build", "index_output">> \in Past' => Indexed(IO, ParamSize, epoch)'
      <4>1. <<"build", "index_output">> # Now
        BY <2>2, <2>5
      <4>2. <<"build", "index_output">> \in Past => Indexed(IO, ParamSize, epoch)
        BY Zenon DEF Filled
      <4> QED BY <4>1, <4>2, <3>2, <1>14, ZenonT(40) DEF Indexed
    <3> QED BY <2>1, <3>1, <3>2, <3>3, <1>14, ZenonT(40) DEF Filled, Kernels
  <2> QED BY <2>4, <2>5, <1>7, ZenonT(40)
<1>15. Now \in Builds \cup Kernels
  BY <1>1, Zenon DEF Builds
<1> QED BY <1>1, <1>9, <1>12, <1>13, <1>14, <1>15, StageKeeps, ZenonT(40)

\* The offset tables the stages use are this epoch's once they are built.
LEMMA OffsetsAre ==
    ASSUME IInv, epoch \in 1 .. NEpochs, Ordered(Past, Now),
           Now = <<"index", "host">> \/ <<"index", "host">> \in Past
    PROVE  /\ Offset(IO, ParamSize, epoch) /\ Offset(Plans, PlanSize, epoch)
           /\ Offset(Sub, ParamSize, epoch)
<1>1. config.packed => Indexed(IO, ParamSize, epoch) /\ Indexed(Plans, PlanSize, epoch)
  BY ZenonT(40) DEF IInv, Flow, Filled, Ordered, Bef
<1>2. Memory(config, IO) = IO /\ Memory(config, Plans) = Plans /\ Memory(config, Sub) = IO
  BY ConfigIs, MemoryIs DEF IInv, Typed
<1> QED BY <1>1, <1>2, Constants, Zenon DEF Offset, Indexed

\* The contents the stages write are contents.
LEMMA ContentsAre ==
    ASSUME epoch \in 1 .. NEpochs, NEW kind \in Kinds
    PROVE  [i \in Txns |-> <<kind, epoch, i>>] \in [Txns -> Contents]
BY Constants DEF Contents

\* indexTxns keeps the invariant.
LEMMA IndexKeeps ==
    ASSUME IInv, epoch # 0, IndexTxns
    PROVE  IInv' /\ StageWrites
<1> USE DEF IInv, Flow
<1>1. /\ epoch \in 1 .. NEpochs /\ Now = <<"index", "host">> /\ Ordered(Past, Now)
  <2>1. At("index")
    BY Zenon DEF IndexTxns
  <2> QED BY <2>1, NowIs DEF StepSet
<1>2. /\ <<"link", "input">> \in Past /\ <<"start", "input">> \in Past /\ <<"finish", "input">> \in Past
      /\ <<"submit", "host">> \notin Past /\ <<"plan", "host">> \notin Past
      /\ <<"remap", "host">> \notin Past
      /\ <<"start", "param">> \notin Past /\ <<"start", "plan">> \notin Past
  BY <1>1, Zenon DEF Ordered, Bef
<1> DEFINE f == [i \in Txns |-> <<"crid", epoch, i>>]
<1>3. [i \in Txns |-> As("crid", "input", GetTxn(<<"index_input", 0>>, i))] = f
  <2>1. ASSUME NEW i \in Txns
        PROVE  As("crid", "input", GetTxn(<<"index_input", 0>>, i)) = <<"crid", epoch, i>>
    <3>1. GetTxn(<<"index_input", 0>>, i) = <<"input", epoch, i>>
      BY <1>1, <1>2, InputArrives, Zenon DEF II
    <3> QED BY <3>1 DEF As
  <2> QED BY <2>1, Zenon
<1>4. Write(IO, f) /\ Step
      /\ UNCHANGED <<arr, bridge, packed_size, copying, tables, submitted, executed>>
  BY <1>3, Zenon DEF IndexTxns, IO
<1>5. f \in [Txns -> Contents] /\ \A i \in Txns : f[i] = <<"crid", epoch, i>>
  <2>1. "crid" \in Kinds
    BY Zenon DEF Kinds
  <2> QED BY <1>1, <2>1, ContentsAre, Zenon
<1>6. Points(IO) /\ Offset(IO, ParamSize, epoch)
  BY <1>1, OffsetsAre, AllPoint, Zenon
<1>7. Memory(config, IO) = IO /\ IO \in Arrays /\ Plans \in Arrays /\ IO # Plans /\ ParamSize \in Sizes
  BY StageArrays, Zenon
<1> HIDE DEF f
<1>8. /\ mem' \in [Arrays -> [txns : [0 .. Capacity -> Contents], index : [0 .. NTxns -> Nat]]]
      /\ \A x \in Arrays : x # IO => mem'[x] = mem[x]
      /\ mem'[IO].index = mem[IO].index
      /\ \A i \in Txns : mem'[IO].txns[Place(config, types, ParamSize, epoch)[i]] = f[i]
  <2>1. /\ \A x \in Arrays : x # Memory(config, IO) => mem'[x] = mem[x]
        /\ mem'[Memory(config, IO)].index = mem[Memory(config, IO)].index
        /\ \A i \in Txns :
              mem'[Memory(config, IO)].txns[Place(config, types, ParamSize, epoch)[i]] = f[i]
        /\ mem' \in [Arrays -> [txns : [0 .. Capacity -> Contents], index : [0 .. NTxns -> Nat]]]
    BY <1>1, <1>4, <1>5, <1>6, <1>7, Writes, ZenonT(60)
  <2> QED BY <2>1, <1>7, Zenon
<1>9. StageWrites
  BY <1>2, <1>8, Zenon DEF StageWrites
<1>10. ASSUME config' = config, types' = types, epoch' = epoch, Past' = Past \cup {Now}
       PROVE  Filled(Past)'
  <2>1. Holds(IO, ParamSize, epoch, "crid")'
    BY <1>5, <1>8, <1>10, Zenon DEF Holds
  <2>2. mem'[Plans] = mem[Plans] /\ mem'[IO].index[0] = 0 /\ mem'[Plans].index[0] = 0
    BY <1>7, <1>8, Zenon DEF Filled
  <2>3. <<"build", "index_output">> \in Past' => Indexed(IO, ParamSize, epoch)'
    BY <1>1, <1>8, <1>10, ZenonT(40) DEF Filled, Indexed
  <2>4. <<"build", "initialization_output">> \in Past' => Indexed(Plans, PlanSize, epoch)'
    BY <1>1, <1>10, <2>2, Zenon DEF Filled, Indexed
  <2>5. <<"submit", "host">> \notin Past' /\ <<"plan", "host">> \notin Past' /\ <<"remap", "host">> \notin Past'
    BY <1>1, <1>2, <1>10, Zenon
  <2> QED BY <2>1, <2>2, <2>3, <2>4, <2>5, ZenonT(40) DEF Filled
<1>11. Now \in Builds \cup Kernels
  BY <1>1, Zenon DEF Kernels
<1> QED BY <1>1, <1>4, <1>8, <1>9, <1>10, <1>11, StageKeeps, ZenonT(40)

\* submit keeps the invariant.
LEMMA SubmitKeeps ==
    ASSUME IInv, epoch # 0, Submit
    PROVE  IInv' /\ StageWrites
<1> USE DEF IInv, Flow
<1>1. /\ epoch \in 1 .. NEpochs /\ Now = <<"submit", "host">> /\ Ordered(Past, Now)
  <2>1. At("submit")
    BY Zenon DEF Submit
  <2> QED BY <2>1, NowIs DEF StepSet
<1>2. <<"index", "host">> \in Past /\ <<"plan", "host">> \notin Past /\ <<"remap", "host">> \notin Past
  BY <1>1, Zenon DEF Ordered, Bef
<1>3. /\ submitted' = [i \in Txns |-> GetTxn(<<"initialization_input", 0>>, i)] /\ Step
      /\ UNCHANGED <<arr, mem, bridge, packed_size, copying, tables, executed>>
  BY Zenon DEF Submit
<1>4. ASSUME NEW i \in Txns PROVE GetTxn(<<"initialization_input", 0>>, i) = <<"crid", epoch, i>>
  <2>1. Points(Sub) /\ Offset(Sub, ParamSize, epoch)
    BY <1>1, <1>2, OffsetsAre, AllPoint, Zenon
  <2>2. Memory(config, Sub) = IO
    BY StageArrays, Zenon
  <2>3. GetTxn(Sub, i) = mem[IO].txns[Place(config, types, ParamSize, epoch)[i]]
    <3>1. GetTxn(Sub, i) = mem[Memory(config, Sub)].txns[Place(config, types, ParamSize, epoch)[i]]
      <4>1. ReadsAt(Sub, ParamSize, epoch)
        BY <2>1, Reads, Zenon
      <4> QED BY <4>1, Zenon DEF ReadsAt
    <3> QED BY <3>1, <2>2, Zenon
  <2>4. Holds(IO, ParamSize, epoch, "crid")
    BY <1>2, Zenon DEF Filled
  <2> QED BY <2>3, <2>4, Zenon DEF Holds, Sub
<1>5. submitted' = [i \in Txns |-> <<"crid", epoch, i>>]
  BY <1>3, <1>4, Zenon
<1>6. StageWrites
  BY <1>3, Zenon DEF StageWrites
<1>7. ASSUME config' = config, types' = types, epoch' = epoch, Past' = Past \cup {Now}
      PROVE  Filled(Past)'
  <2>1. \A x \in Builds \cup {<<"index", "host">>, <<"remap", "host">>} : x \in Past' <=> x \in Past
    BY <1>1, <1>7 DEF Builds
  <2>2. <<"plan", "host">> \notin Past'
    BY <1>1, <1>2, <1>7, Zenon
  <2> QED BY <2>1, <2>2, <1>3, <1>5, <1>7, ZenonT(40) DEF Filled, Holds, Indexed, Builds
<1>8. Now \in Builds \cup Kernels
  BY <1>1, Zenon DEF Kernels
<1>9. mem' \in [Arrays -> [txns : [0 .. Capacity -> Contents], index : [0 .. NTxns -> Nat]]]
  BY <1>3, Zenon DEF Typed
<1> QED BY <1>1, <1>3, <1>6, <1>7, <1>8, <1>9, StageKeeps, ZenonT(40)

\* The stager's remap keeps the invariant.
LEMMA RemapKeeps ==
    ASSUME IInv, epoch # 0, Remap
    PROVE  IInv' /\ StageWrites
<1> USE DEF IInv, Flow
<1>1. /\ epoch \in 1 .. NEpochs /\ Now = <<"remap", "host">> /\ Ordered(Past, Now)
  <2>1. At("remap")
    BY Zenon DEF Remap
  <2> QED BY <2>1, NowIs DEF StepSet
<1>2. config.hybrid /\ config.execution_device = "GPU" /\ config.packed \in BOOLEAN
  <2>1. config.hybrid
    BY <1>1, ConfigIs, Zenon DEF Ordered, Typed
  <2> QED BY <2>1, ConfigIs, Zenon DEF Typed
<1>3. <<"submit", "host">> \in Past /\ <<"index", "host">> \in Past /\ <<"remap", "host">> \notin Past
  BY <1>1, <1>2, ZenonT(40) DEF Ordered, Bef
<1>4. Memory(config, EParam) = IO /\ Memory(config, IO) = IO
      /\ IO \in Arrays /\ Plans \in Arrays /\ IO # Plans /\ ParamSize \in Sizes
  BY <1>2, MemoryIs, ArraysAre DEF Sizes
<1>5. Points(EParam) /\ Offset(EParam, ParamSize, epoch)
  <2>1. Points(EParam) /\ Offset(IO, ParamSize, epoch)
    BY <1>1, <1>3, OffsetsAre, AllPoint, ZenonT(40)
  <2> QED BY <2>1, <1>4, Zenon DEF Offset
<1> DEFINE f == [i \in Txns |-> <<"grid", epoch, i>>]
<1>6. [i \in Txns |-> As("grid", "crid", GetTxn(<<"execution_param_input", 0>>, i))] = f
  <2>1. ASSUME NEW i \in Txns
        PROVE  As("grid", "crid", GetTxn(<<"execution_param_input", 0>>, i)) = <<"grid", epoch, i>>
    <3>1. GetTxn(EParam, i) = mem[IO].txns[Place(config, types, ParamSize, epoch)[i]]
      <4>1. GetTxn(EParam, i)
                = mem[Memory(config, EParam)].txns[Place(config, types, ParamSize, epoch)[i]]
        <5>1. ReadsAt(EParam, ParamSize, epoch)
          BY <1>5, Reads, Zenon
        <5> QED BY <5>1, Zenon DEF ReadsAt
      <4> QED BY <4>1, <1>4, ZenonT(40)
    <3>2. Holds(IO, ParamSize, epoch, "crid")
      BY <1>3, Zenon DEF Filled
    <3>3. GetTxn(<<"execution_param_input", 0>>, i) = <<"crid", epoch, i>>
      BY <3>1, <3>2, Zenon DEF Holds, EParam
    <3> QED BY <3>3 DEF As
  <2> QED BY <2>1, Zenon
<1>7. Write(EParam, f) /\ Step
      /\ UNCHANGED <<arr, bridge, packed_size, copying, tables, submitted, executed>>
  BY <1>6, Zenon DEF Remap, EParam
<1>8. f \in [Txns -> Contents] /\ \A i \in Txns : f[i] = <<"grid", epoch, i>>
  <2>1. "grid" \in Kinds
    BY Zenon DEF Kinds
  <2> QED BY <1>1, <2>1, ContentsAre, Zenon
<1> HIDE DEF f
<1>9. /\ mem' \in [Arrays -> [txns : [0 .. Capacity -> Contents], index : [0 .. NTxns -> Nat]]]
      /\ \A x \in Arrays : x # IO => mem'[x] = mem[x]
      /\ mem'[IO].index = mem[IO].index
      /\ \A i \in Txns : mem'[IO].txns[Place(config, types, ParamSize, epoch)[i]] = f[i]
  <2>1. /\ \A x \in Arrays : x # Memory(config, EParam) => mem'[x] = mem[x]
        /\ mem'[Memory(config, EParam)].index = mem[Memory(config, EParam)].index
        /\ \A i \in Txns :
              mem'[Memory(config, EParam)].txns[Place(config, types, ParamSize, epoch)[i]] = f[i]
        /\ mem' \in [Arrays -> [txns : [0 .. Capacity -> Contents], index : [0 .. NTxns -> Nat]]]
    BY <1>1, <1>4, <1>5, <1>7, <1>8, Writes, ZenonT(60)
  <2> QED BY <2>1, <1>4, Zenon
<1>10. StageWrites
  BY <1>2, <1>9, Zenon DEF StageWrites, Crosses
<1>11. ASSUME config' = config, types' = types, epoch' = epoch, Past' = Past \cup {Now}
       PROVE  Filled(Past)'
  <2>1. Holds(IO, ParamSize, epoch, "grid")'
    BY <1>8, <1>9, <1>11, ZenonT(40) DEF Holds
  <2>2. mem'[Plans] = mem[Plans] /\ mem'[IO].index[0] = 0 /\ mem'[Plans].index[0] = 0
    BY <1>4, <1>9, Zenon DEF Filled
  <2>3. <<"build", "index_output">> \in Past' => Indexed(IO, ParamSize, epoch)'
    BY <1>1, <1>9, <1>11, ZenonT(40) DEF Filled, Indexed
  <2>4. <<"build", "initialization_output">> \in Past' => Indexed(Plans, PlanSize, epoch)'
    BY <1>1, <1>11, <2>2, ZenonT(40) DEF Filled, Indexed
  <2>5. <<"plan", "host">> \in Past' => Holds(Plans, PlanSize, epoch, "plan")'
    BY <1>1, <1>11, <2>2, ZenonT(40) DEF Filled, Holds
  <2>6. <<"submit", "host">> \in Past' => submitted' = [i \in Txns |-> <<"crid", epoch', i>>]
    BY <1>3, <1>7, <1>11, Zenon DEF Filled
  <2>7. <<"remap", "host">> \in Past'
    BY <1>1, <1>11, Zenon
  <2> QED BY <2>1, <2>2, <2>3, <2>4, <2>5, <2>6, <2>7, ZenonT(40) DEF Filled
<1>12. Now \in Builds \cup Kernels
  BY <1>1, Zenon DEF Kernels
<1> QED BY <1>1, <1>7, <1>9, <1>10, <1>11, <1>12, StageKeeps, ZenonT(40)

\* InitializeExecutionPlan keeps the invariant.
LEMMA PlanKeeps ==
    ASSUME IInv, epoch # 0, InitializeExecutionPlan
    PROVE  IInv' /\ StageWrites
<1> USE DEF IInv, Flow
<1>1. /\ epoch \in 1 .. NEpochs /\ Now = <<"plan", "host">> /\ Ordered(Past, Now)
  <2>1. At("plan")
    BY Zenon DEF InitializeExecutionPlan
  <2> QED BY <2>1, NowIs DEF StepSet
<1>2. <<"submit", "host">> \in Past /\ <<"index", "host">> \in Past /\ <<"start", "plan">> \notin Past
  BY <1>1, Zenon DEF Ordered, Bef
<1> DEFINE f == [i \in Txns |-> <<"plan", epoch, i>>]
<1>3. [i \in Txns |-> As("plan", "crid", submitted[i])] = f
  <2>1. submitted = [i \in Txns |-> <<"crid", epoch, i>>]
    BY <1>2, Zenon DEF Filled
  <2>2. ASSUME NEW i \in Txns PROVE As("plan", "crid", submitted[i]) = <<"plan", epoch, i>>
    <3>1. submitted[i] = <<"crid", epoch, i>>
      BY <2>1, Zenon
    <3> QED BY <3>1 DEF As
  <2> QED BY <2>2, Zenon
<1>4. Write(Plans, f) /\ Step
      /\ UNCHANGED <<arr, bridge, packed_size, copying, tables, submitted, executed>>
  BY <1>3, Zenon DEF InitializeExecutionPlan, Plans
<1>5. f \in [Txns -> Contents] /\ \A i \in Txns : f[i] = <<"plan", epoch, i>>
  <2>1. "plan" \in Kinds
    BY Zenon DEF Kinds
  <2> QED BY <1>1, <2>1, ContentsAre, Zenon
<1>6. Points(Plans) /\ Offset(Plans, PlanSize, epoch)
  BY <1>1, <1>2, OffsetsAre, AllPoint, ZenonT(40)
<1>7. Memory(config, Plans) = Plans /\ IO \in Arrays /\ Plans \in Arrays /\ IO # Plans /\ PlanSize \in Sizes
  BY StageArrays, Zenon
<1> HIDE DEF f
<1>8. /\ mem' \in [Arrays -> [txns : [0 .. Capacity -> Contents], index : [0 .. NTxns -> Nat]]]
      /\ \A x \in Arrays : x # Plans => mem'[x] = mem[x]
      /\ mem'[Plans].index = mem[Plans].index
      /\ \A i \in Txns : mem'[Plans].txns[Place(config, types, PlanSize, epoch)[i]] = f[i]
  <2>1. /\ \A x \in Arrays : x # Memory(config, Plans) => mem'[x] = mem[x]
        /\ mem'[Memory(config, Plans)].index = mem[Memory(config, Plans)].index
        /\ \A i \in Txns :
              mem'[Memory(config, Plans)].txns[Place(config, types, PlanSize, epoch)[i]] = f[i]
        /\ mem' \in [Arrays -> [txns : [0 .. Capacity -> Contents], index : [0 .. NTxns -> Nat]]]
    BY <1>1, <1>4, <1>5, <1>6, <1>7, Writes, ZenonT(60)
  <2> QED BY <2>1, <1>7, Zenon
<1>9. StageWrites
  <2>1. mem'[Source("param", epoch)] = mem[Source("param", epoch)]
    BY <1>7, <1>8, EndsAre, ZenonT(40)
  <2> QED BY <2>1, <1>2, <1>8, ZenonT(40) DEF StageWrites
<1>10. ASSUME config' = config, types' = types, epoch' = epoch, Past' = Past \cup {Now}
       PROVE  Filled(Past)'
  <2>1. Holds(Plans, PlanSize, epoch, "plan")'
    BY <1>5, <1>8, <1>10, ZenonT(40) DEF Holds
  <2>2. mem'[IO] = mem[IO] /\ mem'[IO].index[0] = 0 /\ mem'[Plans].index[0] = 0
    BY <1>7, <1>8, ZenonT(40) DEF Filled
  <2>3. \A x \in Builds \cup {<<"index", "host">>, <<"remap", "host">>, <<"submit", "host">>} :
            x \in Past' <=> x \in Past
    BY <1>1, <1>10 DEF Builds
  <2>4. /\ <<"build", "index_output">> \in Past' => Indexed(IO, ParamSize, epoch)'
        /\ <<"build", "initialization_output">> \in Past' => Indexed(Plans, PlanSize, epoch)'
    BY <1>8, <1>10, <2>2, <2>3, ZenonT(40) DEF Filled, Indexed, Builds
  <2>5. <<"index", "host">> \in Past' =>
          Holds(IO, ParamSize, epoch, IF <<"remap", "host">> \in Past THEN "grid" ELSE "crid")'
    BY <1>10, <2>2, <2>3, ZenonT(40) DEF Filled, Holds
  <2>6. <<"submit", "host">> \in Past' => submitted' = [i \in Txns |-> <<"crid", epoch', i>>]
    BY <1>4, <1>10, <2>3, ZenonT(40) DEF Filled
  <2> QED BY <2>1, <2>2, <2>4, <2>5, <2>6, ZenonT(40) DEF Filled
<1>11. Now \in Builds \cup Kernels
  BY <1>1, Zenon DEF Kernels
<1> QED BY <1>1, <1>4, <1>8, <1>9, <1>10, <1>11, StageKeeps, ZenonT(40)

\* Array d holds in epoch e what array a holds, offsets included.
Mirrors(d, a, s, e) ==
    /\ \A j \in Txns : mem[Memory(config, d)].txns[Place(config, types, s, e)[j]]
                        = mem[Memory(config, a)].txns[Place(config, types, s, e)[j]]
    /\ config.packed => \A j \in Txns : mem[Memory(config, d)].index[j] = mem[Memory(config, a)].index[j]
\* A stage reads from d what a holds.
Gets(d, a, s, e) ==
    \A i \in Txns : GetTxn(d, i) = mem[Memory(config, a)].txns[Place(config, types, s, e)[i]]

\* Reading a mirror is reading the array it mirrors.
LEMMA GetsCopy ==
    ASSUME NEW d, NEW a, NEW s, NEW e, Points(d), Offset(a, s, e), Mirrors(d, a, s, e)
    PROVE  Gets(d, a, s, e)
<1>1. Offset(d, s, e)
  <2> SUFFICES ASSUME config.packed, NEW j \in Txns
               PROVE  mem[Memory(config, d)].index[j] = Place(config, types, s, e)[j]
    BY Zenon DEF Offset
  <2>1. mem[Memory(config, d)].index[j] = mem[Memory(config, a)].index[j]
    BY Zenon DEF Mirrors
  <2>2. mem[Memory(config, a)].index[j] = Place(config, types, s, e)[j]
    BY Zenon DEF Offset
  <2> QED BY <2>1, <2>2, Zenon
<1>2. ReadsAt(d, s, e)
  BY <1>1, Reads, Zenon
<1> SUFFICES ASSUME NEW i \in Txns
             PROVE  GetTxn(d, i) = mem[Memory(config, a)].txns[Place(config, types, s, e)[i]]
  BY Zenon DEF Gets
<1>3. GetTxn(d, i) = mem[Memory(config, d)].txns[Place(config, types, s, e)[i]]
  BY <1>2, Zenon DEF ReadsAt
<1>4. mem[Memory(config, d)].txns[Place(config, types, s, e)[i]]
        = mem[Memory(config, a)].txns[Place(config, types, s, e)[i]]
  BY ZenonT(40) DEF Mirrors
<1> QED BY <1>3, <1>4, Zenon

\* What a finished bridge brought mirrors its source.
LEMMA BridgeMirrors ==
    ASSUME Typed, epoch \in 1 .. NEpochs, NEW b \in Bridges, Copied(Past, b), Crosses(config, b),
           <<"start", b>> \in Past, <<"finish", b>> \in Past,
           Memory(config, Source(b, epoch)) = Source(b, epoch), Memory(config, Dest(b)) = Dest(b)
    PROVE  Mirrors(Dest(b), Source(b, epoch), SizeOf(b), epoch)
<1>1. Brought(b)
  BY Arrived, Zenon
<1> QED BY <1>1 DEF Brought, Mirrors

\* The executor reads what the stages wrote this epoch, directly or over its
\* two bridges.
LEMMA ExecutorReads ==
    ASSUME IInv, epoch \in 1 .. NEpochs, Now = <<"execute", "host">>, Ordered(Past, Now),
           NEW i \in Txns
    PROVE  /\ GetTxn(EParam, i) = <<IF config.hybrid THEN "grid" ELSE "crid", epoch, i>>
           /\ GetTxn(EPlan, i) = <<"plan", epoch, i>>
<1> USE DEF IInv, Flow
<1>1. /\ <<"finish", "param">> \in Past /\ <<"finish", "plan">> \in Past
      /\ <<"start", "param">> \in Past /\ <<"start", "plan">> \in Past
      /\ <<"index", "host">> \in Past /\ <<"plan", "host">> \in Past
  <2>1. <<"finish", "param">> \in Past /\ <<"finish", "plan">> \in Past
    BY Zenon DEF Ordered, Bef
  <2>2. <<"start", "param">> \in Past /\ <<"start", "plan">> \in Past
    BY <2>1, Zenon DEF Ordered, Bef
  <2> QED BY <2>1, <2>2, Zenon DEF Ordered, Bef
<1>2. config.packed \in BOOLEAN /\ config.hybrid \in BOOLEAN
      /\ config.execution_device \in {"CPU", "GPU"}
  BY ConfigIs, Zenon DEF Typed
<1>3. <<"remap", "host">> \in Past <=> config.hybrid
  BY <1>2, Zenon DEF Ordered, Bef
<1>4. /\ Holds(IO, ParamSize, epoch, IF config.hybrid THEN "grid" ELSE "crid")
      /\ Holds(Plans, PlanSize, epoch, "plan")
  BY <1>1, <1>3, Zenon DEF Filled
<1>5. Points(EParam) /\ Points(EPlan)
  BY AllPoint, Zenon
<1>6. Offset(IO, ParamSize, epoch) /\ Offset(Plans, PlanSize, epoch)
  BY <1>1, OffsetsAre, Zenon
<1>7. /\ Memory(config, IO) = IO /\ Memory(config, Plans) = Plans
      /\ Memory(config, EParam) = IF config.execution_device = "GPU" THEN IO ELSE EParam
      /\ Memory(config, EPlan) = IF config.execution_device = "GPU" THEN Plans ELSE EPlan
  BY <1>2, MemoryIs
<1>8. Mirrors(EParam, IO, ParamSize, epoch) /\ Mirrors(EPlan, Plans, PlanSize, epoch)
  <2>1. CASE config.execution_device = "GPU"
    <3>1. Memory(config, EParam) = Memory(config, IO) /\ Memory(config, EPlan) = Memory(config, Plans)
      BY <2>1, <1>7, Zenon
    <3> QED BY <3>1, Zenon DEF Mirrors
  <2>2. CASE config.execution_device = "CPU"
    <3>1. "param" \in Bridges /\ "plan" \in Bridges
      BY Zenon DEF Bridges
    <3>2. Crosses(config, "param") /\ Crosses(config, "plan")
      BY <2>2, Zenon DEF Crosses
    <3>3. /\ SizeOf("param") = ParamSize /\ SizeOf("plan") = PlanSize
          /\ Source("param", epoch) = IO /\ Dest("param") = EParam
          /\ Source("plan", epoch) = Plans /\ Dest("plan") = EPlan
      BY EndsAre, Zenon DEF SizeOf
    <3>4. Copied(Past, "param") /\ Copied(Past, "plan")
      BY <3>1, Zenon
    <3>5. /\ Memory(config, EParam) = EParam /\ Memory(config, EPlan) = EPlan
          /\ Memory(config, IO) = IO /\ Memory(config, Plans) = Plans
      BY <2>2, <1>7, Zenon
    <3>6. Mirrors(EParam, IO, ParamSize, epoch)
      BY <1>1, <3>1, <3>2, <3>3, <3>4, <3>5, BridgeMirrors, ZenonT(40)
    <3>7. Mirrors(EPlan, Plans, PlanSize, epoch)
      BY <1>1, <3>1, <3>2, <3>3, <3>4, <3>5, BridgeMirrors, ZenonT(40)
    <3> QED BY <3>6, <3>7, Zenon
  <2> QED BY <1>2, <2>1, <2>2, Zenon
<1>9. /\ Gets(EParam, IO, ParamSize, epoch) /\ Gets(EPlan, Plans, PlanSize, epoch)
  BY <1>5, <1>6, <1>8, GetsCopy, Zenon
<1>10. GetTxn(EParam, i) = <<IF config.hybrid THEN "grid" ELSE "crid", epoch, i>>
  <2>1. GetTxn(EParam, i) = mem[IO].txns[Place(config, types, ParamSize, epoch)[i]]
    BY <1>7, <1>9, Zenon DEF Gets
  <2> QED BY <2>1, <1>4, Zenon DEF Holds
<1>11. GetTxn(EPlan, i) = <<"plan", epoch, i>>
  <2>1. GetTxn(EPlan, i) = mem[Plans].txns[Place(config, types, PlanSize, epoch)[i]]
    BY <1>7, <1>9, Zenon DEF Gets
  <2> QED BY <2>1, <1>4, Zenon DEF Holds
<1> QED BY <1>10, <1>11, Zenon

\* The end of an epoch keeps the invariant.
LEMMA ExecuteKeeps ==
    ASSUME IInv, epoch # 0, Execute
    PROVE  IInv'
<1> USE DEF IInv, Flow
<1>1. /\ epoch \in 1 .. NEpochs /\ Now = <<"execute", "host">> /\ Ordered(Past, Now)
      /\ Step /\ UNCHANGED <<arr, mem, bridge, packed_size, copying, tables, submitted>>
  <2>1. At("execute")
    BY Zenon DEF Execute
  <2> QED BY <2>1, NowIs DEF StepSet, Execute
<1>2. /\ config' = config /\ types' = types /\ epoch' = epoch + 1 /\ pc' = 1
      /\ Past' = {} /\ pc' \in 1 .. Len(RunEpoch')
  BY <1>1, Return, Zenon
<1>3. executed' = [i \in Txns |-> << <<IF config.hybrid THEN "grid" ELSE "crid", epoch, i>>,
                                    <<"plan", epoch, i>> >>]
  <2>1. executed' = [i \in Txns |-> <<GetTxn(EParam, i), GetTxn(EPlan, i)>>]
    BY Zenon DEF Execute, EParam, EPlan
  <2>2. ASSUME NEW i \in Txns
        PROVE  /\ GetTxn(EParam, i) = <<IF config.hybrid THEN "grid" ELSE "crid", epoch, i>>
               /\ GetTxn(EPlan, i) = <<"plan", epoch, i>>
    BY <1>1, ExecutorReads
  <2> QED BY <2>1, <2>2, Zenon
<1>4. ExecutorGetsItsEpoch'
  <2>1. epoch' - 1 = epoch
    BY <1>1, <1>2
  <2> QED BY <1>2, <1>3, <2>1, ZenonT(40) DEF ExecutorGetsItsEpoch
<1>5. Typed'
  <2>1. epoch' \in 0 .. NEpochs + 1
    BY <1>1, <1>2, Constants
  <2> QED BY <2>1, <1>1, <1>2, ZenonT(40) DEF Typed
<1>6. Generator'
  BY <1>1, <1>2, GeneratorKept, ZenonT(40)
<1>7. Wired(Past)'
  <2>1. \A a : Points(a)' <=> Points(a)
    BY <1>1, <1>2, Zenon DEF Points
  <2>2. \A b, e : Joins(b, e)' <=> Joins(b, e)
    BY <1>1, <1>2, <2>1, ZenonT(40) DEF Joins
  <2>3. epoch > 0
    BY <1>1
  <2>4. \A b \in Bridges : \E e \in 1 .. NEpochs : Joins(b, e)
    BY <2>3, Zenon DEF Wired
  <2>5. /\ \A e \in 1 .. NEpochs : Points(TA(e))'
        /\ Points(IO)' /\ Points(Plans)'
        /\ \A b \in Bridges : arr'[Dest(b)].txns = Null \/ Points(Dest(b))'
    BY <1>1, <2>1, Zenon DEF Wired
  <2> QED BY <1>2, <2>2, <2>4, <2>5, ZenonT(40) DEF Wired
<1>8. Filled(Past)'
  BY <1>1, <1>2, Zenon DEF Filled
<1>9. \A b \in Bridges : Copied(Past, b)'
  <2> SUFFICES ASSUME NEW b \in Bridges PROVE Copied(Past, b)'
    BY Zenon
  <2>1. /\ <<"finish", "param">> \in Past /\ <<"finish", "plan">> \in Past
        /\ <<"start", "param">> \in Past
    <3>1. <<"finish", "param">> \in Past /\ <<"finish", "plan">> \in Past
      BY <1>1, Zenon DEF Ordered, Bef
    <3> QED BY <1>1, <3>1, Zenon DEF Ordered, Bef
  <2>2. <<"finish", "input">> \in Past
    BY <1>1, <2>1, Zenon DEF Ordered, Bef
  <2>3. Crosses(config, b) => <<"finish", b>> \in Past
    BY <2>1, <2>2, Zenon DEF Crosses
  <2>4. copying[b] = {} /\ b \notin tables
    BY <2>3, Zenon DEF Copied
  <2> QED BY <1>1, <1>2, <2>4, ZenonT(40) DEF Copied
<1> QED BY <1>4, <1>5, <1>6, <1>7, <1>8, <1>9, ZenonT(40)

(***************************************************************************)
(* Every step, and the theorems.                                           *)
(***************************************************************************)

\* No stage and no other stream writes under bridge b's copy.
Undisturbed(b) ==
    (copying[b] # {} \/ b \in tables)
    /\ copying'[b] = copying[b] /\ (b \in tables' <=> b \in tables) =>
        /\ mem'[bridge[b].from] = mem[bridge[b].from]
        /\ mem'[bridge[b].to] = mem[bridge[b].to]
        /\ b \in tables =>
              /\ mem'[bridge[b].from_index] = mem[bridge[b].from_index]
              /\ mem'[bridge[b].to_index] = mem[bridge[b].to_index]

\* The memory under a copy is that of the two arrays its bridge joins.
LEMMA UnderCopy ==
    ASSUME IInv, NEW b \in Bridges,
           copying[b] # {} \/ b \in tables =>
               mem'[Source(b, epoch)] = mem[Source(b, epoch)] /\ mem'[Dest(b)] = mem[Dest(b)]
    PROVE  Undisturbed(b)
<1> SUFFICES ASSUME copying[b] # {} \/ b \in tables
             PROVE  /\ mem'[bridge[b].from] = mem[bridge[b].from]
                    /\ mem'[bridge[b].to] = mem[bridge[b].to]
                    /\ b \in tables =>
                          /\ mem'[bridge[b].from_index] = mem[bridge[b].from_index]
                          /\ mem'[bridge[b].to_index] = mem[bridge[b].to_index]
  BY Zenon DEF Undisturbed
<1>1. /\ bridge[b].from = Source(b, epoch) /\ bridge[b].to = Dest(b)
      /\ config.packed => bridge[b].from_index = Source(b, epoch) /\ bridge[b].to_index = Dest(b)
  BY InFlight, Zenon
<1>2. b \in tables => config.packed
  BY Zenon DEF IInv, Flow, Copied
<1> QED BY <1>1, <1>2, Zenon

\* A stage does not write under a copy.
LEMMA StageApart ==
    ASSUME IInv, StageWrites, NEW b \in Bridges
    PROVE  Undisturbed(b)
<1> SUFFICES ASSUME copying[b] # {} \/ b \in tables
             PROVE  mem'[Source(b, epoch)] = mem[Source(b, epoch)] /\ mem'[Dest(b)] = mem[Dest(b)]
  BY UnderCopy, Zenon
<1>1. /\ epoch \in 1 .. NEpochs /\ Crosses(config, b) /\ <<"start", b>> \in Past
      /\ Source(b, epoch) \in Arrays /\ Dest(b) \in Arrays
  BY InFlight, Zenon
<1>2. config.execution_device \in {"CPU", "GPU"}
  BY ConfigIs, Zenon DEF IInv, Typed
<1>3. mem'[Dest(b)] = mem[Dest(b)]
  <2>1. Dest(b) \notin {IO, Plans}
    BY <1>1, BridgeEnds, Zenon
  <2> QED BY <2>1, <1>1, Zenon DEF StageWrites
<1>4. mem'[Source(b, epoch)] = mem[Source(b, epoch)]
  <2>1. CASE b = "input"
    BY <2>1, <1>1, EndsAre, ArraysAre DEF StageWrites
  <2>2. CASE b # "input"
    BY <2>2, <1>1, Zenon DEF StageWrites, Crosses
  <2> QED BY <2>1, <2>2, ZenonT(40)
<1> QED BY <1>1, <1>3, <1>4, Zenon

\* Another bridge's stream does not write under a copy.
LEMMA StreamApart ==
    ASSUME IInv, NEW b \in Bridges, NEW b2 \in Bridges, b2 # b, StreamStep(b2)
    PROVE  Undisturbed(b)
<1> SUFFICES ASSUME copying[b] # {} \/ b \in tables
             PROVE  mem'[Source(b, epoch)] = mem[Source(b, epoch)] /\ mem'[Dest(b)] = mem[Dest(b)]
  BY UnderCopy, Zenon
<1>1. /\ epoch \in 1 .. NEpochs
      /\ Source(b, epoch) \in Arrays /\ Dest(b) \in Arrays
  BY InFlight, Zenon
<1>2. config.execution_device \in {"CPU", "GPU"}
  BY ConfigIs, Zenon DEF IInv, Typed
<1>3. Dest(b) # Dest(b2) /\ Source(b, epoch) # Dest(b2)
  <2>1. Source(b, epoch) \in {TA(epoch), IO, Plans}
    BY <1>1, BridgeEnds, Zenon
  <2>2. Dest(b2) \notin {IO, Plans} /\ (\A k : Dest(b2) # TA(k))
    BY <1>1, BridgeEnds, Zenon
  <2>3. Dest(b) # Dest(b2)
    BY <1>1, BridgeEnds, Zenon
  <2> QED BY <2>1, <2>2, <2>3, ZenonT(40)
<1> QED BY <1>1, <1>3, Zenon DEF StreamStep

\* Every step of the host keeps the invariant and writes under no copy.
LEMMA HostKeeps ==
    ASSUME IInv, Host
    PROVE  IInv' /\ \A b \in Bridges : Undisturbed(b)
<1>1. CASE epoch = 0
  <2>1. Now[1] = "link"
    BY <1>1, OnlyLinks, Zenon DEF IInv
  <2>2. Link
    BY <2>1, Zenon DEF Host, StartPlain, StartPacked, FinishTransfer, BuildPackedTxnArray, IndexTxns,
                Submit, Remap, InitializeExecutionPlan, Execute, At, Now
  <2>3. mem' = mem
    BY <2>2, Zenon DEF Link
  <2>4. IInv'
    BY <1>1, <2>2, ConstructorKeeps, Zenon
  <2> QED BY <2>3, <2>4, Zenon DEF Undisturbed
<1>2. CASE epoch # 0
  <2>1. CASE Link
    <3>1. mem' = mem
      BY <2>1, Zenon DEF Link
    <3>2. IInv'
      BY <1>2, <2>1, LinkKeeps, ZenonT(40)
    <3> QED BY <3>1, <3>2, Zenon DEF Undisturbed
  <2>2. CASE StartPlain \/ StartPacked
    <3>1. mem' = mem
      BY <2>2, Zenon DEF StartPlain, StartPacked
    <3>2. IInv'
      BY <1>2, <2>2, StartKeeps, ZenonT(40)
    <3> QED BY <3>1, <3>2, Zenon DEF Undisturbed
  <2>3. CASE FinishTransfer
    <3>1. mem' = mem
      BY <2>3, ZenonT(40) DEF FinishTransfer
    <3>2. IInv'
      BY <1>2, <2>3, FinishKeeps, Zenon
    <3> QED BY <3>1, <3>2, Zenon DEF Undisturbed
  <2>4. CASE BuildPackedTxnArray
    BY <1>2, <2>4, BuildKeeps, StageApart, ZenonT(40)
  <2>5. CASE IndexTxns
    BY <1>2, <2>5, IndexKeeps, StageApart, ZenonT(40)
  <2>6. CASE Submit
    BY <1>2, <2>6, SubmitKeeps, StageApart, Zenon
  <2>7. CASE Remap
    BY <1>2, <2>7, RemapKeeps, StageApart, Zenon
  <2>8. CASE InitializeExecutionPlan
    BY <1>2, <2>8, PlanKeeps, StageApart, Zenon
  <2>9. CASE Execute
    <3>1. mem' = mem
      BY <2>9, ZenonT(40) DEF Execute
    <3>2. IInv'
      BY <1>2, <2>9, ExecuteKeeps, Zenon
    <3> QED BY <3>1, <3>2, Zenon DEF Undisturbed
  <2> QED BY <2>1, <2>2, <2>3, <2>4, <2>5, <2>6, <2>7, <2>8, <2>9, ZenonT(40) DEF Host
<1> QED BY <1>1, <1>2, Zenon

\* Every step keeps the invariant and writes under no copy but its own.
LEMMA NextKeeps ==
    ASSUME IInv, [Next]_vars
    PROVE  IInv' /\ \A b \in Bridges : Undisturbed(b)
<1>1. CASE Host
  BY <1>1, HostKeeps, Zenon
<1>2. CASE Streams
  <2>1. PICK b2 \in Bridges : CopyBytes(b2) \/ CopyTable(b2)
    BY <1>2, Zenon DEF Streams
  <2>2. IInv' /\ StreamStep(b2)
    BY <2>1, CopyBytesKeeps, CopyTableKeeps, ZenonT(40)
  <2>t. copying'[b2] # copying[b2] \/ (b2 \in tables /\ b2 \notin tables')
    <3>1. CASE CopyBytes(b2)
      BY <2>1, <3>1, CopyBytesKeeps, Zenon DEF CopyBytes
    <3>2. CASE CopyTable(b2)
      BY <3>2, Zenon DEF CopyTable
    <3> QED BY <2>1, <3>1, <3>2, Zenon
  <2>3. ASSUME NEW b \in Bridges PROVE Undisturbed(b)
    <3>1. CASE b = b2
      BY <2>t, <3>1, Zenon DEF Undisturbed
    <3>2. CASE b # b2
      BY <2>2, <3>2, StreamApart, ZenonT(40)
    <3> QED BY <3>1, <3>2, Zenon
  <2> QED BY <2>2, <2>3, Zenon
<1>3. CASE UNCHANGED vars
  <2>1. IInv'
    <3> USE <1>3 DEF vars, IInv, Flow
    <3>1. RunEpoch' = RunEpoch
      BY Zenon DEF RunEpoch, RunEpochTpcc, RunEpochYcsb, Constructor
    <3>2. Past' = Past
      BY <3>1, Zenon DEF Past
    <3>3. Typed'
      BY <3>1, Zenon DEF Typed
    <3>4. Generator'
      BY GeneratorKept, Zenon
    <3>5. Wired(Past)'
      BY <3>2, WiredKept, Zenon DEF Same, SamePointers
    <3>6. Filled(Past)'
      BY <3>2, FilledKept, Zenon DEF Same
    <3>7. \A b \in Bridges : Copied(Past, b)'
      BY <3>2, CopiedKept, Zenon DEF Same
    <3>8. ExecutorGetsItsEpoch'
      BY Zenon DEF ExecutorGetsItsEpoch
    <3> QED BY <3>3, <3>4, <3>5, <3>6, <3>7, <3>8, ZenonT(40)
  <2> QED BY <1>3, <2>1, Zenon DEF vars, Undisturbed
<1> QED BY <1>1, <1>2, <1>3, ZenonT(40) DEF Next

\* The invariant holds throughout.
LEMMA FlowInvariant == Spec => []IInv
<1>1. IInv /\ [Next]_vars => IInv'
  BY NextKeeps, Zenon
<1> QED BY <1>1, InitHolds, PTL DEF Spec

(* Every consumer of an epoch gets that epoch's ids in the form it expects: *)
(* the submitter CRIDs, the executor GRIDs exactly when it runs over the    *)
(* cache, and the plan of its own epoch (ycsb.cpp and tpcc.cpp, runEpoch,   *)
(* with the bridges of txn_bridge.h), for every number of epochs and        *)
(* transactions, every mix of types and sizes and every order in which the  *)
(* streams copy.                                                            *)
THEOREM EveryStageGetsItsEpoch == Spec => []ConsumersGetTheirs
<1>1. ASSUME IInv, epoch > 0, NEW k \in 1 .. pc - 1, RunEpoch[k][1] = "submit"
      PROVE  submitted = [i \in Txns |-> <<"crid", epoch, i>>]
  <2>1. epoch \in Nat \ {0} /\ pc \in 1 .. Len(RunEpoch)
    BY <1>1, Constants DEF IInv, Typed
  <2>2. RunEpoch[k] \in Past
    BY Zenon DEF Past
  <2>3. RunEpoch[k] \in StepSet
    BY <1>1, <2>1, <2>2, ConfigIs, Schedule, ZenonT(40) DEF IInv, Typed
  <2>4. RunEpoch[k] = <<"submit", "host">>
    BY <1>1, <2>3 DEF StepSet
  <2> QED BY <1>1, <2>2, <2>4, ZenonT(40) DEF IInv, Flow, Filled
<1>2. IInv => SubmitterGetsCrids
  BY <1>1, Zenon DEF SubmitterGetsCrids
<1>3. IInv => ConsumersGetTheirs
  BY <1>2, ZenonT(40) DEF IInv, ConsumersGetTheirs
<1> QED BY <1>3, FlowInvariant, PTL

(* A packed copy is started with the whole of its epoch's bytes, whether    *)
(* the length is the source array's size field or the last entry of its     *)
(* offset table (txn_bridge.h, PackedTxnBridge::StartTransfer).             *)
THEOREM PackedCopiesAreWhole == Spec => []PackedCopyWhole
<1>1. ASSUME IInv, NEW b \in tables
      PROVE  packed_size[b] = Offsets(CASE b = "input" -> InputSize
                                        [] b \in {"init", "param"} -> ParamSize
                                        [] b = "plan" -> PlanSize, epoch)[NTxns]
  <2>1. b \in Bridges
    BY <1>1, Zenon DEF IInv, Typed
  <2>2. config.packed /\ packed_size[b] = Place(config, types, SizeOf(b), epoch)[NTxns]
    BY <1>1, <2>1, Zenon DEF IInv, Flow, Copied
  <2> QED BY <2>2, Zenon DEF Place, Offsets, SizeOf
<1>2. IInv => PackedCopyWhole
  BY <1>1, Zenon DEF PackedCopyWhole
<1> QED BY <1>2, FlowInvariant, PTL

(* While a bridge's stream has bytes or an offset table left to copy, no   *)
(* stage and no other bridge's stream writes the memory it reads or the     *)
(* memory it writes: the arrays that share memory never share it with a     *)
(* copy in flight (txn_bridge.h, Link and StartTransfer, against the        *)
(* kernels of runEpoch).                                                    *)
THEOREM CopiesAreUndisturbed == Spec => NoWriteUnderCopy
<1>1. IInv /\ [Next]_vars =>
        [\A b \in Bridges :
            (copying[b] # {} \/ b \in tables)
            /\ copying'[b] = copying[b] /\ (b \in tables' <=> b \in tables) =>
                /\ mem'[bridge[b].from] = mem[bridge[b].from]
                /\ mem'[bridge[b].to] = mem[bridge[b].to]
                /\ b \in tables =>
                      /\ mem'[bridge[b].from_index] = mem[bridge[b].from_index]
                      /\ mem'[bridge[b].to_index] = mem[bridge[b].to_index]]_vars
  BY NextKeeps, Zenon DEF Undisturbed
<1> QED BY <1>1, FlowInvariant, PTL DEF Spec, NoWriteUnderCopy
================================================================================
