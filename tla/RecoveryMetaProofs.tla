-------------------------- MODULE RecoveryMetaProofs ---------------------------
(***************************************************************************)
(* The banked marker implements the atomic one, for any set of cursors and *)
(* any even number of generations.                                         *)
(***************************************************************************)
EXTENDS RecoveryMeta, TLAPS

(* An update in progress works on the bank readers do not look at, and     *)
(* every field it has already stored has its final value.                  *)
MetaInv ==
    /\ TypeOK
    /\ word # Nothing =>
         /\ publish # Nothing => word.gen % 2 # publish.gen % 2
         /\ \A c \in Cursors :
              /\ <<c, "p1">> \notin todo => banks[word.gen % 2].p1[c] = cur[c]
              /\ <<c, "p2">> \notin todo =>
                   banks[word.gen % 2].p2[c] =
                     IF publish = Nothing THEN 0 ELSE banks[1 - (word.gen % 2)].p1[c]

(* The generation wraps without losing the alternation of its parity.      *)
LEMMA GenerationAlternates ==
    ASSUME NEW g \in 0 .. GenMod - 1, HalfGens \in Nat \ {0}
    PROVE  /\ (g + 1) % GenMod \in 0 .. GenMod - 1
           /\ ((g + 1) % GenMod) % 2 # g % 2
<1>1. GenMod \in Nat /\ GenMod > 0 /\ GenMod % 2 = 0
  BY DEF GenMod
<1>2. CASE g + 1 = GenMod
  <2>1. (g + 1) % GenMod = 0
    BY <1>1, <1>2
  <2> QED BY <2>1, <1>1, <1>2
<1>3. CASE g + 1 < GenMod
  <2>1. (g + 1) % GenMod = g + 1
    BY <1>1, <1>3
  <2> QED BY <2>1, <1>1
<1> QED
  BY <1>1, <1>2, <1>3

--------------------------------------------------------------------------------
(* A word is never Nothing, and its parity is 0 or 1.                      *)
LEMMA WordParity ==
    ASSUME MetaAssumption, NEW w \in Word
    PROVE  /\ w # Nothing
           /\ w.gen \in 0 .. GenMod - 1 /\ w.gen \in Nat /\ w.epoch \in Stamps
           /\ w.gen % 2 \in {0, 1} /\ 1 - (w.gen % 2) \in {0, 1}
           /\ 1 - (w.gen % 2) # w.gen % 2
<1>1. GenMod \in Nat
  BY DEF MetaAssumption, GenMod
<1>2. w.gen \in 0 .. GenMod - 1 /\ w.epoch \in Stamps
  BY DEF Word
<1>3. w.gen \in Nat
  BY <1>1, <1>2
<1>4. w # Nothing
  BY DEF MetaAssumption, Word
<1>5. w.gen % 2 \in {0, 1}
  BY <1>3
<1> QED
  BY <1>2, <1>3, <1>4, <1>5

(* A fresh durable file.                                                   *)
LEMMA MetaInit == Init => MetaInv
BY MetaAssumption DEF MetaAssumption, Init, MetaInv, TypeOK, Bank, ZeroBank

(* Starting an update turns to the bank readers do not look at.            *)
LEMMA PrepareStep ==
    ASSUME MetaInv, NEW e \in Stamps, NEW counts \in [Cursors -> Counts], Prepare(e, counts)
    PROVE  MetaInv'
<1> USE MetaAssumption
<1>1. CASE publish = Nothing
  <2>1. 1 \in 0 .. GenMod - 1
    BY DEF GenMod, MetaAssumption
  <2>2. word' = [gen |-> 1, epoch |-> e] /\ word' \in Word
    BY <1>1, <2>1 DEF Prepare, NextGen, Word
  <2>3. TypeOK'
    <3>1. word' # Nothing
      BY <2>2, WordParity
    <3> QED BY <2>2, <3>1 DEF Prepare, MetaInv, TypeOK
  <2>4. publish' = Nothing /\ \A c \in Cursors : <<c, "p1">> \in todo' /\ <<c, "p2">> \in todo'
    BY <1>1 DEF Prepare, Fields
  <2> QED BY <2>3, <2>4 DEF MetaInv
<1>2. CASE publish # Nothing
  <2>1. publish \in Word /\ publish.gen \in 0 .. GenMod - 1
    BY <1>2, WordParity DEF MetaInv, TypeOK
  <2>2. /\ NextGen \in 0 .. GenMod - 1
        /\ NextGen % 2 # publish.gen % 2
    BY <1>2, <2>1, GenerationAlternates DEF NextGen, MetaAssumption
  <2>3. word' = [gen |-> NextGen, epoch |-> e] /\ word' \in Word
    BY <2>2 DEF Prepare, Word
  <2> QED BY <1>2, <2>2, <2>3 DEF Prepare, MetaInv, TypeOK, Fields
<1> QED
  BY <1>1, <1>2

(* One plain store completes one field and touches no other.               *)
LEMMA FillStep ==
    ASSUME MetaInv, NEW c \in Cursors, NEW f \in {"p1", "p2"}, Fill(c, f)
    PROVE  /\ MetaInv'
           /\ Read' = Read
<1> USE MetaAssumption
<1> DEFINE t == word.gen % 2
           u == 1 - t
           old(d) == IF publish = Nothing THEN 0 ELSE banks[u].p1[d]
<1>1. /\ word # Nothing /\ word \in Word
      /\ UNCHANGED <<publish, word, cur>>
      /\ todo' = todo \ {<<c, f>>}
      /\ t \in {0, 1} /\ u \in {0, 1} /\ t # u
  BY WordParity DEF Fill, MetaInv, TypeOK
<1>t. /\ banks \in [{0, 1} -> Bank]
      /\ banks[t] \in Bank /\ banks[u] \in Bank
      /\ cur \in [Cursors -> Counts] /\ 0 \in Counts
      /\ \A d \in Cursors : old(d) \in Counts
  BY <1>1, Zenon DEF MetaInv, TypeOK, Bank, MetaAssumption
<1> HIDE DEF t, u
<1>2. /\ banks' \in [{0, 1} -> Bank]
      /\ banks'[u] = banks[u]
      /\ \A d \in Cursors :
            /\ banks'[t].p1[d] = IF f = "p1" /\ d = c THEN cur[c] ELSE banks[t].p1[d]
            /\ banks'[t].p2[d] = IF f = "p2" /\ d = c THEN old(c) ELSE banks[t].p2[d]
  <2>1. CASE f = "p2"
    <3>1. banks' = [banks EXCEPT ![t] = [@ EXCEPT !.p2[c] = old(c)]]
      BY <2>1 DEF Fill, t, u
    <3> QED BY <3>1, <2>1, <1>1, <1>t DEF Bank
  <2>2. CASE f = "p1"
    <3>1. banks' = [banks EXCEPT ![t] = [@ EXCEPT !.p1[c] = cur[c]]]
      BY <2>2 DEF Fill, t
    <3> QED BY <3>1, <2>2, <1>1, <1>t DEF Bank
  <2> QED BY <2>1, <2>2
<1>3. TypeOK'
  BY <1>1, <1>2 DEF MetaInv, TypeOK
<1>4. /\ publish # Nothing => publish.gen % 2 = u
      /\ publish # Nothing => t # publish.gen % 2
  <2>1. publish # Nothing => publish.gen % 2 \in {0, 1} /\ t # publish.gen % 2
    BY <1>1, WordParity DEF MetaInv, TypeOK, t
  <2> QED BY <2>1, <1>1
<1>5. \A d \in Cursors :
        /\ <<d, "p1">> \notin todo' => banks'[t].p1[d] = cur[d]
        /\ <<d, "p2">> \notin todo' => banks'[t].p2[d] = old(d)
  <2>1. \A d \in Cursors :
          /\ <<d, "p1">> \notin todo => banks[t].p1[d] = cur[d]
          /\ <<d, "p2">> \notin todo => banks[t].p2[d] = old(d)
    BY <1>1, Zenon DEF MetaInv, t, u
  <2>2. ASSUME NEW d \in Cursors, <<d, "p1">> \notin todo'
        PROVE  banks'[t].p1[d] = cur[d]
    BY <1>1, <1>2, <2>1, <2>2, Zenon
  <2>3. ASSUME NEW d \in Cursors, <<d, "p2">> \notin todo'
        PROVE  banks'[t].p2[d] = old(d)
    BY <1>1, <1>2, <2>1, <2>3, Zenon
  <2> QED BY <2>2, <2>3, Zenon
<1>6. MetaInv'
  BY <1>1, <1>2, <1>3, <1>4, <1>5 DEF MetaInv, t, u
<1>7. Read' = Read
  BY <1>1, <1>2, <1>4 DEF Read
<1> QED
  BY <1>6, <1>7

(* The release store switches readers to the completed bank.               *)
LEMMA PublishStep ==
    ASSUME MetaInv, PublishPrepared
    PROVE  /\ MetaInv'
           /\ Atomic!Next
<1> USE MetaAssumption
<1>1. /\ word # Nothing /\ word \in Word /\ todo = {}
      /\ publish' = word /\ word' = Nothing /\ UNCHANGED <<banks, cur, todo>>
      /\ word.gen % 2 \in {0, 1} /\ 1 - (word.gen % 2) \in {0, 1}
      /\ word.epoch \in Stamps
  BY WordParity DEF PublishPrepared, MetaInv, TypeOK
<1>2. MetaInv'
  BY <1>1 DEF MetaInv, TypeOK
<1>3. Read' = [epoch |-> word.epoch, p1 |-> banks[word.gen % 2].p1,
               p2 |-> banks[word.gen % 2].p2]
  BY <1>1 DEF Read
<1>4. banks[word.gen % 2].p1 = cur
  BY <1>1 DEF MetaInv, TypeOK, Bank
<1>5. banks[word.gen % 2].p2 = IF Read = Nothing THEN [c \in Cursors |-> 0] ELSE Read.p1
  <2>1. CASE publish = Nothing
    <3>1. Read = Nothing
      BY <2>1 DEF Read
    <3> QED BY <3>1, <2>1, <1>1 DEF MetaInv, TypeOK, Bank
  <2>2. CASE publish # Nothing
    <3>1. publish \in Word /\ publish.gen % 2 = 1 - (word.gen % 2)
      BY <2>2, <1>1, WordParity DEF MetaInv, TypeOK
    <3>2. Read = [epoch |-> publish.epoch, p1 |-> banks[publish.gen % 2].p1,
                  p2 |-> banks[publish.gen % 2].p2]
      BY <2>2 DEF Read
    <3>3. publish.gen % 2 \in {0, 1} /\ publish.epoch \in Stamps
      BY <3>1, WordParity
    <3>4. Read \in [epoch : Stamps, p1 : [Cursors -> Counts], p2 : [Cursors -> Counts]]
      BY <3>2, <3>3, Zenon DEF MetaInv, TypeOK, Bank
    <3>5. Read # Nothing
      BY <3>4 DEF MetaAssumption
    <3> QED BY <3>1, <3>2, <3>5, <2>2, <1>1 DEF MetaInv, TypeOK, Bank
  <2> QED BY <2>1, <2>2
<1>6. cur \in [Cursors -> Counts]
  BY DEF MetaInv, TypeOK
<1> QED
  BY <1>1, <1>2, <1>3, <1>4, <1>5, <1>6, Zenon DEF Atomic!Next, Atomic!Bump

(* Every step preserves the invariant, and only a publish changes what a   *)
(* reader sees.                                                            *)
LEMMA MetaNext ==
    ASSUME MetaInv, [Next]_vars
    PROVE  MetaInv' /\ (Atomic!Next \/ UNCHANGED Read)
<1>1. ASSUME NEW e \in Stamps, NEW counts \in [Cursors -> Counts], Prepare(e, counts)
      PROVE  MetaInv' /\ UNCHANGED Read
  BY <1>1, PrepareStep DEF Prepare, Read
<1>2. ASSUME NEW c \in Cursors, NEW f \in {"p1", "p2"}, Fill(c, f)
      PROVE  MetaInv' /\ UNCHANGED Read
  BY <1>2, FillStep
<1>3. CASE PublishPrepared
  BY <1>3, PublishStep
<1>4. CASE Crash
  BY <1>4 DEF Crash, MetaInv, TypeOK, Read
<1>5. CASE UNCHANGED vars
  BY <1>5 DEF vars, MetaInv, TypeOK, Read
<1> QED
  BY <1>1, <1>2, <1>3, <1>4, <1>5 DEF Next

(* The types of the marker hold for every number of generations.           *)
THEOREM MetaTypeCorrect == Spec => []TypeOK
<1>1. MetaInv => TypeOK
  BY DEF MetaInv
<1>2. MetaInv /\ [Next]_vars => MetaInv'
  BY MetaNext
<1> QED
  BY <1>1, <1>2, MetaInit, PTL DEF Spec

(* A reader sees complete snapshots only, each the successor of the one    *)
(* before: the two-bank publish implements an atomic marker.               *)
THEOREM MetaRefinement == Spec => ReadsAtomic
<1>1. Init => Atomic!Init
  BY DEF Init, Atomic!Init, Read
<1>2. MetaInv /\ [Next]_vars => MetaInv'
  BY MetaNext
<1>3. MetaInv /\ [Next]_vars => [Atomic!Next]_Read
  BY MetaNext
<1> QED
  BY <1>1, <1>2, <1>3, MetaInit, PTL DEF Spec, ReadsAtomic, Atomic!Spec
================================================================================
