----------------------------- MODULE RecoveryMeta ------------------------------
(***************************************************************************)
(* The crash-atomic recovery marker (recovery_meta.h), shared by YCSB and  *)
(* TPC-C: two cursor banks and one 64-bit publish word in a durable        *)
(* mapping.  The writer fills the inactive bank field by field with plain  *)
(* stores and publishes with one release store; the process may die        *)
(* between any two stores.  The word is [tag, generation, crash epoch];    *)
(* the parity of the generation selects the live bank.                     *)
(***************************************************************************)
EXTENDS Naturals

CONSTANTS
    Cursors,   \* free_start and del for YCSB; no, o, ol and no_d for TPC-C
    Counts,    \* the values a cursor may have
    Stamps,    \* the crash epochs
    HalfGens,  \* half the number of generations: the field is 16 bits wide
    Nothing    \* a publish word without the validity tag

GenMod == 2 * HalfGens

ASSUME MetaAssumption ==
    /\ HalfGens \in Nat \ {0}
    /\ Counts \subseteq Nat
    /\ 0 \in Counts
    /\ Nothing \notin [gen : 0 .. GenMod - 1, epoch : Stamps]
    /\ Nothing \notin [epoch : Stamps, p1 : [Cursors -> Counts], p2 : [Cursors -> Counts]]

Fields == Cursors \X {"p1", "p2"}

VARIABLES
    banks,    \* durable: banks[0], banks[1]
    publish,  \* durable: the publish word
    word,     \* the word prepare returned, Nothing outside an update
    cur,      \* the counters the update in progress was given
    todo      \* fields of the inactive bank fill has still to store

vars == <<banks, publish, word, cur, todo>>

Bank == [p1 : [Cursors -> Counts], p2 : [Cursors -> Counts]]
Word == [gen : 0 .. GenMod - 1, epoch : Stamps]
ZeroBank == [p1 |-> [c \in Cursors |-> 0], p2 |-> [c \in Cursors |-> 0]]

(* A durable file starts as zeros.                                         *)
Init ==
    /\ banks = [b \in {0, 1} |-> ZeroBank]
    /\ publish = Nothing
    /\ word = Nothing
    /\ cur = [c \in Cursors |-> 0]
    /\ todo = {}

(* The generation of the next publish word.                                *)
NextGen == IF publish = Nothing THEN 1 ELSE (publish.gen + 1) % GenMod

(* Writer, step 1: prepare computes the word and starts filling.           *)
Prepare(e, counts) ==
    /\ word = Nothing
    /\ word' = [gen |-> NextGen, epoch |-> e]
    /\ cur' = counts
    /\ todo' = Fields
    /\ UNCHANGED <<banks, publish>>

(* One plain store of fill: p2 takes the p1 of the live bank, or 0 on the  *)
(* first update; p1 takes the current counter.                             *)
Fill(c, f) ==
    LET target == word.gen % 2
        old    == IF publish = Nothing THEN 0 ELSE banks[1 - target].p1[c]
        value  == IF f = "p2" THEN old ELSE cur[c]
    IN  /\ word # Nothing
        /\ <<c, f>> \in todo
        /\ todo' = todo \ {<<c, f>>}
        /\ banks' = [banks EXCEPT ![target] =
                       IF f = "p2" THEN [@ EXCEPT !.p2[c] = value]
                                   ELSE [@ EXCEPT !.p1[c] = value]]
        /\ UNCHANGED <<publish, word, cur>>

(* Mutant: the publish store may overtake the plain stores.                *)
PublishEarly ==
    /\ word # Nothing
    /\ publish' = word
    /\ word' = Nothing
    /\ todo' = {}
    /\ UNCHANGED <<banks, cur>>

(* Writer, step 2: the release store, after every plain store.             *)
PublishPrepared ==
    /\ word # Nothing
    /\ todo = {}
    /\ publish' = word
    /\ word' = Nothing
    /\ UNCHANGED <<banks, cur, todo>>

(* The process dies in the middle of an update and a fresh one starts.     *)
Crash ==
    /\ word # Nothing
    /\ word' = Nothing
    /\ todo' = {}
    /\ UNCHANGED <<banks, publish, cur>>

Next ==
    \/ \E e \in Stamps, counts \in [Cursors -> Counts] : Prepare(e, counts)
    \/ \E c \in Cursors, f \in {"p1", "p2"} : Fill(c, f)
    \/ PublishPrepared
    \/ Crash

Spec == Init /\ [][Next]_vars

--------------------------------------------------------------------------------
(* The banks are cursor banks, the words carry a generation of the field's *)
(* width, and fields are pending only during an update.                    *)
TypeOK ==
    /\ banks \in [{0, 1} -> Bank]
    /\ publish \in Word \cup {Nothing}
    /\ word \in Word \cup {Nothing}
    /\ cur \in [Cursors -> Counts]
    /\ todo \subseteq Fields
    /\ word = Nothing => todo = {}

(* What read returns: the crash epoch and the bank the parity selects.     *)
Read == IF publish = Nothing THEN Nothing
        ELSE [epoch |-> publish.epoch, p1 |-> banks[publish.gen % 2].p1,
              p2 |-> banks[publish.gen % 2].p2]

(* "the epoch and the cursors must always agree": a reader after a crash   *)
(* at any store boundary sees the previous complete snapshot or the new    *)
(* one, and the cursor history it shifts is that of the previous snapshot. *)
Atomic == INSTANCE AtomicMarker WITH snap <- Read
ReadsAtomic == Atomic!Spec
================================================================================
