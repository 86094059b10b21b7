--------------------------- MODULE MCDurableStore ---------------------------
(***************************************************************************)
(* DurableStore with a pinned region of each kind and an unpinned one, in  *)
(* the order the constructor and runBenchmark map them.                    *)
(***************************************************************************)
EXTENDS DurableStore

MCOrder == << [name |-> "shadow_keys", pin |-> TRUE],
              [name |-> "records",     pin |-> TRUE],
              [name |-> "growing",     pin |-> FALSE],
              [name |-> "meta",        pin |-> TRUE] >>
=============================================================================
