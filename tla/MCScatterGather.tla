---------------------------- MODULE MCScatterGather ----------------------------
(* Small instances of ScatterGather for TLC: the object that admits and    *)
(* writes back in chunks, the object that flushes, and an object used      *)
(* without chunks for everything.                                          *)
EXTENDS ScatterGather
MCStagers == {[chunk |-> TRUE, calls |-> {"transfer", "writeback"}],
              [chunk |-> FALSE, calls |-> {"writeback", "flush"}],
              [chunk |-> FALSE, calls |-> {"transfer"}]}
================================================================================
