----------------------------- MODULE MCTxnFlow -----------------------------
(***************************************************************************)
(* TxnFlow with two transactions of two types in each of three epochs.  A  *)
(* type is one unit long in one array and two in another, so that an epoch *)
(* may be shorter or longer than the one before it.                        *)
(***************************************************************************)
EXTENDS TxnFlow

MCTypes == {"short", "long"}
MCInputSize == [short |-> 1, long |-> 2]
MCParamSize == [short |-> 2, long |-> 1]
MCPlanSize == [short |-> 1, long |-> 2]

\* The command lines both benchmarks run with: -x gpu -y gpu_only,
\* -x gpu -y hybrid_staging, -x cpu -y cpu_only.
MCConfigs ==
    [packed : BOOLEAN, hybrid : {FALSE}, execution_device : {"GPU", "CPU"}]
    \cup [packed : BOOLEAN, hybrid : {TRUE}, execution_device : {"GPU"}]
=============================================================================
