---------------------------- MODULE DurableStore ----------------------------
(***************************************************************************)
(* The files behind the durable regions (MallocDurable, util_memory.cu)    *)
(* over the life of several processes.  A process without a directory      *)
(* works on the heap; one started with --durable_store creates the files;  *)
(* one started with --recover as well maps the files that are there.  A    *)
(* process maps its regions one after the other and may die between any    *)
(* two; what it wrote to a mapped file stays.  What a region holds is      *)
(* abstracted to the processes whose bytes are in it: none of them when it *)
(* reads as zeros.                                                         *)
(***************************************************************************)
EXTENDS Integers, Sequences

CONSTANTS
    Order,      \* the regions in the order they are mapped: [name, pin]
    MaxRuns     \* processes started over the directory (bound)

Regions == {Order[i].name : i \in 1 .. Len(Order)}
Runs == 1 .. MaxRuns
Zeroed == {}
Absent == {0}     \* no file; 0 is no process's number

VARIABLES
    file,       \* the bytes of each region's file
    run, mode,  \* the process now or last running, and how it was started
    alive,
    where,      \* where each region of the process is: file, heap or unmapped
    heap,       \* the bytes of the regions that are on the heap
    mapped      \* the regions mapped so far

vars == <<file, run, mode, alive, where, heap, mapped>>

Init ==
    /\ file = [r \in Regions |-> Absent]
    /\ run = 0 /\ mode = "normal" /\ alive = FALSE
    /\ where = [r \in Regions |-> "unmapped"]
    /\ heap = [r \in Regions |-> Zeroed]
    /\ mapped = 0

-----------------------------------------------------------------------------
\* main: the options become one environment variable or none.
Launch ==
    /\ ~alive /\ run < MaxRuns
    /\ run' = run + 1 /\ alive' = TRUE
    /\ mode' \in {"normal", "create", "recover"}
    /\ where' = [r \in Regions |-> "unmapped"]
    /\ mapped' = 0
    /\ UNCHANGED <<file, heap>>

\* Malloc: pinned memory, zeroed.
Malloc(r) ==
    /\ where' = [where EXCEPT ![r] = "heap"]
    /\ heap' = [heap EXCEPT ![r] = Zeroed]

\* open and ftruncate: O_CREAT makes a missing file, and without O_TRUNC an
\* old file of the same size keeps its bytes.
Opened(r) == IF mode = "create" /\ file[r] = Absent THEN Zeroed ELSE file[r]

\* The mapping is cleared only in a region that is not pinned, on create.
Provisioned(r, pin) == IF mode = "create" /\ ~pin THEN Zeroed ELSE Opened(r)

\* MallocDurable for the next region: on the heap when there is no directory,
\* when the file cannot be opened, and when it is opened but cannot be mapped.
MallocDurable ==
    /\ alive /\ mapped < Len(Order)
    /\ mapped' = mapped + 1
    /\ LET r == Order[mapped + 1].name
           pin == Order[mapped + 1].pin
           opens == mode = "create" \/ (mode = "recover" /\ file[r] # Absent)
       IN \/ Malloc(r) /\ UNCHANGED file
          \/ opens /\ Malloc(r) /\ file' = [file EXCEPT ![r] = Opened(r)]
          \/ /\ opens
             /\ where' = [where EXCEPT ![r] = "file"]
             /\ file' = [file EXCEPT ![r] = Provisioned(r, pin)]
             /\ UNCHANGED heap
    /\ UNCHANGED <<run, mode, alive>>

\* The process writes a region: a record, a log entry, the marker.
Write(r) ==
    /\ alive /\ mapped = Len(Order)
    /\ IF where[r] = "file"
       THEN file' = [file EXCEPT ![r] = @ \cup {run}] /\ UNCHANGED heap
       ELSE heap' = [heap EXCEPT ![r] = @ \cup {run}] /\ UNCHANGED file
    /\ UNCHANGED <<run, mode, alive, where, mapped>>

\* The process ends, or a GPU fault ends it, wherever it is.
Exit ==
    /\ alive /\ alive' = FALSE
    /\ UNCHANGED <<file, run, mode, where, heap, mapped>>

\* The operator empties the directory between two processes.
Clean ==
    /\ ~alive
    /\ file' = [r \in Regions |-> Absent]
    /\ UNCHANGED <<run, mode, alive, where, heap, mapped>>

Next == Launch \/ MallocDurable \/ (\E r \in Regions : Write(r)) \/ Exit \/ Clean
Spec == Init /\ [][Next]_vars

-----------------------------------------------------------------------------
Bytes(r) == IF where[r] = "file" THEN file[r] ELSE heap[r]

\* A process started to create its store has only its own bytes in it: every
\* region it has mapped was zeroed, whatever an earlier process left in the
\* directory.
CreatedZeroed ==
    alive /\ mode = "create" =>
        \A r \in Regions : where[r] # "unmapped" => Bytes(r) \subseteq {run}
=============================================================================
