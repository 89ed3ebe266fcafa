------------------------------ MODULE StateStore ------------------------------
(***************************************************************************)
(* What the persistence layer promises to an IOC: a table of values in     *)
(* memory and a snapshot of it that survives the process.  The snapshot is *)
(* replaced in one step by the whole of the table, and a new process       *)
(* starts from the snapshot.  Values of a variable are numbered in the     *)
(* order in which they are written; 0 is a variable never assigned.        *)
(***************************************************************************)
EXTENDS Naturals

CONSTANT Vars           \* The persistent variables

VARIABLES mem,          \* The value of each variable in the process
          saved         \* The value of each variable in the snapshot

storeVars == <<mem, saved>>

StoreInit ==
  /\ mem = [v \in Vars |-> 0]
  /\ saved = [v \in Vars |-> 0]

StoreWrite(v) ==
  /\ mem' = [mem EXCEPT ![v] = @ + 1]
  /\ UNCHANGED saved

StoreSave ==
  /\ saved' = mem
  /\ UNCHANGED mem

\* The process ends, in whatever way, and its successor reads the snapshot.
StoreRestart ==
  /\ mem' = saved
  /\ UNCHANGED saved

StoreNext == (\E v \in Vars : StoreWrite(v)) \/ StoreSave \/ StoreRestart

StoreSpec == StoreInit /\ [][StoreNext]_storeVars
===============================================================================
