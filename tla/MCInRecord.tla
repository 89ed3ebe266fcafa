------------------------------ MODULE MCInRecord ------------------------------
(* The instances of InRecord for TLC: a record is written twice, the second   *)
(* time while it is scanned; one whose store may be delayed is written once   *)
(* and is on the way of the hook.                                             *)
EXTENDS InRecord

MCMaxWrites == [r \in Records |-> IF r \in Relaxed THEN 1 ELSE 2]
================================================================================
