----------------------------- MODULE MCOutRecord -----------------------------
(* The instance of OutRecord for TLC: a client and two threads of the driver  *)
(* race for the scan lock and the record mutex, next to the PINI processing.  *)
EXTENDS OutRecord
===============================================================================
