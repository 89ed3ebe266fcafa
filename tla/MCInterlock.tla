------------------------------ MODULE MCInterlock ------------------------------
(* The instance of Interlock for TLC: two threads that create, start and      *)
(* update at once are enough for the list of the hook to have objects of the  *)
(* heap and of both stacks on it, and to be extended while it is walked.      *)
EXTENDS Interlock
================================================================================
