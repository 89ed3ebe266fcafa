------------------------------ MODULE MCWaveform ------------------------------
(* The instance of Waveform for TLC; its constants are sets of model values. *)
EXTENDS Waveform
===============================================================================
